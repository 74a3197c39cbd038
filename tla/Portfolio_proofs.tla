--------------------------- MODULE Portfolio_proofs ---------------------------
(***************************************************************************)
(* Proofs about Interview and Portfolio, for any number of questions,      *)
(* targets, extensions, failures, repeated calls and requests in flight.   *)
(* What holds only as long as no request comes while another is being      *)
(* answered says so (overlaps = 0).                                        *)
(***************************************************************************)
EXTENDS Portfolio, SequenceTheorems, WellFoundedInduction, TLAPS

-----------------------------------------------------------------------------
(* Types *)

Question == ((1..4) \X Nat) \cup {Lost}

Status == {"generating", "completed", "failed"}

Nodes == {"router", "file_processor", "retriever", "analyst", "question_generator",
          "finish"}

Kinds == {None, "create", "chat", "extend", "end"}

Works ==
  [pc : Nodes \cup {"idle", "mark", "begin", "end"}, kind : Kinds, stream : BOOLEAN,
   extend : BOOLEAN, files : BOOLEAN, state : States, spoke : BOOLEAN]

Jobs ==
  [pc : {"none", "end", "close", "generate", "report", "over"}, asked : Asked,
   attempt : Nat, call : Nat, made : BOOLEAN, tells : {"completed", "failed"}]

-----------------------------------------------------------------------------
(* The inductive invariant *)

(* How many questions the stages before have.                              *)
Before(n) ==
  IF n = 1 THEN 0
  ELSE IF n = 2 THEN FixedTotal[1]
  ELSE IF n = 3 THEN FixedTotal[1] + FixedTotal[2]
  ELSE FixedTotal[1] + FixedTotal[2] + FixedTotal[3]

(* The questions asked are those up to the place in the stage.             *)
Placed(s) ==
  /\ s.used <= FixedTotal[s.stage]
  /\ s.asked = SubSeq(Script, 1, Before(s.stage) + s.used)

(* A state that may be saved.                                              *)
Good(s) == s \in States /\ Placed(s)

(* The last stage is over.                                                 *)
Whole(s) == Good(s) /\ s.stage = 4 /\ s.used = FixedTotal[4] /\ s.done

(* Nothing is finished before it is whole.                                 *)
Ripe(s) == Good(s) /\ (s.extended \/ s.complete) => Whole(s)

(* Nothing has been asked yet.                                             *)
Fresh(s) == s.stage = 1 /\ s.used = 0

Checkpoints == (saved = None \/ Good(saved)) /\ (prev = None \/ Good(prev))

(* A copy at a node meets what the node expects of it.                     *)
Expected(pc, s) ==
  /\ pc = "router" /\ ~s.extended /\ ~s.counted /\ s.behind = 0 => Fresh(s)
  /\ pc \in {"file_processor", "retriever", "analyst"} => s.counted
  /\ pc = "question_generator" /\ ~s.extended =>
       IF s.counted THEN s.used < FixedTotal[s.stage] ELSE Fresh(s)

(* A request on its way, whatever the others do.                           *)
OnItsWay(r) ==
  /\ r.pc \in Nodes => Good(r.state) /\ Expected(r.pc, r.state)
  /\ r.pc \in {"mark", "begin"} =>
       /\ r.kind \in {"create", "chat", "extend"}
       /\ r.kind = "create" => r.pc = "begin" /\ ~r.extend
       /\ r.kind = "extend" => r.extend

SessionInv ==
  /\ work \in [Worker -> Works] /\ overlaps \in Nat /\ failures \in Nat
  /\ Checkpoints
  /\ \A w \in Worker : OnItsWay(work[w])

(* What is saved is ripe, and so is what a crash may leave of it; a whole  *)
(* interview is not lost.                                                  *)
Saved(s, p) ==
  /\ Ripe(s) /\ Ripe(p)
  /\ Whole(p) => Whole(s)

(* The only request: its copy is ripe, and what it has read still holds.   *)
Kept(s, p, r) ==
  /\ r.pc \in Nodes =>
       /\ Ripe(r.state)
       /\ Whole(s) => Whole(r.state)
       /\ s = r.state \/ p = s
  /\ r.pc \notin Nodes /\ r.pc # "idle" => p = s
  /\ r.pc = "begin" /\ r.kind = "create" => ~Whole(s)
  /\ r.pc \in {"mark", "begin"} /\ r.extend => Whole(s)
  /\ r.pc = "end" => Whole(s)

(* As long as no request comes while another is being answered.            *)
Alone ==
  /\ \A v, w \in Worker : v = w \/ work[v].pc = "idle" \/ work[w].pc = "idle"
  /\ (\A w \in Worker : work[w].pc = "idle") => prev = saved
  /\ Saved(saved, prev)
  /\ \A w \in Worker : Kept(saved, prev, work[w])

Single == overlaps = 0 => Alone

(* The portfolio's task.                                                   *)
Told ==
  /\ job \in Jobs /\ portfolio \in Status
  /\ late \in [{"completed", "failed"} -> Nat]
  /\ unanswered \in Nat /\ broken \in Nat
  /\ overlaps = 0 =>
       /\ job.pc \in {"end", "close"} => Whole(saved) /\ Whole(prev)
       /\ WholePortfolio
  /\ job.pc = "report" => job.call <= unanswered + 1
  /\ job.pc \notin {"report", "over"} =>
       portfolio = "generating" /\ late = [s \in {"completed", "failed"} |-> 0]
  /\ job.tells = "completed" => job.made
  /\ late["completed"] > 0 \/ portfolio = "completed" => job.made
  /\ broken = 0 /\ unanswered < MaxRetries =>
       /\ job.pc = "report" => job.tells = Outcome
       /\ job.pc = "over" => portfolio = Outcome
       /\ late["failed"] > 0 \/ portfolio = "failed" => ~job.made

Inv == SessionInv /\ Single /\ Told

-----------------------------------------------------------------------------
(* The script *)

Stage(n) == [i \in 1..FixedTotal[n] |-> <<n, i>>]

(* A stage is a sequence of questions.                                     *)
LEMMA StageIsSeq ==
  ASSUME NEW n \in 1..4
  PROVE  /\ FixedTotal[n] \in Nat /\ FixedTotal[n] > 0
         /\ Stage(n) \in Asked /\ Len(Stage(n)) = FixedTotal[n]
         /\ \A i \in 1..FixedTotal[n] : Stage(n)[i] = <<n, i>>
<1>1. FixedTotal[n] \in Nat /\ FixedTotal[n] > 0
  BY StageAssumption
<1>2. \A i \in 1..FixedTotal[n] : <<n, i>> \in Question
  BY <1>1 DEF Question
<1>3. Stage(n) \in [1..FixedTotal[n] -> Question]
  BY <1>2 DEF Stage
<1>4. QED
  BY <1>1, <1>3 DEF Stage, Asked, Question

(* Two sequences of questions joined.                                      *)
LEMMA Joined ==
  ASSUME NEW s \in Asked, NEW t \in Asked
  PROVE  /\ s \o t \in Asked /\ Len(s) \in Nat /\ Len(t) \in Nat
         /\ Len(s \o t) = Len(s) + Len(t)
         /\ \A i \in 1..Len(s) : (s \o t)[i] = s[i]
         /\ \A i \in 1..Len(t) : (s \o t)[Len(s) + i] = t[i]
<1>1. s \in Seq(Question) /\ t \in Seq(Question)
  BY DEF Asked, Question
<1>2. Len(s) \in Nat /\ Len(t) \in Nat
  BY <1>1, LenProperties
<1>3. /\ s \o t \in Seq(Question) /\ Len(s \o t) = Len(s) + Len(t)
      /\ \A i \in 1..(Len(s) + Len(t)) :
           (s \o t)[i] = IF i <= Len(s) THEN s[i] ELSE t[i - Len(s)]
  BY <1>1, ConcatProperties
<1>4. \A i \in 1..Len(s) : (s \o t)[i] = s[i]
  BY <1>2, <1>3
<1>5. ASSUME NEW i \in 1..Len(t) PROVE (s \o t)[Len(s) + i] = t[i]
  <2>1. /\ Len(s) + i \in 1..(Len(s) + Len(t)) /\ ~(Len(s) + i <= Len(s))
        /\ (Len(s) + i) - Len(s) = i
    BY <1>2
  <2>2. QED
    BY <1>3, <2>1
<1>6. QED
  BY <1>2, <1>3, <1>4, <1>5 DEF Asked, Question

(* The script has every question of every stage at its place.              *)
LEMMA ScriptIs ==
  /\ Script \in Asked /\ Len(Script) = Before(4) + FixedTotal[4] /\ Len(Script) \in Nat
  /\ \A n \in 1..4 : Before(n) \in Nat /\ Before(n) + FixedTotal[n] <= Len(Script)
  /\ \A n \in 1..4 : \A i \in 1..FixedTotal[n] : Script[Before(n) + i] = <<n, i>>
<1> DEFINE s1 == Stage(1)
           s2 == s1 \o Stage(2)
           s3 == s2 \o Stage(3)
           s4 == s3 \o Stage(4)
           f1 == FixedTotal[1]
           f2 == FixedTotal[2]
           f3 == FixedTotal[3]
           f4 == FixedTotal[4]
<1>0. Script = s4
  BY DEF Script, Stage
<1>1. \A n \in 1..4 : /\ FixedTotal[n] \in Nat /\ FixedTotal[n] > 0
                      /\ Stage(n) \in Asked /\ Len(Stage(n)) = FixedTotal[n]
                      /\ \A i \in 1..FixedTotal[n] : Stage(n)[i] = <<n, i>>
  BY StageIsSeq
<1>a. s1 \in Asked /\ Len(s1) = f1 /\ \A i \in 1..Len(s1) : s1[i] = <<1, i>>
  BY <1>1
<1>b. /\ Stage(2) \in Asked /\ Len(Stage(2)) = f2
      /\ Stage(3) \in Asked /\ Len(Stage(3)) = f3
      /\ Stage(4) \in Asked /\ Len(Stage(4)) = f4
      /\ \A i \in 1..Len(Stage(2)) : Stage(2)[i] = <<2, i>>
      /\ \A i \in 1..Len(Stage(3)) : Stage(3)[i] = <<3, i>>
      /\ \A i \in 1..Len(Stage(4)) : Stage(4)[i] = <<4, i>>
  BY <1>1
<1>c. f1 \in Nat /\ f2 \in Nat /\ f3 \in Nat /\ f4 \in Nat
  BY StageAssumption
<1>d. /\ Before(1) = 0 /\ Before(2) = f1 /\ Before(3) = f1 + f2
      /\ Before(4) = f1 + f2 + f3
  BY DEF Before
<1> HIDE DEF s1, Stage, f1, f2, f3, f4
<1>2. /\ s2 \in Asked /\ Len(s1) \in Nat /\ Len(s2) = Len(s1) + Len(Stage(2))
      /\ \A i \in 1..Len(s1) : s2[i] = s1[i]
      /\ \A i \in 1..Len(Stage(2)) : s2[Len(s1) + i] = Stage(2)[i]
  BY <1>a, <1>b, Joined
<1> HIDE DEF s2
<1>3. /\ s3 \in Asked /\ Len(s2) \in Nat /\ Len(s3) = Len(s2) + Len(Stage(3))
      /\ \A i \in 1..Len(s2) : s3[i] = s2[i]
      /\ \A i \in 1..Len(Stage(3)) : s3[Len(s2) + i] = Stage(3)[i]
  BY <1>b, <1>2, Joined
<1> HIDE DEF s3
<1>4. /\ s4 \in Asked /\ Len(s3) \in Nat /\ Len(s4) = Len(s3) + Len(Stage(4))
      /\ \A i \in 1..Len(s3) : s4[i] = s3[i]
      /\ \A i \in 1..Len(Stage(4)) : s4[Len(s3) + i] = Stage(4)[i]
  BY <1>b, <1>3, Joined
<1> HIDE DEF s4
<1>5. /\ Len(s1) = f1 /\ Len(s2) = f1 + f2 /\ Len(s3) = f1 + f2 + f3
      /\ Len(s4) = f1 + f2 + f3 + f4
  BY <1>a, <1>b, <1>c, <1>2, <1>3, <1>4
<1>7. ASSUME NEW i \in 1..f1 PROVE s4[Before(1) + i] = <<1, i>>
  <2>1. i \in 1..Len(s1) /\ i \in 1..Len(s2) /\ i \in 1..Len(s3) /\ Before(1) + i = i
    BY <1>c, <1>d, <1>5
  <2>2. s1[i] = <<1, i>> /\ s2[i] = s1[i] /\ s3[i] = s2[i] /\ s4[i] = s3[i]
    BY <2>1, <1>a, <1>2, <1>3, <1>4
  <2>3. QED
    BY <2>1, <2>2, Zenon
<1>8. ASSUME NEW i \in 1..f2 PROVE s4[Before(2) + i] = <<2, i>>
  <2> DEFINE j == Len(s1) + i
  <2>1. i \in 1..Len(Stage(2)) /\ j \in 1..Len(s2) /\ j \in 1..Len(s3) /\ Before(2) + i = j
    BY <1>b, <1>c, <1>d, <1>5
  <2>2. s2[j] = <<2, i>>
    BY <2>1, <1>b, <1>2
  <2> HIDE DEF j
  <2>3. QED
    BY <2>1, <2>2, <1>3, <1>4
<1>9. ASSUME NEW i \in 1..f3 PROVE s4[Before(3) + i] = <<3, i>>
  <2> DEFINE j == Len(s2) + i
  <2>1. i \in 1..Len(Stage(3)) /\ j \in 1..Len(s3) /\ Before(3) + i = j
    BY <1>b, <1>c, <1>d, <1>5
  <2>2. s3[j] = <<3, i>>
    BY <2>1, <1>b, <1>3
  <2> HIDE DEF j
  <2>3. QED
    BY <2>1, <2>2, <1>4
<1>10. ASSUME NEW i \in 1..f4 PROVE s4[Before(4) + i] = <<4, i>>
  BY <1>b, <1>c, <1>d, <1>4, <1>5
<1>11. \A n \in 1..4 : Before(n) \in Nat /\ Before(n) + FixedTotal[n] <= Len(s4)
  <2>1. /\ Before(1) \in Nat /\ Before(1) + f1 <= Len(s4)
        /\ Before(2) \in Nat /\ Before(2) + f2 <= Len(s4)
        /\ Before(3) \in Nat /\ Before(3) + f3 <= Len(s4)
        /\ Before(4) \in Nat /\ Before(4) + f4 <= Len(s4)
    BY <1>c, <1>d, <1>5
  <2>2. \A n \in 1..4 : n = 1 \/ n = 2 \/ n = 3 \/ n = 4
    OBVIOUS
  <2>3. QED
    BY <2>1, <2>2 DEF f1, f2, f3, f4
<1>12. \A n \in 1..4 : \A i \in 1..FixedTotal[n] : s4[Before(n) + i] = <<n, i>>
  <2>1. \A n \in 1..4 : n = 1 \/ n = 2 \/ n = 3 \/ n = 4
    OBVIOUS
  <2>2. QED
    BY <2>1, <1>7, <1>8, <1>9, <1>10 DEF f1, f2, f3, f4
<1>13. QED
  <2>1. Len(s4) = Before(4) + f4 /\ Len(s4) \in Nat
    BY <1>c, <1>d, <1>5
  <2>2. QED
    BY <1>0, <1>4, <1>11, <1>12, <2>1, Zenon DEF f4

(* The stage after begins where this one ends.                             *)
LEMMA NextStage ==
  ASSUME NEW n \in 1..3
  PROVE  Before(n + 1) = Before(n) + FixedTotal[n] /\ FixedTotal[n + 1] > 0
BY StageAssumption DEF Before

(* What is asked is a beginning of the script, and all of it at the end.   *)
LEMMA BeginningOfScript ==
  ASSUME NEW s \in States, Placed(s)
  PROVE  /\ s.asked = SubSeq(Script, 1, Len(s.asked))
         /\ Whole(s) => s.asked = Script
<1> DEFINE k == Before(s.stage) + s.used
<1>1. /\ s.stage \in 1..4 /\ s.used \in Nat /\ s.used <= FixedTotal[s.stage]
      /\ FixedTotal[s.stage] \in Nat
  BY StageIsSeq DEF States, Placed
<1>2. k \in Nat /\ k <= Len(Script) /\ Len(Script) \in Nat
  <2>1. /\ Before(s.stage) \in Nat /\ Before(s.stage) + FixedTotal[s.stage] <= Len(Script)
        /\ Len(Script) \in Nat
    BY <1>1, ScriptIs
  <2>2. QED
    BY <1>1, <2>1
<1> HIDE DEF k
<1>3. Len(SubSeq(Script, 1, k)) = k
  <2>1. \A i \in 1..k : Script[i] \in Question
    BY <1>2, ScriptIs, ElementOfSeq DEF Asked, Question
  <2>2. Len(SubSeq(Script, 1, k)) = IF 1 <= k THEN k - 1 + 1 ELSE 0
    BY <1>2, <2>1, SubSeqProperties
  <2>3. QED
    BY <1>2, <2>2
<1>4. s.asked = SubSeq(Script, 1, k)
  BY DEF Placed, k
<1>5. ASSUME Whole(s) PROVE s.asked = Script
  <2>1. k = Len(Script)
    BY <1>5, ScriptIs DEF Whole, k
  <2>2. QED
    BY <1>4, <2>1, ScriptIs, SubSeqFull DEF Asked
<1>6. QED
  BY <1>3, <1>4, <1>5

(* The next question of the stage is the next one of the script.           *)
LEMMA NextQuestion ==
  ASSUME NEW s \in States, Placed(s), s.used < FixedTotal[s.stage]
  PROVE  /\ <<s.stage, s.used + 1>> \in Question
         /\ Append(s.asked, <<s.stage, s.used + 1>>)
              = SubSeq(Script, 1, Before(s.stage) + (s.used + 1))
<1> DEFINE k == Before(s.stage) + s.used
           q == <<s.stage, s.used + 1>>
<1>1. /\ s.stage \in 1..4 /\ s.used \in Nat /\ FixedTotal[s.stage] \in Nat
      /\ s.used + 1 \in 1..FixedTotal[s.stage]
  BY StageIsSeq DEF States
<1>2. Before(s.stage) \in Nat /\ k \in Nat /\ k + 1 <= Len(Script) /\ Len(Script) \in Nat
  <2>1. /\ Before(s.stage) \in Nat /\ Before(s.stage) + FixedTotal[s.stage] <= Len(Script)
        /\ Len(Script) \in Nat
    BY <1>1, ScriptIs
  <2>2. QED
    BY <1>1, <2>1
<1>3. Script[k + 1] = q
  <2>1. Script[Before(s.stage) + (s.used + 1)] = q
    BY <1>1, ScriptIs
  <2>2. Before(s.stage) + (s.used + 1) = k + 1
    BY <1>1, <1>2
  <2> HIDE DEF k, q
  <2>3. QED
    BY <2>1, <2>2, Zenon
<1>4. q \in Question
  BY <1>1 DEF Question
<1>5. SubSeq(Script, 1, k + 1) = SubSeq(Script, 1, k) \o <<Script[k + 1]>>
  <2>1. 1 \in 1..Len(Script) /\ k + 1 \in 1..Len(Script) /\ k + 1 - 1 = k
    BY <1>2
  <2> HIDE DEF k
  <2>2. SubSeq(Script, 1, k + 1) = SubSeq(Script, 1, (k + 1) - 1) \o <<Script[k + 1]>>
    BY <2>1, ScriptIs, SubSeqRecursiveSecond DEF Asked
  <2>3. QED
    BY <1>2, <2>2
<1>6. Append(s.asked, q) = s.asked \o <<q>>
  BY <1>4, AppendIsConcat DEF States, Asked
<1>7. s.asked = SubSeq(Script, 1, k) /\ Before(s.stage) + (s.used + 1) = k + 1
  BY <1>1, <1>2 DEF Placed
<1>8. QED
  BY <1>3, <1>4, <1>5, <1>6, <1>7

-----------------------------------------------------------------------------
(* States that may be saved *)

(* The state a session starts with.                                        *)
LEMMA InitialGood == Good(InitialState) /\ Fresh(InitialState) /\ ~Whole(InitialState)
<1>1. InitialState \in States
  <2>1. <<>> \in Asked /\ NoAttempts \in [1..Targets -> Nat]
    BY DEF Asked, NoAttempts
  <2>2. QED
    BY <2>1 DEF InitialState, States
<1>2. SubSeq(Script, 1, 0) = <<>>
  BY SubSeqEmpty
<1>3. FixedTotal[1] \in Nat
  BY StageAssumption
<1>4. InitialState.stage = 1
  BY DEF InitialState
<1>5. QED
  BY <1>1, <1>2, <1>3, <1>4 DEF Good, Placed, Fresh, Whole, InitialState, Before

(* None is not a state.                                                    *)
LEMMA NoneIs == ~Good(None) /\ ~Whole(None) /\ Ripe(None)
BY NoneAssumption DEF Good, Whole, Ripe

(* A change that finishes nothing that is not whole.                       *)
Keeps(s, t) == (Ripe(s) => Ripe(t)) /\ (Whole(s) => Whole(t))

(* A change that leaves the questions alone.                               *)
LEMMA StaysGood ==
  ASSUME NEW s, Good(s), NEW t \in States,
         t.asked = s.asked, t.stage = s.stage, t.used = s.used,
         Whole(s) => t.done,
         Ripe(s) /\ (t.extended \/ t.complete) => Whole(s)
  PROVE  Good(t) /\ Keeps(s, t)
<1>1. Good(t)
  BY DEF Good, Placed
<1>2. Whole(s) => Whole(t)
  BY <1>1 DEF Whole
<1>3. QED
  BY <1>1, <1>2 DEF Keeps, Ripe

(* Who chats, searches and answers leaves a state typed.                   *)
LEMMA StatesKept ==
  ASSUME NEW s \in States
  PROVE  /\ \A x \in Status : [s EXCEPT !.status = x] \in States
         /\ [s EXCEPT !.behind = @ + 1] \in States
         /\ s.behind > 0 => [s EXCEPT !.counted = TRUE, !.behind = @ - 1] \in States
         /\ \A b \in BOOLEAN : [s EXCEPT !.done = b] \in States
         /\ \A x \in SUBSET (1..Targets) : [s EXCEPT !.satisfied = x] \in States
         /\ \A a, b \in BOOLEAN : [s EXCEPT !.complete = a, !.extended = b] \in States
         /\ \A a, b \in BOOLEAN : [s EXCEPT !.complete = a, !.guide = b] \in States
         /\ Ended(s) \in States
<1>1. \A x \in Status : [s EXCEPT !.status = x] \in States
  BY DEF States, Status
<1>2. [s EXCEPT !.behind = @ + 1] \in States
  BY DEF States
<1>3. s.behind > 0 => [s EXCEPT !.counted = TRUE, !.behind = @ - 1] \in States
  <2>1. s.behind > 0 => s.behind - 1 \in Nat
    BY DEF States
  <2>2. QED
    BY <2>1 DEF States
<1>4. /\ \A b \in BOOLEAN : [s EXCEPT !.done = b] \in States
      /\ \A x \in SUBSET (1..Targets) : [s EXCEPT !.satisfied = x] \in States
  BY DEF States
<1>5. /\ \A a, b \in BOOLEAN : [s EXCEPT !.complete = a, !.extended = b] \in States
      /\ \A a, b \in BOOLEAN : [s EXCEPT !.complete = a, !.guide = b] \in States
  BY DEF States
<1>6. Ended(s) \in States
  BY DEF States, Ended
<1>7. QED
  BY <1>1, <1>2, <1>3, <1>4, <1>5, <1>6

(* A state may be saved with another status.                               *)
LEMMA StatusGood ==
  ASSUME NEW s, Good(s), NEW x \in Status
  PROVE  Good([s EXCEPT !.status = x]) /\ Keeps(s, [s EXCEPT !.status = x])
<1> DEFINE t == [s EXCEPT !.status = x]
<1>1. s \in States /\ t \in States
  BY StatesKept DEF Good
<1>2. /\ t.asked = s.asked /\ t.stage = s.stage /\ t.used = s.used /\ t.done = s.done
      /\ t.extended = s.extended /\ t.complete = s.complete
  BY <1>1 DEF States
<1> HIDE DEF t
<1>3. Good(t) /\ Keeps(s, t)
  BY <1>1, <1>2, StaysGood DEF Ripe, Whole
<1>4. QED
  BY <1>3 DEF t

(* The end of an extension leaves the interview whole.                     *)
LEMMA EndedGood ==
  ASSUME NEW s, Good(s)
  PROVE  /\ Good(Ended(s)) /\ Ended(s).asked = s.asked
         /\ Whole(s) => Whole(Ended(s)) /\ Ripe(Ended(s))
<1> DEFINE t == Ended(s)
<1>1. s \in States /\ t \in States
  BY StatesKept DEF Good
<1>2. /\ t.asked = s.asked /\ t.stage = s.stage /\ t.used = s.used /\ t.done = s.done
  BY <1>1 DEF States, Ended
<1> HIDE DEF t
<1>3. Good(t)
  BY <1>1, <1>2 DEF Good, Placed
<1>4. Whole(s) => Whole(t)
  BY <1>2, <1>3 DEF Whole
<1>5. QED
  BY <1>2, <1>3, <1>4 DEF t, Ripe

(* An extension of a whole interview.                                      *)
LEMMA ExtensionGood ==
  ASSUME NEW s, Good(s), NEW old \in States
  PROVE  /\ Good(ExtensionStart(s, old)) /\ ExtensionStart(s, old).extended
         /\ Whole(s) => Whole(ExtensionStart(s, old)) /\ Ripe(ExtensionStart(s, old))
<1> DEFINE t == ExtensionStart(s, old)
<1>1. s \in States /\ NoAttempts \in [1..Targets -> Nat] /\ old.count + 1 \in Nat
  BY DEF Good, NoAttempts, States
<1>2. t \in States
  BY <1>1 DEF ExtensionStart, States
<1>3. /\ t.asked = s.asked /\ t.stage = s.stage /\ t.used = s.used /\ t.done = s.done
      /\ t.extended
  BY <1>1 DEF ExtensionStart, States
<1> HIDE DEF t
<1>4. Good(t)
  BY <1>2, <1>3 DEF Good, Placed
<1>5. Whole(s) => Whole(t)
  BY <1>3, <1>4 DEF Whole
<1>6. QED
  BY <1>3, <1>4, <1>5 DEF t, Ripe

(* The next target is one of them.                                         *)
LEMMA NextTargetIs ==
  ASSUME NEW s \in States, NextTarget(s) # None
  PROVE  NextTarget(s) \in 1..Targets
<1> DEFINE first(S) == CHOOSE i \in S : \A j \in S : i <= j
<1>1. ASSUME NEW S \in SUBSET Nat, S # {} PROVE first(S) \in S
  <2> DEFINE R == {ss \in Nat \X Nat : ss[1] < ss[2]}
  <2>1. IsWellFoundedOn(R, Nat)
    BY NatLessThanWellFounded, Zenon DEF OpToRel
  <2> HIDE DEF R
  <2>2. PICK i \in S : \A j \in S : ~(<<j, i>> \in R)
    BY <1>1, <2>1, WFMin, Zenon
  <2>3. \A j \in S : i <= j
    <3> TAKE j \in S
    <3>1. i \in Nat /\ j \in Nat /\ ~(<<j, i>> \in R)
      BY <2>2
    <3>2. ~(j < i)
      BY <3>1, Zenon DEF R
    <3>3. QED
      BY <3>1, <3>2
  <2>4. QED
    BY <2>3
<1> HIDE DEF first
<1>2. /\ Askable(s, 0) \in SUBSET (1..Targets) /\ Askable(s, 1) \in SUBSET (1..Targets)
      /\ 1..Targets \in SUBSET Nat
  BY DEF Askable
<1>3. \/ Askable(s, 0) # {} /\ NextTarget(s) = first(Askable(s, 0))
      \/ Askable(s, 1) # {} /\ NextTarget(s) = first(Askable(s, 1))
  BY DEF NextTarget, first
<1>4. QED
  BY <1>1, <1>2, <1>3

-----------------------------------------------------------------------------
(* The requests *)

(* A whole interview on disk stays whole.                                  *)
StaysWhole == overlaps' = 0 /\ Whole(saved) /\ Whole(prev) => Whole(saved') /\ Whole(prev')

(* What is on disk is good.                                                *)
LEMMA OnDiskGood ==
  ASSUME SessionInv, NEW s \in OnDisk
  PROVE  Good(s) /\ s \in States /\ (s = saved \/ s = prev)
BY DEF SessionInv, Checkpoints, OnDisk, Good

(* While there is one request, it alone is under way.                      *)
LEMMA OthersIdle ==
  ASSUME Single, overlaps = 0, NEW w \in Worker, work[w].pc # "idle"
  PROVE  \A v \in Worker \ {w} : work[v].pc = "idle"
BY DEF Single, Alone

(* The step of a request.                                                  *)
LEMMA RequestStep ==
  ASSUME SessionInv, Single, NEW w \in Worker, NEW r \in Works,
         work' = [work EXCEPT ![w] = r], OnItsWay(r),
         overlaps' \in Nat, failures' \in Nat, Checkpoints',
         overlaps' = 0 =>
           /\ \A v \in Worker \ {w} : work[v].pc = "idle"
           /\ Saved(saved', prev') /\ Kept(saved', prev', r)
           /\ r.pc = "idle" => prev' = saved'
  PROVE  SessionInv' /\ Single'
<1>1. /\ work' \in [Worker -> Works] /\ work'[w] = r
      /\ \A v \in Worker \ {w} : work'[v] = work[v]
  BY DEF SessionInv
<1>2. SessionInv'
  BY <1>1 DEF SessionInv
<1>3. ASSUME overlaps' = 0 PROVE Alone'
  <2>1. \A v \in Worker \ {w} : work'[v].pc = "idle"
    BY <1>1, <1>3
  <2>2. \A v \in Worker : Kept(saved', prev', work'[v])
    BY <1>1, <1>3, <2>1 DEF Kept, Nodes
  <2>3. \A u, v \in Worker : u = v \/ work'[u].pc = "idle" \/ work'[v].pc = "idle"
    BY <2>1
  <2>4. (\A v \in Worker : work'[v].pc = "idle") => prev' = saved'
    BY <1>1, <1>3
  <2>5. QED
    BY <1>3, <2>2, <2>3, <2>4 DEF Alone
<1>4. QED
  BY <1>2, <1>3 DEF Single

(* A request that was on its way goes on.                                  *)
LEMMA GoesOn ==
  ASSUME SessionInv, Single, NEW w \in Worker, work[w].pc # "idle", NEW r \in Works,
         work' = [work EXCEPT ![w] = r], OnItsWay(r),
         overlaps' = overlaps, failures' \in Nat, Checkpoints',
         Alone =>
           /\ Saved(saved', prev') /\ Kept(saved', prev', r)
           /\ r.pc = "idle" => prev' = saved'
  PROVE  SessionInv' /\ Single'
<1>1. overlaps' = 0 => Alone /\ \A v \in Worker \ {w} : work[v].pc = "idle"
  BY OthersIdle DEF Single
<1>2. overlaps' \in Nat
  BY DEF SessionInv
<1>3. QED
  BY <1>1, <1>2, RequestStep

(* A request comes.                                                        *)
LEMMA NewRequest ==
  ASSUME SessionInv, Single, NEW w \in Worker, NEW r \in Works, Comes(w, r),
         OnItsWay(r), r.pc # "idle", Checkpoints',
         Alone /\ prev = saved => Saved(saved', prev') /\ Kept(saved', prev', r)
  PROVE  SessionInv' /\ Single'
<1>1. /\ work' = [work EXCEPT ![w] = r] /\ failures' = failures
      /\ overlaps' \in Nat
      /\ overlaps' = 0 => overlaps = 0 /\ \A v \in Worker : work[v].pc = "idle"
  BY DEF Comes, At, SessionInv
<1>2. overlaps' = 0 => Alone /\ prev = saved
  BY <1>1 DEF Single, Alone
<1>3. failures' \in Nat
  BY <1>1 DEF SessionInv
<1>4. QED
  BY <1>1, <1>2, <1>3, RequestStep

(* An idle request is in order.                                            *)
LEMMA IdleIs ==
  /\ Idle \in Works /\ Idle.pc = "idle" /\ OnItsWay(Idle) /\ ~Idle.extend
  /\ \A s, p : Kept(s, p, Idle)
<1>1. Idle \in Works /\ Idle.pc = "idle" /\ ~Idle.extend
  BY InitialGood DEF Idle, Works, Kinds, Good
<1>2. QED
  BY <1>1 DEF OnItsWay, Kept, Nodes

(* What has been read stays as it was, and is not lost.                    *)
LEMMA ReadKeeps ==
  ASSUME SessionInv, NEW s, Read(s)
  PROVE  /\ Checkpoints' /\ StaysWhole /\ saved' = saved /\ Good(s)
         /\ prev' = saved \/ prev' = prev
         /\ Saved(saved, prev) => Saved(saved', prev')
         /\ Saved(saved, prev) /\ Whole(s) => Whole(saved') /\ Whole(prev')
<1>1. s \in OnDisk /\ saved' = saved /\ (prev' = saved \/ prev' = prev)
  BY DEF Read
<1>2. Good(s) /\ (s = saved \/ s = prev)
  BY <1>1, OnDiskGood
<1>3. s = saved => prev' = saved
  BY DEF Read
<1>4. s # saved => prev' = prev
  BY DEF Read
<1>5. QED
  BY <1>1, <1>2, <1>3, <1>4 DEF SessionInv, Checkpoints, StaysWhole, Saved

(* A session's own request begins.                                         *)
LEMMA Creates ==
  ASSUME SessionInv, Single, NEW w \in Worker, NEW stream \in BOOLEAN,
         CreateSession(w, stream)
  PROVE  SessionInv' /\ Single' /\ StaysWhole
<1> DEFINE r == [Idle EXCEPT !.pc = "begin", !.kind = "create", !.stream = stream]
           s == [InitialState EXCEPT !.status = "generating"]
<1>1. r \in Works /\ r.pc = "begin" /\ r.kind = "create" /\ ~r.extend
  BY IdleIs DEF Works, Kinds
<1>2. Good(s) /\ Ripe(s) /\ ~Whole(s)
  <2>1. /\ Good(s) /\ Keeps(InitialState, s)
    BY InitialGood, StatusGood DEF Status
  <2>2. s.stage = InitialState.stage /\ s.used = InitialState.used /\ s.done = InitialState.done
        /\ ~InitialState.extended /\ ~InitialState.complete /\ ~InitialState.done
    BY DEF InitialState
  <2> HIDE DEF s
  <2>3. QED
    BY <2>1, <2>2, InitialGood DEF Keeps, Ripe, Whole
<1> HIDE DEF s
<1>3. Comes(w, r) /\ saved = None
  BY DEF CreateSession
<1>4. (saved' = s /\ prev' = s) \/ (saved' = saved /\ prev' = prev)
  BY DEF CreateSession, Store, s
<1> HIDE DEF r
<1>5. Checkpoints' /\ StaysWhole
  BY <1>2, <1>3, <1>4, NoneIs DEF SessionInv, Checkpoints, StaysWhole
<1>6. OnItsWay(r) /\ r.pc # "idle"
  BY <1>1 DEF OnItsWay, Nodes
<1>7. prev = saved => Saved(saved', prev') /\ Kept(saved', prev', r)
  BY <1>1, <1>2, <1>3, <1>4, NoneIs DEF Saved, Kept, Nodes
<1>8. QED
  BY <1>1, <1>3, <1>5, <1>6, <1>7, NewRequest

(* A request reads the session, and saves nothing yet.                     *)
LEMMA Reads ==
  ASSUME SessionInv, Single, NEW w \in Worker, NEW s, Read(s), NEW r \in Works, Comes(w, r),
         \/ /\ r.pc \in {"mark", "begin"} /\ r.kind \in {"chat", "extend"}
            /\ r.kind = "extend" => r.extend
            /\ r.extend => MayExtend(s)
         \/ r.pc = "end" /\ s.extended
  PROVE  SessionInv' /\ Single' /\ StaysWhole
<1>1. Checkpoints' /\ StaysWhole /\ saved' = saved /\ Good(s)
  BY ReadKeeps
<1>2. OnItsWay(r) /\ r.pc # "idle"
  BY DEF OnItsWay, Nodes
<1>3. ASSUME Alone, prev = saved
      PROVE  Saved(saved', prev') /\ Kept(saved', prev', r)
  <2>1. Saved(saved, prev) /\ s = saved /\ prev' = saved
    BY <1>3 DEF Alone, Read, OnDisk
  <2>2. MayExtend(s) \/ s.extended => Whole(s)
    BY <1>1, <2>1 DEF Saved, Ripe, MayExtend, RegularComplete
  <2>3. QED
    BY <1>1, <2>1, <2>2 DEF Saved, Kept, Nodes
<1>4. QED
  BY <1>1, <1>2, <1>3, NewRequest

(* A chat, and an extension.                                               *)
LEMMA ChatOrExtend ==
  ASSUME SessionInv, Single, NEW w \in Worker, NEW stream \in BOOLEAN,
         NEW files \in BOOLEAN, Chat(w, stream, files) \/ Extend(w, stream)
  PROVE  SessionInv' /\ Single' /\ StaysWhole
<1> DEFINE pc == IF stream THEN "mark" ELSE "begin"
           e(s) == MayExtend(s) /\ ~s.extended
           c(s) == [Idle EXCEPT !.pc = pc, !.kind = "chat", !.stream = stream, !.files = files,
                                !.state = s, !.extend = e(s)]
           x(s) == [Idle EXCEPT !.pc = pc, !.kind = "extend", !.stream = stream,
                                !.state = s, !.extend = TRUE]
<1>1. Idle \in Works /\ pc \in {"mark", "begin"} /\ \A s : e(s) \in BOOLEAN
  BY IdleIs
<1>2. CASE Chat(w, stream, files)
  <2>1. PICK s \in OnDisk : Read(s) /\ Comes(w, c(s))
    BY <1>2 DEF Chat
  <2>2. s \in States
    BY <2>1, OnDiskGood
  <2>3. e(s) \in BOOLEAN /\ (e(s) => MayExtend(s))
    OBVIOUS
  <2> HIDE DEF pc, e
  <2>4. /\ c(s) \in Works /\ c(s).pc = pc /\ c(s).kind = "chat" /\ c(s).extend = e(s)
    BY <1>1, <2>2, <2>3 DEF Works, Kinds
  <2> HIDE DEF c
  <2>5. QED
    BY <1>1, <2>1, <2>3, <2>4, Reads
<1>3. CASE Extend(w, stream)
  <2>1. PICK s \in OnDisk : Read(s) /\ MayExtend(s) /\ Comes(w, x(s))
    BY <1>3 DEF Extend
  <2>2. s \in States
    BY <2>1, OnDiskGood
  <2> HIDE DEF pc
  <2>4. /\ x(s) \in Works /\ x(s).pc = pc /\ x(s).kind = "extend" /\ x(s).extend
    BY <1>1, <2>2 DEF Works, Kinds
  <2> HIDE DEF x
  <2>5. QED
    BY <1>1, <2>1, <2>4, Reads
<1>4. QED
  BY <1>2, <1>3

(* The user asks to end the extension.                                     *)
LEMMA Asks ==
  ASSUME SessionInv, Single, NEW w \in Worker, AskToEnd(w)
  PROVE  SessionInv' /\ Single' /\ StaysWhole
<1> DEFINE r == [Idle EXCEPT !.pc = "end", !.kind = "end"]
<1>1. r \in Works /\ r.pc = "end"
  BY IdleIs DEF Works, Kinds
<1>2. PICK s \in OnDisk : Read(s) /\ s.extended /\ Comes(w, r)
  BY DEF AskToEnd
<1> HIDE DEF r
<1>3. QED
  BY <1>1, <1>2, Reads

(* What is written at once is good.                                        *)
LEMMA StoreGood ==
  ASSUME NEW s, Good(s), Store(s)
  PROVE  /\ Checkpoints' /\ saved' = s /\ prev' = s
         /\ Ripe(s) => Saved(saved', prev')
         /\ Whole(s) => StaysWhole
BY DEF Store, Checkpoints, Saved, StaysWhole

(* It ends.                                                                *)
LEMMA Ends ==
  ASSUME SessionInv, Single, NEW w \in Worker, EndExtension(w)
  PROVE  SessionInv' /\ Single' /\ StaysWhole
<1>1. PICK s \in OnDisk : Store(Ended(s))
  BY DEF EndExtension
<1>2. Good(s) /\ (s = saved \/ s = prev)
  BY OnDiskGood
<1>3. /\ Good(Ended(s)) /\ (Whole(s) => Whole(Ended(s)) /\ Ripe(Ended(s)))
      /\ Checkpoints' /\ saved' = Ended(s) /\ prev' = Ended(s)
  BY <1>1, <1>2, EndedGood, StoreGood
<1>4. /\ work[w].pc = "end" /\ work' = [work EXCEPT ![w] = Idle]
      /\ overlaps' = overlaps /\ failures' \in Nat
  BY DEF EndExtension, At, SessionInv
<1>5. Alone => Saved(saved', prev')
  <2>1. ASSUME Alone PROVE Whole(s)
    BY <1>2, <1>4, <2>1 DEF Alone, Kept, Nodes
  <2>2. QED
    BY <1>3, <2>1 DEF Saved
<1>6. StaysWhole
  BY <1>2, <1>3 DEF StaysWhole
<1>7. QED
  BY <1>3, <1>4, <1>5, <1>6, IdleIs, GoesOn

(* The session is marked as being answered.                                *)
LEMMA Marks ==
  ASSUME SessionInv, Single, NEW w \in Worker, MarkGenerating(w)
  PROVE  SessionInv' /\ Single' /\ StaysWhole
<1> DEFINE t(s) == [s EXCEPT !.status = "generating"]
           r == [work[w] EXCEPT !.pc = "begin"]
<1>1. PICK s \in OnDisk : Store(t(s))
  BY DEF MarkGenerating
<1>2. Good(s) /\ (s = saved \/ s = prev)
  BY OnDiskGood
<1>3. Good(t(s)) /\ Keeps(s, t(s))
  BY <1>2, StatusGood DEF Status
<1> HIDE DEF t
<1>4. Checkpoints' /\ saved' = t(s) /\ prev' = t(s)
  BY <1>1, <1>3, StoreGood
<1>5. /\ work[w] \in Works /\ work[w].pc = "mark" /\ OnItsWay(work[w])
      /\ overlaps' = overlaps /\ failures' \in Nat
  BY DEF MarkGenerating, At, SessionInv
<1>6. work' = [work EXCEPT ![w] = r]
  BY DEF MarkGenerating, Go
<1>7. /\ r \in Works /\ r.pc = "begin" /\ r.kind = work[w].kind /\ r.extend = work[w].extend
  BY <1>5 DEF Works
<1> HIDE DEF r
<1>8. OnItsWay(r) /\ r.kind # "create"
  BY <1>5, <1>7 DEF OnItsWay, Nodes
<1>9. ASSUME Alone PROVE Saved(saved', prev') /\ Kept(saved', prev', r)
  <2>1. Saved(saved, prev) /\ prev = saved /\ (work[w].extend => Whole(saved))
    BY <1>5, <1>9 DEF Alone, Kept, Nodes
  <2>2. QED
    BY <1>2, <1>3, <1>4, <1>7, <1>8, <2>1 DEF Saved, Kept, Keeps, Nodes
<1>10. StaysWhole
  BY <1>2, <1>3, <1>4 DEF StaysWhole, Keeps
<1>11. QED
  BY <1>4, <1>5, <1>6, <1>7, <1>8, <1>9, <1>10, GoesOn

-----------------------------------------------------------------------------
(* The nodes *)

(* A node's step from a good copy to a good one.                           *)
LEMMA NodeRuns ==
  ASSUME SessionInv, Single, NEW w \in Worker, NEW t, NEW next \in Nodes,
         work[w].pc # "idle", Good(t), Expected(next, t),
         Alone => Ripe(t) /\ (Whole(saved) => Whole(t)),
         Step(w, next, t) \/ (next = "finish" /\ Say(w, t))
  PROVE  SessionInv' /\ Single' /\ StaysWhole
<1>1. saved' = t /\ prev' = saved /\ failures' = failures /\ overlaps' = overlaps
  BY DEF Step, Say
<1>2. work[w] \in Works /\ t \in States /\ failures' \in Nat
  BY <1>1 DEF SessionInv, Good
<1>3. Checkpoints'
  BY <1>1 DEF SessionInv, Checkpoints
<1>4. PICK r \in Works : /\ work' = [work EXCEPT ![w] = r] /\ r.pc = next /\ r.state = t
  <2>1. CASE Step(w, next, t)
    <3> DEFINE r == [work[w] EXCEPT !.pc = next, !.state = t]
    <3>1. r \in Works /\ r.pc = next /\ r.state = t
      BY <1>2 DEF Works
    <3>2. work' = [work EXCEPT ![w] = r]
      BY <2>1 DEF Step, SessionInv
    <3> HIDE DEF r
    <3>3. QED
      BY <3>1, <3>2
  <2>2. CASE next = "finish" /\ Say(w, t)
    <3> DEFINE r == [work[w] EXCEPT !.pc = next, !.state = t, !.spoke = TRUE]
    <3>1. r \in Works /\ r.pc = next /\ r.state = t
      BY <1>2 DEF Works
    <3>2. work' = [work EXCEPT ![w] = r]
      BY <2>2 DEF Say, SessionInv
    <3> HIDE DEF r
    <3>3. QED
      BY <3>1, <3>2
  <2>3. QED
    BY <2>1, <2>2
<1>5. OnItsWay(r) /\ r.pc # "idle"
  BY <1>4 DEF OnItsWay, Nodes
<1>6. ASSUME Alone PROVE Saved(saved', prev') /\ Kept(saved', prev', r)
  <2>1. Saved(saved, prev) /\ Ripe(t) /\ (Whole(saved) => Whole(t))
    BY <1>6 DEF Alone
  <2>2. QED
    BY <1>1, <1>4, <2>1 DEF Saved, Kept, Nodes
<1>7. StaysWhole
  BY <1>1 DEF StaysWhole, Single
<1>8. QED
  BY <1>1, <1>2, <1>3, <1>4, <1>5, <1>6, <1>7, GoesOn

(* A node's step that keeps its copy ripe and whole.                       *)
LEMMA NodeKeeps ==
  ASSUME SessionInv, Single, NEW w \in Worker, NEW t, NEW next \in Nodes,
         work[w].pc \in Nodes, Good(t), Expected(next, t), Keeps(work[w].state, t),
         Step(w, next, t) \/ (next = "finish" /\ Say(w, t))
  PROVE  SessionInv' /\ Single' /\ StaysWhole
<1>1. Alone => Ripe(t) /\ (Whole(saved) => Whole(t))
  BY DEF Alone, Kept, Keeps
<1>2. work[w].pc # "idle"
  BY DEF Nodes
<1>3. QED
  BY <1>1, <1>2, NodeRuns

(* What a node works on.                                                   *)
LEMMA AtNode ==
  ASSUME SessionInv, NEW w \in Worker, work[w].pc \in Nodes
  PROVE  /\ Good(work[w].state) /\ work[w].state \in States
         /\ Expected(work[w].pc, work[w].state) /\ FixedTotal[work[w].state.stage] \in Nat
<1>1. /\ Good(work[w].state) /\ work[w].state \in States
      /\ Expected(work[w].pc, work[w].state)
  BY DEF SessionInv, OnItsWay, Good
<1>2. work[w].state.stage \in 1..4
  BY <1>1 DEF States
<1>3. QED
  BY <1>1, <1>2, StageIsSeq

(* The message comes in.                                                   *)
LEMMA BehindGood ==
  ASSUME NEW s, Good(s)
  PROVE  /\ Good([s EXCEPT !.behind = @ + 1]) /\ [s EXCEPT !.behind = @ + 1].behind > 0
         /\ Keeps(s, [s EXCEPT !.behind = @ + 1])
<1> DEFINE t == [s EXCEPT !.behind = @ + 1]
<1>1. s \in States /\ t \in States
  BY StatesKept DEF Good
<1>2. /\ t.asked = s.asked /\ t.stage = s.stage /\ t.used = s.used /\ t.done = s.done
      /\ t.extended = s.extended /\ t.complete = s.complete /\ t.behind > 0
  BY <1>1 DEF States
<1> HIDE DEF t
<1>3. Good(t) /\ Keeps(s, t)
  BY <1>1, <1>2, StaysGood DEF Ripe, Whole
<1>4. QED
  BY <1>2, <1>3 DEF t

(* The graph of the session's own request starts.                          *)
LEMMA BeginsAnew ==
  ASSUME SessionInv, Single, NEW w \in Worker, At(w, "begin"), work[w].kind = "create",
         NEW n \in Unread, Step(w, "router", [InitialState EXCEPT !.behind = n])
  PROVE  SessionInv' /\ Single' /\ StaysWhole
<1> DEFINE t == [InitialState EXCEPT !.behind = n]
<1>1. n \in Nat
  BY LimitAssumption DEF Unread
<1>2. /\ t \in States /\ t.asked = InitialState.asked /\ t.stage = InitialState.stage
      /\ t.used = InitialState.used /\ ~t.extended /\ ~t.complete /\ t.done = InitialState.done
  <2>1. InitialState \in States
    BY InitialGood DEF Good
  <2>2. t \in States
    BY <1>1, <2>1 DEF States
  <2>3. QED
    BY <2>2 DEF InitialState
<1> HIDE DEF t
<1>3. Good(t) /\ Ripe(t) /\ Fresh(t)
  BY <1>2, InitialGood DEF Good, Placed, Ripe, Fresh
<1>4. Expected("router", t)
  BY <1>3 DEF Expected
<1>5. Alone => ~Whole(saved)
  BY DEF Alone, Kept, At
<1>6. QED
  BY <1>3, <1>4, <1>5, NodeRuns DEF t, At, Nodes

(* The graph starts with what is on disk.                                  *)
LEMMA BeginsAgain ==
  ASSUME SessionInv, Single, NEW w \in Worker, At(w, "begin"), NEW s \in OnDisk, NEW t,
         work[w].kind \in {"chat", "extend"},
         LET new == IF work[w].extend THEN ExtensionStart(s, work[w].state) ELSE s
         IN  t = IF work[w].kind = "chat" THEN [new EXCEPT !.behind = @ + 1] ELSE new,
         Step(w, "router", t)
  PROVE  SessionInv' /\ Single' /\ StaysWhole
<1> DEFINE r == work[w]
           new == IF r.extend THEN ExtensionStart(s, r.state) ELSE s
<1>1. /\ r.state \in States /\ (r.kind = "extend" => r.extend)
  BY DEF SessionInv, OnItsWay, At, Works
<1>2. Good(s) /\ (s = saved \/ s = prev)
  BY OnDiskGood
<1>3. /\ Good(new) /\ (r.extend => new.extended)
      /\ Whole(s) => Whole(new)
      /\ Ripe(s) /\ (r.extend => Whole(s)) => Ripe(new)
  BY <1>1, <1>2, ExtensionGood
<1>4. t = IF r.kind = "chat" THEN [new EXCEPT !.behind = @ + 1] ELSE new
  OBVIOUS
<1> HIDE DEF new
<1>5. Good(t) /\ Keeps(new, t) /\ Expected("router", t)
  <2>1. CASE r.kind = "chat"
    <3>1. t = [new EXCEPT !.behind = @ + 1]
      BY <1>4, <2>1
    <3>2. Good(t) /\ t.behind > 0 /\ Keeps(new, t)
      BY <1>3, <3>1, BehindGood
    <3>3. t.behind # 0
      BY <3>2
    <3>4. QED
      BY <3>2, <3>3 DEF Expected
  <2>2. CASE r.kind = "extend"
    BY <1>1, <1>3, <1>4, <2>2 DEF Expected, Keeps
  <2>3. QED
    BY <2>1, <2>2
<1>6. ASSUME Alone PROVE Ripe(t) /\ (Whole(saved) => Whole(t))
  <2>1. Saved(saved, prev) /\ prev = saved /\ (r.extend => Whole(saved))
    BY <1>6 DEF Alone, Kept, At, Nodes
  <2>2. QED
    BY <1>2, <1>3, <1>5, <2>1 DEF Saved, Keeps
<1>7. QED
  BY <1>5, <1>6, NodeRuns DEF At, Nodes

(* The graph starts.                                                       *)
LEMMA Begins ==
  ASSUME SessionInv, Single, NEW w \in Worker, Begin(w)
  PROVE  SessionInv' /\ Single' /\ StaysWhole
<1> DEFINE r == work[w]
           input(s) == IF r.extend THEN ExtensionStart(s, r.state) ELSE s
<1>1. CASE r.kind = "create"
  BY <1>1, BeginsAnew DEF Begin
<1>2. CASE r.kind = "chat"
  <2>1. PICK s \in OnDisk : Step(w, "router", [input(s) EXCEPT !.behind = @ + 1])
    BY <1>2 DEF Begin
  <2>2. QED
    BY <1>2, <2>1, BeginsAgain DEF Begin
<1>3. CASE r.kind = "extend"
  <2>1. PICK s \in OnDisk : Step(w, "router", input(s))
    BY <1>3 DEF Begin
  <2>2. QED
    BY <1>3, <2>1, BeginsAgain DEF Begin
<1>4. QED
  BY <1>1, <1>2, <1>3 DEF Begin

(* The router.                                                             *)
LEMMA Routes ==
  ASSUME SessionInv, Single, NEW w \in Worker, Router(w)
  PROVE  SessionInv' /\ Single' /\ StaysWhole
<1> DEFINE s == work[w].state
           t == IF s.behind > 0 THEN [s EXCEPT !.counted = TRUE, !.behind = @ - 1] ELSE s
<1>1. /\ Good(s) /\ s \in States /\ work[w].pc \in Nodes
      /\ s.extended \/ s.counted \/ s.behind # 0 \/ Fresh(s)
  BY AtNode DEF Router, At, Nodes, Expected
<1>2. CASE (~s.counted /\ s.behind = 0) \/ (s.extended /\ s.behind = 0)
  <2>1. Step(w, "question_generator", s)
    BY <1>2 DEF Router
  <2>2. Expected("question_generator", s) /\ Keeps(s, s)
    BY <1>1, <1>2 DEF Expected, Keeps
  <2>3. QED
    BY <1>1, <2>1, <2>2, NodeKeeps DEF Nodes
<1>3. CASE ~((~s.counted /\ s.behind = 0) \/ (s.extended /\ s.behind = 0))
  <2>1. PICK next \in {"file_processor", "retriever"} : Step(w, next, t)
    BY <1>3 DEF Router
  <2>2. s.behind \in Nat /\ t \in States
    <3>1. s.behind \in Nat
      BY <1>1 DEF States
    <3>2. QED
      BY <1>1, <3>1, StatesKept
  <2>3. /\ t.asked = s.asked /\ t.stage = s.stage /\ t.used = s.used /\ t.done = s.done
        /\ t.extended = s.extended /\ t.complete = s.complete /\ t.counted
    BY <1>1, <1>3, <2>2 DEF States
  <2> HIDE DEF t
  <2>4. Good(t) /\ Expected(next, t) /\ Keeps(s, t)
    BY <1>1, <2>2, <2>3, StaysGood DEF Ripe, Whole, Expected
  <2>5. QED
    BY <1>1, <2>1, <2>4, NodeKeeps DEF Nodes
<1>4. QED
  BY <1>2, <1>3

(* Files and search change nothing.                                        *)
LEMMA Prepares ==
  ASSUME SessionInv, Single, NEW w \in Worker, FileProcessor(w) \/ Retriever(w)
  PROVE  SessionInv' /\ Single' /\ StaysWhole
<1> DEFINE s == work[w].state
<1>1. work[w].pc \in {"file_processor", "retriever"}
  BY DEF FileProcessor, Retriever, At
<1>2. Good(s) /\ Expected(work[w].pc, s) /\ work[w].pc \in Nodes
  BY <1>1, AtNode DEF Nodes
<1>3. PICK next \in {"retriever", "analyst"} : Step(w, next, s)
  BY DEF FileProcessor, Retriever
<1>4. Expected(next, s) /\ Keeps(s, s)
  BY <1>1, <1>2 DEF Expected, Keeps
<1>5. QED
  BY <1>2, <1>3, <1>4, NodeKeeps DEF Nodes

(* The analyst, before the extensions.                                     *)
LEMMA Analyses ==
  ASSUME SessionInv, Single, NEW w \in Worker, RegularAnalyst(w)
  PROVE  SessionInv' /\ Single' /\ StaysWhole
<1> DEFINE s == work[w].state
           over == [s EXCEPT !.done = TRUE]
           under == [s EXCEPT !.done = FALSE]
           up == [s EXCEPT !.stage = @ + 1, !.used = 0, !.done = FALSE]
           last == [over EXCEPT !.complete = TRUE]
<1>1. /\ Good(s) /\ s \in States /\ s.counted /\ ~s.extended /\ work[w].pc \in Nodes
      /\ s.used \in Nat /\ s.stage \in 1..4 /\ FixedTotal[s.stage] \in Nat
      /\ s.used <= FixedTotal[s.stage]
  <2>1. work[w].pc = "analyst" /\ ~s.extended /\ work[w].pc \in Nodes
    BY DEF RegularAnalyst, At, Nodes
  <2>2. Good(s) /\ s \in States /\ s.counted /\ FixedTotal[s.stage] \in Nat
    BY <2>1, AtNode DEF Nodes, Expected
  <2>3. QED
    BY <2>1, <2>2 DEF States, Good, Placed
<1>2. CASE ~StageComplete(s) /\ Step(w, "question_generator", under)
  <2>1. /\ under \in States /\ under.asked = s.asked /\ under.stage = s.stage
        /\ under.used = s.used /\ under.counted = s.counted
        /\ under.extended = s.extended /\ under.complete = s.complete
    BY <1>1 DEF States
  <2>2. ~Whole(s) /\ s.used < FixedTotal[s.stage]
    <3>1. ~(s.used >= FixedTotal[s.stage])
      BY <1>2 DEF StageComplete
    <3>2. s.used < FixedTotal[s.stage]
      BY <1>1, <3>1
    <3>3. QED
      BY <1>1, <3>2 DEF Whole
  <2> HIDE DEF under
  <2>3. Good(under) /\ Keeps(s, under)
    BY <1>1, <2>1, <2>2, StaysGood DEF Ripe
  <2>4. Expected("question_generator", under)
    BY <1>1, <2>1, <2>2 DEF Expected
  <2>5. QED
    BY <1>1, <1>2, <2>3, <2>4, NodeKeeps DEF Nodes
<1>3. CASE StageComplete(s) /\ s.stage < 4 /\ Step(w, "question_generator", up)
  <2>1. s.stage \in 1..3 /\ s.used = FixedTotal[s.stage]
    BY <1>1, <1>3 DEF StageComplete
  <2>2. /\ s.stage + 1 \in 1..4 /\ 0 < FixedTotal[s.stage + 1]
        /\ Before(s.stage + 1) = Before(s.stage) + s.used
        /\ Before(s.stage + 1) \in Nat /\ FixedTotal[s.stage + 1] \in Nat
    <3>1. s.stage + 1 \in 1..4 /\ s.stage \in 1..4
      BY <2>1
    <3>2. Before(s.stage + 1) = Before(s.stage) + s.used /\ 0 < FixedTotal[s.stage + 1]
      BY <2>1, NextStage
    <3>3. Before(s.stage + 1) \in Nat /\ FixedTotal[s.stage + 1] \in Nat
      BY <3>1, ScriptIs, StageIsSeq
    <3>4. QED
      BY <3>1, <3>2, <3>3
  <2>3. /\ up \in States /\ up.asked = s.asked /\ up.stage = s.stage + 1 /\ up.used = 0
        /\ up.counted = s.counted /\ up.extended = s.extended
        /\ up.complete = s.complete
    BY <1>1, <2>2 DEF States
  <2>4. ~Whole(s)
    BY <2>1 DEF Whole
  <2> HIDE DEF up
  <2>5. Placed(up)
    <3>1. Before(s.stage + 1) + 0 = Before(s.stage) + s.used
      BY <2>2
    <3>2. up.asked = SubSeq(Script, 1, Before(s.stage) + s.used)
      BY <1>1, <2>3 DEF Good, Placed
    <3>3. up.asked = SubSeq(Script, 1, Before(up.stage) + up.used)
      BY <2>3, <3>1, <3>2, Zenon
    <3>4. QED
      BY <2>2, <2>3, <3>3 DEF Placed
  <2>6. Good(up) /\ Expected("question_generator", up)
    BY <1>1, <2>2, <2>3, <2>5 DEF Good, Expected
  <2>7. Keeps(s, up)
    BY <1>1, <2>3, <2>4, <2>6 DEF Keeps, Ripe
  <2>8. QED
    BY <1>1, <1>3, <2>6, <2>7, NodeKeeps DEF Nodes
<1>4. ASSUME StageComplete(s), s.stage = 4
      PROVE  Good(over) /\ Whole(over) /\ Good(last) /\ Whole(last)
  <2>1. s.used = FixedTotal[4]
    BY <1>1, <1>4 DEF StageComplete
  <2>2. /\ over \in States /\ over.asked = s.asked /\ over.stage = s.stage
        /\ over.used = s.used /\ over.done
    BY <1>1 DEF States
  <2> HIDE DEF over
  <2>3. /\ last \in States /\ last.asked = s.asked /\ last.stage = s.stage
        /\ last.used = s.used /\ last.done
    BY <2>2 DEF States
  <2> HIDE DEF last
  <2>4. Placed(over) /\ Placed(last)
    BY <1>1, <2>2, <2>3 DEF Good, Placed
  <2>5. QED
    BY <1>4, <2>1, <2>2, <2>3, <2>4 DEF Good, Whole
<1>5. CASE StageComplete(s) /\ s.stage = 4 /\ Step(w, "question_generator", ExtensionStart(over, s))
  <2>1. Good(over) /\ Whole(over)
    BY <1>4, <1>5
  <2> HIDE DEF over
  <2>2. /\ Good(ExtensionStart(over, s)) /\ ExtensionStart(over, s).extended
        /\ Whole(ExtensionStart(over, s)) /\ Ripe(ExtensionStart(over, s))
    BY <1>1, <2>1, ExtensionGood
  <2>3. /\ Expected("question_generator", ExtensionStart(over, s))
        /\ Keeps(s, ExtensionStart(over, s))
    BY <2>2 DEF Expected, Keeps
  <2>4. QED
    BY <1>1, <1>5, <2>2, <2>3, NodeKeeps DEF Nodes
<1>6. CASE StageComplete(s) /\ s.stage = 4 /\ Step(w, "finish", last)
  <2>1. Good(last) /\ Whole(last)
    BY <1>4, <1>6
  <2> HIDE DEF last
  <2>2. Expected("finish", last) /\ Keeps(s, last)
    BY <2>1 DEF Expected, Keeps, Ripe
  <2>3. QED
    BY <1>1, <1>6, <2>1, <2>2, NodeKeeps DEF Nodes
<1>7. QED
  BY <1>2, <1>3, <1>5, <1>6 DEF RegularAnalyst

(* A target is satisfied.                                                  *)
Heard(s, x) == [s EXCEPT !.satisfied = x]

(* What is said in an extension, and whether it goes on, leaves the        *)
(* questions alone.                                                        *)
LEMMA ExtendedGood ==
  ASSUME NEW s, Good(s), s.extended, NEW a \in BOOLEAN, NEW b \in BOOLEAN
  PROVE  /\ \A x \in SUBSET (1..Targets) :
              Good(Heard(s, x)) /\ Heard(s, x).extended /\ Keeps(s, Heard(s, x))
         /\ LET t == [s EXCEPT !.complete = a] IN Good(t) /\ t.extended /\ Keeps(s, t)
         /\ LET t == [s EXCEPT !.complete = a, !.guide = b]
            IN  Good(t) /\ t.extended /\ Keeps(s, t)
         /\ LET t == [s EXCEPT !.complete = a, !.extended = b] IN Good(t) /\ Keeps(s, t)
         /\ LET t == [s EXCEPT !.extended = b, !.complete = a] IN Good(t) /\ Keeps(s, t)
<1>1. s \in States
  BY DEF Good
<1>2. ASSUME NEW t \in States, t.asked = s.asked, t.stage = s.stage, t.used = s.used,
             t.done = s.done
      PROVE  Good(t) /\ Keeps(s, t)
  <2>1. Ripe(s) => Whole(s)
    BY DEF Ripe
  <2>2. Whole(s) => t.done
    BY <1>2 DEF Whole
  <2>3. QED
    BY <1>2, <2>1, <2>2, StaysGood
<1>3. ASSUME NEW x \in SUBSET (1..Targets)
      PROVE  Good(Heard(s, x)) /\ Heard(s, x).extended /\ Keeps(s, Heard(s, x))
  <2>1. Heard(s, x) \in States
    BY <1>1, StatesKept DEF Heard
  <2>2. /\ Heard(s, x).asked = s.asked /\ Heard(s, x).stage = s.stage
        /\ Heard(s, x).used = s.used /\ Heard(s, x).done = s.done /\ Heard(s, x).extended
    BY <1>1 DEF Heard, States
  <2>3. QED
    BY <1>2, <2>1, <2>2
<1>4. LET t == [s EXCEPT !.complete = a] IN Good(t) /\ t.extended /\ Keeps(s, t)
  <2> DEFINE t == [s EXCEPT !.complete = a]
  <2>1. /\ t \in States /\ t.asked = s.asked /\ t.stage = s.stage /\ t.used = s.used
        /\ t.done = s.done /\ t.extended
    BY <1>1 DEF States
  <2> HIDE DEF t
  <2>2. Good(t) /\ t.extended /\ Keeps(s, t)
    BY <1>2, <2>1
  <2>3. QED
    BY <2>2 DEF t
<1>5. LET t == [s EXCEPT !.complete = a, !.guide = b]
      IN  Good(t) /\ t.extended /\ Keeps(s, t)
  <2> DEFINE t == [s EXCEPT !.complete = a, !.guide = b]
  <2>1. /\ t \in States /\ t.asked = s.asked /\ t.stage = s.stage /\ t.used = s.used
        /\ t.done = s.done /\ t.extended
    BY <1>1 DEF States
  <2> HIDE DEF t
  <2>2. Good(t) /\ t.extended /\ Keeps(s, t)
    BY <1>2, <2>1
  <2>3. QED
    BY <2>2 DEF t
<1>6. LET t == [s EXCEPT !.complete = a, !.extended = b] IN Good(t) /\ Keeps(s, t)
  <2> DEFINE t == [s EXCEPT !.complete = a, !.extended = b]
  <2>1. /\ t \in States /\ t.asked = s.asked /\ t.stage = s.stage /\ t.used = s.used
        /\ t.done = s.done
    BY <1>1 DEF States
  <2> HIDE DEF t
  <2>2. Good(t) /\ Keeps(s, t)
    BY <1>2, <2>1
  <2>3. QED
    BY <2>2 DEF t
<1>7. LET t == [s EXCEPT !.extended = b, !.complete = a] IN Good(t) /\ Keeps(s, t)
  <2> DEFINE t == [s EXCEPT !.extended = b, !.complete = a]
  <2>1. /\ t \in States /\ t.asked = s.asked /\ t.stage = s.stage /\ t.used = s.used
        /\ t.done = s.done
    BY <1>1 DEF States
  <2> HIDE DEF t
  <2>2. Good(t) /\ Keeps(s, t)
    BY <1>2, <2>1
  <2>3. QED
    BY <2>2 DEF t
<1>8. QED
  BY <1>3, <1>4, <1>5, <1>6, <1>7

(* The analyst, in an extension.                                           *)
LEMMA AnalysesExtended ==
  ASSUME SessionInv, Single, NEW w \in Worker, ExtendedAnalyst(w)
  PROVE  SessionInv' /\ Single' /\ StaysWhole
<1> DEFINE old == work[w].state
<1>1. Good(old) /\ old \in States /\ old.extended /\ work[w].pc \in Nodes
  BY AtNode DEF ExtendedAnalyst, At, Nodes
<1>2. PICK enough \in BOOLEAN :
        LET s == IF enough /\ old.last # None
                 THEN [old EXCEPT !.satisfied = @ \cup {old.last}] ELSE old
        IN \/ Step(w, "question_generator", [s EXCEPT !.complete = FALSE, !.guide = TRUE])
           \/ Step(w, "finish", [s EXCEPT !.complete = TRUE, !.extended = FALSE])
           \/ Step(w, "question_generator", [s EXCEPT !.complete = FALSE])
  BY DEF ExtendedAnalyst
<1> DEFINE s == IF enough /\ old.last # None
                THEN [old EXCEPT !.satisfied = @ \cup {old.last}] ELSE old
<1>3. Good(s) /\ s.extended /\ Keeps(old, s)
  <2>1. CASE enough /\ old.last # None
    <3>1. old.satisfied \cup {old.last} \in SUBSET (1..Targets)
      BY <1>1, <2>1 DEF States
    <3>2. s = Heard(old, old.satisfied \cup {old.last})
      BY <2>1 DEF Heard
    <3> HIDE DEF s
    <3>3. QED
      BY <1>1, <3>1, <3>2, ExtendedGood
  <2>2. CASE ~(enough /\ old.last # None)
    BY <1>1, <2>2 DEF Keeps
  <2>3. QED
    BY <2>1, <2>2
<1>4. \/ Step(w, "question_generator", [s EXCEPT !.complete = FALSE, !.guide = TRUE])
      \/ Step(w, "finish", [s EXCEPT !.complete = TRUE, !.extended = FALSE])
      \/ Step(w, "question_generator", [s EXCEPT !.complete = FALSE])
  BY <1>2
<1> HIDE DEF s
<1> DEFINE guided == [s EXCEPT !.complete = FALSE, !.guide = TRUE]
           over == [s EXCEPT !.complete = TRUE, !.extended = FALSE]
           on == [s EXCEPT !.complete = FALSE]
<1>5. /\ Good(guided) /\ guided.extended /\ Good(over) /\ Good(on) /\ on.extended
      /\ Keeps(s, guided) /\ Keeps(s, over) /\ Keeps(s, on)
  BY <1>3, ExtendedGood
<1> HIDE DEF guided, over, on
<1>6. /\ Expected("question_generator", guided) /\ Expected("finish", over)
      /\ Expected("question_generator", on)
  BY <1>5 DEF Expected
<1>7. \/ Step(w, "question_generator", guided) \/ Step(w, "finish", over)
      \/ Step(w, "question_generator", on)
  BY <1>4 DEF guided, over, on
<1>8. Keeps(old, guided) /\ Keeps(old, over) /\ Keeps(old, on)
  BY <1>3, <1>5 DEF Keeps
<1>9. QED
  BY <1>1, <1>5, <1>6, <1>7, <1>8, NodeKeeps DEF Nodes

(* The next fixed question.                                                *)
LEMMA AsksFixed ==
  ASSUME SessionInv, Single, NEW w \in Worker, FixedQuestion(w)
  PROVE  SessionInv' /\ Single' /\ StaysWhole
<1> DEFINE s == work[w].state
           q == <<s.stage, s.used + 1>>
           t == [s EXCEPT !.used = @ + 1, !.asked = Append(@, q)]
<1>1. /\ Good(s) /\ s \in States /\ ~s.extended /\ work[w].pc \in Nodes
      /\ IF s.counted THEN s.used < FixedTotal[s.stage] ELSE Fresh(s)
  BY AtNode DEF FixedQuestion, At, Nodes, Expected
<1>2. s.used < FixedTotal[s.stage] /\ s.used \in Nat /\ FixedTotal[s.stage] \in Nat
  <2>1. s.stage \in 1..4 /\ s.used \in Nat
    BY <1>1 DEF States
  <2>2. FixedTotal[s.stage] \in Nat /\ FixedTotal[s.stage] > 0
    BY <2>1, StageIsSeq
  <2>3. QED
    BY <1>1, <2>1, <2>2 DEF Fresh
<1>3. Say(w, t)
  <2>1. CASE ~s.counted /\ Say(w, [s EXCEPT !.used = 1, !.asked = Append(@, <<s.stage, 1>>)])
    <3>1. s.used + 1 = 1
      BY <1>1, <2>1 DEF Fresh
    <3>2. QED
      BY <2>1, <3>1
  <2>2. CASE s.counted /\ Say(w, t)
    BY <2>2
  <2>3. ~(s.used >= FixedTotal[s.stage])
    BY <1>2
  <2>4. QED
    BY <2>1, <2>2, <2>3 DEF FixedQuestion
<1>4. /\ q \in Question
      /\ Append(s.asked, q) = SubSeq(Script, 1, Before(s.stage) + (s.used + 1))
  BY <1>1, <1>2, NextQuestion DEF Good
<1>5. Append(s.asked, q) \in Asked
  BY <1>1, <1>4 DEF States, Asked
<1>6. /\ t \in States /\ t.asked = Append(s.asked, q) /\ t.stage = s.stage
      /\ t.used = s.used + 1 /\ t.extended = s.extended /\ t.complete = s.complete
  <2>1. s.used + 1 \in Nat
    BY <1>2
  <2> HIDE DEF q
  <2>2. QED
    BY <1>1, <1>5, <2>1 DEF States
<1>7. ~Whole(s)
  BY <1>2 DEF Whole
<1> HIDE DEF t, q
<1>8. Good(t)
  <2>1. t.used <= FixedTotal[t.stage]
    BY <1>2, <1>6
  <2>2. t.asked = SubSeq(Script, 1, Before(t.stage) + t.used)
    BY <1>4, <1>6, Zenon
  <2>3. QED
    BY <1>6, <2>1, <2>2 DEF Good, Placed
<1>9. Keeps(s, t) /\ Expected("finish", t)
  BY <1>1, <1>6, <1>7, <1>8 DEF Keeps, Ripe, Expected
<1>10. QED
  BY <1>1, <1>3, <1>8, <1>9, NodeKeeps DEF Nodes

(* The offer to end.                                                       *)
LEMMA Guides ==
  ASSUME SessionInv, Single, NEW w \in Worker, EndGuide(w)
  PROVE  SessionInv' /\ Single' /\ StaysWhole
<1> DEFINE s == work[w].state
           t == [s EXCEPT !.complete = FALSE, !.guide = FALSE]
<1>1. Good(s) /\ s.extended /\ work[w].pc \in Nodes
  BY AtNode DEF EndGuide, At, Nodes
<1>2. Good(t) /\ Keeps(s, t) /\ Say(w, t)
  BY <1>1, ExtendedGood DEF EndGuide
<1> HIDE DEF t
<1>3. Expected("finish", t)
  BY DEF Expected
<1>4. QED
  BY <1>1, <1>2, <1>3, NodeKeeps DEF Nodes

(* The next question of an extension, or its end.                          *)
LEMMA AsksExtended ==
  ASSUME SessionInv, Single, NEW w \in Worker, ExtendedQuestion(w)
  PROVE  SessionInv' /\ Single' /\ StaysWhole
<1> DEFINE old == work[w].state
<1>1. Good(old) /\ old.extended /\ old \in States /\ work[w].pc \in Nodes
  BY AtNode DEF ExtendedQuestion, At, Nodes
<1>2. PICK known \in Judged(old) :
        LET s == [old EXCEPT !.satisfied = known, !.judged = TRUE]
            t == NextTarget(s)
        IN \/ Say(w, [s EXCEPT !.extended = FALSE, !.complete = TRUE])
           \/ /\ t # None
              /\ Say(w, [s EXCEPT !.times[t] = @ + 1, !.last = t, !.turns = @ + 1])
  BY DEF ExtendedQuestion
<1> DEFINE s == [old EXCEPT !.satisfied = known, !.judged = TRUE]
           t == NextTarget(s)
<1>3. known \in SUBSET (1..Targets)
  BY <1>1 DEF Judged, States
<1>4. /\ s \in States /\ s.asked = old.asked /\ s.stage = old.stage
      /\ s.used = old.used /\ s.done = old.done /\ s.extended
  BY <1>1, <1>3 DEF States
<1>5. \/ Say(w, [s EXCEPT !.extended = FALSE, !.complete = TRUE])
      \/ /\ t # None
         /\ Say(w, [s EXCEPT !.times[t] = @ + 1, !.last = t, !.turns = @ + 1])
  BY <1>2
<1> HIDE DEF s
<1>6. Good(s) /\ Keeps(old, s)
  BY <1>1, <1>4, StaysGood DEF Ripe, Whole
<1>7. CASE Say(w, [s EXCEPT !.extended = FALSE, !.complete = TRUE])
  <2> DEFINE over == [s EXCEPT !.extended = FALSE, !.complete = TRUE]
  <2>1. Good(over) /\ Keeps(s, over)
    BY <1>4, <1>6, ExtendedGood
  <2>2. Say(w, over)
    BY <1>7
  <2> HIDE DEF over
  <2>3. Keeps(old, over) /\ Expected("finish", over)
    BY <1>6, <2>1 DEF Keeps, Expected
  <2>4. QED
    BY <1>1, <2>1, <2>2, <2>3, NodeKeeps DEF Nodes
<1>8. CASE t # None /\ Say(w, [s EXCEPT !.times[t] = @ + 1, !.last = t, !.turns = @ + 1])
  <2>1. t \in 1..Targets
    BY <1>4, <1>8, NextTargetIs
  <2> HIDE DEF t
  <2> DEFINE on == [s EXCEPT !.times[t] = @ + 1, !.last = t, !.turns = @ + 1]
  <2>2. /\ s.times[t] + 1 \in Nat /\ s.times \in [1..Targets -> Nat] /\ s.turns + 1 \in Nat
    <3>1. s.times \in [1..Targets -> Nat] /\ s.turns \in Nat
      BY <1>4 DEF States
    <3>2. s.times[t] \in Nat
      BY <2>1, <3>1
    <3>3. QED
      BY <3>1, <3>2
  <2>3. /\ on \in States /\ on.asked = s.asked /\ on.stage = s.stage /\ on.used = s.used
        /\ on.done = s.done /\ on.extended = s.extended
    BY <1>4, <2>1, <2>2 DEF States
  <2>4. Say(w, on)
    BY <1>8
  <2> HIDE DEF on
  <2>5. Good(on) /\ Keeps(s, on)
    BY <1>4, <1>6, <2>3, StaysGood DEF Ripe, Whole
  <2>6. Keeps(old, on) /\ Expected("finish", on)
    BY <1>6, <2>5 DEF Keeps, Expected
  <2>7. QED
    BY <1>1, <2>4, <2>5, <2>6, NodeKeeps DEF Nodes
<1>9. QED
  BY <1>5, <1>7, <1>8

(* The request is over.                                                    *)
LEMMA Finishes ==
  ASSUME SessionInv, Single, NEW w \in Worker, Finish(w)
  PROVE  SessionInv' /\ Single' /\ StaysWhole
<1> DEFINE t(s) == [s EXCEPT !.status = "completed"]
<1>1. PICK s \in Newest(w) : Store(t(s)) \/ Read(s)
  BY DEF Finish
<1>2. work[w].pc = "finish" /\ Good(work[w].state)
  BY AtNode DEF Finish, At, Nodes
<1>3. Good(s) /\ (s = saved \/ s = prev)
  <2>1. CASE saved = work[w].state
    BY <1>1, <1>2, <2>1 DEF Newest
  <2>2. CASE saved # work[w].state
    BY <1>1, <2>2, OnDiskGood DEF Newest
  <2>3. QED
    BY <2>1, <2>2
<1>4. Alone => Saved(saved, prev) /\ s = saved
  BY <1>1, <1>2, <1>3 DEF Alone, Kept, Nodes, Newest
<1>5. Good(t(s)) /\ Keeps(s, t(s))
  BY <1>3, StatusGood DEF Status
<1> HIDE DEF t
<1>6. /\ Checkpoints' /\ StaysWhole
      /\ Alone => Saved(saved', prev') /\ prev' = saved'
  <2>1. CASE Store(t(s))
    <3>1. Checkpoints' /\ saved' = t(s) /\ prev' = t(s)
      BY <1>5, <2>1, StoreGood
    <3>2. StaysWhole
      BY <1>3, <1>5, <3>1 DEF StaysWhole, Keeps
    <3>3. QED
      BY <1>4, <1>5, <3>1, <3>2 DEF Saved, Keeps
  <2>2. CASE Read(s)
    <3>1. Checkpoints' /\ StaysWhole /\ saved' = saved
      BY <2>2, ReadKeeps
    <3>2. s = saved => prev' = saved
      BY <2>2 DEF Read
    <3>3. QED
      BY <1>4, <3>1, <3>2 DEF Saved
  <2>3. QED
    BY <1>1, <2>1, <2>2
<1>7. /\ work' = [work EXCEPT ![w] = Idle] /\ failures' \in Nat /\ overlaps' = overlaps
      /\ work[w].pc # "idle"
  BY <1>2 DEF Finish, SessionInv
<1>8. QED
  BY <1>6, <1>7, IdleIs, GoesOn

(* It fails, or vanishes.                                                  *)
LEMMA Breaks ==
  ASSUME SessionInv, Single, NEW w \in Worker, Fails(w) \/ Vanishes(w)
  PROVE  SessionInv' /\ Single' /\ StaysWhole
<1> DEFINE u(s) == IF s = None THEN InitialState ELSE s
           t(s) == [u(s) EXCEPT !.status = "failed"]
<1>1. PICK s \in {saved, prev} : Store(s) \/ Store(t(s))
  BY DEF Fails, Vanishes
<1>2. s = None \/ Good(s)
  BY DEF SessionInv, Checkpoints
<1>3. Good(u(s)) /\ (Ripe(s) => Ripe(u(s))) /\ (Whole(s) => Whole(u(s)))
  <2>1. Ripe(InitialState)
    BY DEF Ripe, InitialState
  <2>2. QED
    BY <1>2, <2>1, InitialGood, NoneIs
<1> HIDE DEF u
<1>4. Good(t(s)) /\ (Ripe(s) => Ripe(t(s))) /\ (Whole(s) => Whole(t(s)))
  <2>1. Good(t(s)) /\ Keeps(u(s), t(s))
    BY <1>3, StatusGood DEF Status
  <2> HIDE DEF t
  <2>2. QED
    BY <1>3, <2>1 DEF Keeps
<1> HIDE DEF t
<1>5. PICK x : saved' = x /\ prev' = x /\ (x = s \/ x = t(s))
  BY <1>1 DEF Store
<1>6. (x = None \/ Good(x)) /\ (Ripe(s) => Ripe(x)) /\ (Whole(s) => Whole(x))
  BY <1>2, <1>4, <1>5
<1>7. Checkpoints' /\ StaysWhole /\ (Alone => Saved(saved', prev')) /\ prev' = saved'
  BY <1>5, <1>6 DEF Checkpoints, StaysWhole, Alone, Saved
<1>8. /\ work' = [work EXCEPT ![w] = Idle] /\ failures' \in Nat /\ overlaps' = overlaps
      /\ work[w].pc # "idle"
  BY DEF Fails, Vanishes, SessionInv, Running
<1>9. QED
  BY <1>7, <1>8, IdleIs, GoesOn

-----------------------------------------------------------------------------
(* The interview *)

(* Every step of the interview keeps the session in order.                 *)
LEMMA SessionStep ==
  ASSUME SessionInv, Single, Next
  PROVE  SessionInv' /\ Single' /\ StaysWhole
<1>1. PICK w \in Worker :
        \/ \E stream \in BOOLEAN : CreateSession(w, stream) \/ Extend(w, stream)
        \/ \E stream, files \in BOOLEAN : Chat(w, stream, files)
        \/ AskToEnd(w) \/ EndExtension(w) \/ MarkGenerating(w) \/ Begin(w)
        \/ Node(w) \/ Finish(w) \/ Fails(w) \/ Vanishes(w)
  BY DEF Next
<1>2. CASE \E stream \in BOOLEAN : CreateSession(w, stream)
  BY <1>2, Creates
<1>3. CASE \E stream \in BOOLEAN : Extend(w, stream)
  BY <1>3, ChatOrExtend
<1>4. CASE \E stream, files \in BOOLEAN : Chat(w, stream, files)
  BY <1>4, ChatOrExtend
<1>5. CASE AskToEnd(w)
  BY <1>5, Asks
<1>6. CASE EndExtension(w)
  BY <1>6, Ends
<1>7. CASE MarkGenerating(w)
  BY <1>7, Marks
<1>8. CASE Begin(w)
  BY <1>8, Begins
<1>9. CASE Node(w)
  BY <1>9, Routes, Prepares, Analyses, AnalysesExtended, AsksFixed, Guides, AsksExtended
     DEF Node
<1>10. CASE Finish(w)
  BY <1>10, Finishes
<1>11. CASE Fails(w) \/ Vanishes(w)
  BY <1>11, Breaks
<1>12. QED
  BY <1>1, <1>2, <1>3, <1>4, <1>5, <1>6, <1>7, <1>8, <1>9, <1>10, <1>11

(* Requests that have overlapped are not forgotten.                        *)
LEMMA OverlapsStay ==
  ASSUME SessionInv, Next, overlaps' = 0
  PROVE  overlaps = 0
<1>1. PICK w \in Worker :
        \/ \E stream \in BOOLEAN : CreateSession(w, stream) \/ Extend(w, stream)
        \/ \E stream, files \in BOOLEAN : Chat(w, stream, files)
        \/ AskToEnd(w) \/ EndExtension(w) \/ MarkGenerating(w) \/ Begin(w)
        \/ Node(w) \/ Finish(w) \/ Fails(w) \/ Vanishes(w)
  BY DEF Next
<1>2. CASE \E r : Comes(w, r)
  BY <1>2 DEF Comes, SessionInv
<1>3. CASE overlaps' = overlaps
  BY <1>3
<1>4. ASSUME \/ \E stream \in BOOLEAN : CreateSession(w, stream) \/ Extend(w, stream)
             \/ \E stream, files \in BOOLEAN : Chat(w, stream, files)
             \/ AskToEnd(w)
      PROVE  \E r : Comes(w, r)
  BY <1>4 DEF CreateSession, Extend, Chat, AskToEnd
<1>5. ASSUME EndExtension(w) \/ MarkGenerating(w) \/ Finish(w) \/ Fails(w) \/ Vanishes(w)
      PROVE  overlaps' = overlaps
  BY <1>5 DEF EndExtension, MarkGenerating, Finish, Fails, Vanishes
<1>6. ASSUME Begin(w) \/ Node(w)
      PROVE  overlaps' = overlaps
  <2>1. \/ \E next, s : Step(w, next, s)
        \/ \E s : Say(w, s)
    BY <1>6, Zenon
       DEF Begin, Node, Router, FileProcessor, Retriever, RegularAnalyst, ExtendedAnalyst,
           FixedQuestion, EndGuide, ExtendedQuestion
  <2>2. QED
    BY <2>1 DEF Step, Say
<1>7. QED
  BY <1>1, <1>2, <1>3, <1>4, <1>5, <1>6

(* A session in order asks in order.                                       *)
LEMMA SessionOrdered ==
  ASSUME SessionInv, Single
  PROVE  QuestionsInOrder
<1> SUFFICES ASSUME NEW s \in Session
             PROVE  /\ s.asked = SubSeq(Script, 1, Len(s.asked))
                    /\ overlaps = 0 /\ (s.extended \/ s.complete) => s.asked = Script /\ s.done
  BY DEF QuestionsInOrder
<1>1. Good(s) /\ s = saved
  BY DEF Session, SessionInv, Checkpoints
<1>2. overlaps = 0 => Ripe(s)
  BY <1>1 DEF Single, Alone, Saved
<1>3. QED
  BY <1>1, <1>2, BeginningOfScript DEF Good, Whole, Ripe

-----------------------------------------------------------------------------
(* The portfolio *)

(* The interview goes on, and the task does not notice.                    *)
LEMMA ToldUnchanged ==
  ASSUME Told, UNCHANGED pvars, StaysWhole, overlaps' = 0 => overlaps = 0
  PROVE  Told'
BY DEF Told, pvars, StaysWhole, Outcome, WholePortfolio

(* The task goes on, and the session does not notice.                      *)
LEMMA SessionUnchanged ==
  ASSUME SessionInv, Single, UNCHANGED vars
  PROVE  SessionInv' /\ Single' /\ StaysWhole
<1>1. SessionInv' /\ StaysWhole
  BY DEF SessionInv, Checkpoints, StaysWhole, vars
<1>2. Alone => Alone'
  BY DEF Alone, vars
<1>3. QED
  BY <1>1, <1>2 DEF Single, vars

(* What is read for a portfolio.                                           *)
LEMMA PortfolioReads ==
  ASSUME SessionInv, Single, NEW s, Read(s), UNCHANGED <<work, overlaps, failures>>
  PROVE  /\ SessionInv' /\ Single' /\ Good(s)
         /\ overlaps = 0 /\ (s.extended \/ s.complete) =>
              s.asked = Script /\ Whole(saved') /\ Whole(prev')
<1>1. /\ Checkpoints' /\ saved' = saved /\ Good(s) /\ (prev' = saved \/ prev' = prev)
      /\ Saved(saved, prev) => Saved(saved', prev')
      /\ Saved(saved, prev) /\ Whole(s) => Whole(saved') /\ Whole(prev')
  BY ReadKeeps
<1>2. SessionInv'
  BY <1>1 DEF SessionInv
<1>3. ASSUME Alone PROVE Alone'
  <2>1. \A w \in Worker : Kept(saved', prev', work'[w])
    BY <1>1, <1>3 DEF Alone, Kept
  <2>2. QED
    BY <1>1, <1>3, <2>1 DEF Alone
<1>4. ASSUME overlaps = 0, s.extended \/ s.complete
      PROVE  s.asked = Script /\ Whole(saved') /\ Whole(prev')
  <2>1. Saved(saved, prev) /\ (s = saved \/ s = prev)
    BY <1>4, OnDiskGood DEF Single, Alone, Read
  <2>2. Whole(s)
    BY <1>1, <1>4, <2>1 DEF Saved, Ripe
  <2>3. QED
    BY <1>1, <2>1, <2>2, BeginningOfScript DEF Good
<1>5. QED
  BY <1>1, <1>2, <1>3, <1>4 DEF Single

(* The task goes on before there is anything to report.                    *)
LEMMA TaskGoesOn ==
  ASSUME Told, UNCHANGED <<overlaps, portfolio, late, unanswered, broken>>,
         job.pc \notin {"report", "over"}, job' \in Jobs,
         job'.pc \notin {"report", "over"}, job'.tells = "completed" => job'.made,
         overlaps = 0 =>
           /\ job'.pc \in {"end", "close"} => Whole(saved') /\ Whole(prev')
           /\ job'.pc \in {"close", "generate"} => job'.asked = Script
  PROVE  Told'
<1>1. /\ portfolio' = "generating" /\ late' = [s \in {"completed", "failed"} |-> 0]
      /\ unanswered' \in Nat /\ broken' \in Nat
  BY DEF Told
<1>2. late'["completed"] = 0 /\ late'["failed"] = 0
  BY <1>1
<1>3. overlaps' = 0 => /\ job'.pc \in {"end", "close"} => Whole(saved') /\ Whole(prev')
                       /\ WholePortfolio'
  BY DEF WholePortfolio
<1>4. late' \in [{"completed", "failed"} -> Nat] /\ portfolio' \in Status
  BY <1>1 DEF Status
<1>5. QED
  BY <1>1, <1>2, <1>3, <1>4 DEF Told

(* A portfolio of what was read.                                           *)
LEMMA MakesIs ==
  ASSUME NEW s, Good(s), Makes(s)
  PROVE  job' \in Jobs /\ job'.pc = "generate" /\ job'.asked = s.asked /\ job'.tells = "failed"
<1>1. s.asked \in Asked
  BY DEF Good, States
<1>2. QED
  BY <1>1 DEF Makes, NoJob, Jobs

(* No task yet.                                                            *)
LEMMA NoJobIs == NoJob \in Jobs /\ NoJob.pc = "none" /\ NoJob.tells = "failed"
BY DEF NoJob, Jobs, Asked

(* The request for a portfolio.                                            *)
LEMMA Starts ==
  ASSUME Inv, StartGeneration
  PROVE  Inv'
<1>1. PICK s \in OnDisk :
        /\ Read(s)
        /\ \/ s.complete /\ Makes(s)
           \/ ~s.complete /\ s.extended /\ job' = [NoJob EXCEPT !.pc = "end"]
  BY DEF StartGeneration
<1>2. /\ UNCHANGED <<work, overlaps, failures>> /\ job = NoJob
      /\ UNCHANGED <<overlaps, portfolio, late, unanswered, broken>>
  BY DEF StartGeneration
<1>3. /\ SessionInv' /\ Single' /\ Good(s)
      /\ overlaps = 0 => s.asked = Script /\ Whole(saved') /\ Whole(prev')
  BY <1>1, <1>2, PortfolioReads DEF Inv
<1>4. /\ job' \in Jobs /\ job'.tells = "failed"
      /\ (job'.pc = "generate" /\ job'.asked = s.asked) \/ job'.pc = "end"
  <2>1. CASE Makes(s)
    BY <1>3, <2>1, MakesIs
  <2>2. CASE job' = [NoJob EXCEPT !.pc = "end"]
    BY <2>2, NoJobIs DEF Jobs
  <2>3. QED
    BY <1>1, <2>1, <2>2
<1>5. Told'
  BY <1>2, <1>3, <1>4, NoJobIs, TaskGoesOn DEF Inv
<1>6. QED
  BY <1>3, <1>5 DEF Inv

(* An extension that is running is to be ended first.                      *)
LEMMA EndsFirst ==
  ASSUME Inv, EndsExtension
  PROVE  Inv'
<1>1. PICK s \in OnDisk :
        /\ Read(s)
        /\ \/ s.extended /\ job' = [job EXCEPT !.pc = "close", !.asked = s.asked]
           \/ ~s.extended /\ s.complete /\ Makes(s)
           \/ job' = NoJob
  BY DEF EndsExtension
<1>2. /\ UNCHANGED <<work, overlaps, failures>> /\ job.pc = "end" /\ job \in Jobs
      /\ UNCHANGED <<overlaps, portfolio, late, unanswered, broken>>
      /\ job.tells = "completed" => job.made
  BY DEF EndsExtension, Inv, Told
<1>3. /\ SessionInv' /\ Single' /\ Good(s) /\ s.asked \in Asked
      /\ overlaps = 0 /\ (s.extended \/ s.complete) =>
           s.asked = Script /\ Whole(saved') /\ Whole(prev')
  BY <1>1, <1>2, PortfolioReads DEF Inv, Good, States
<1>4. /\ job' \in Jobs /\ (job'.tells = "completed" => job'.made)
      /\ \/ s.extended /\ job'.pc = "close" /\ job'.asked = s.asked
         \/ s.complete /\ job'.pc = "generate" /\ job'.asked = s.asked
         \/ job'.pc = "none"
  <2>1. CASE s.extended /\ job' = [job EXCEPT !.pc = "close", !.asked = s.asked]
    BY <1>2, <1>3, <2>1 DEF Jobs
  <2>2. CASE s.complete /\ Makes(s)
    BY <1>3, <2>2, MakesIs
  <2>3. CASE job' = NoJob
    BY <2>3, NoJobIs
  <2>4. QED
    BY <1>1, <2>1, <2>2, <2>3
<1>5. Told'
  <2>1. job.pc \notin {"report", "over"} /\ job'.pc \notin {"report", "over"}
    BY <1>2, <1>4
  <2>2. overlaps = 0 =>
          /\ job'.pc \in {"end", "close"} => Whole(saved') /\ Whole(prev')
          /\ job'.pc \in {"close", "generate"} => job'.asked = Script
    BY <1>3, <1>4
  <2>3. QED
    BY <1>2, <1>4, <2>1, <2>2, TaskGoesOn DEF Inv
<1>6. QED
  BY <1>3, <1>5 DEF Inv

(* It is ended.                                                            *)
LEMMA Closes ==
  ASSUME Inv, ClosesExtension
  PROVE  Inv'
<1>1. PICK s \in OnDisk : Store(Ended(s))
  BY DEF ClosesExtension
<1>2. /\ UNCHANGED <<work, overlaps, failures>> /\ job.pc = "close" /\ job \in Jobs
      /\ job' = [job EXCEPT !.pc = "generate"]
      /\ UNCHANGED <<overlaps, portfolio, late, unanswered, broken>>
      /\ job.tells = "completed" => job.made
      /\ overlaps = 0 => Whole(saved) /\ Whole(prev) /\ job.asked = Script
  BY DEF ClosesExtension, Inv, Told, WholePortfolio
<1>3. Good(s) /\ (s = saved \/ s = prev)
  BY OnDiskGood DEF Inv
<1>4. /\ Good(Ended(s)) /\ (Whole(s) => Whole(Ended(s)) /\ Ripe(Ended(s)))
      /\ Checkpoints' /\ saved' = Ended(s) /\ prev' = Ended(s)
  BY <1>1, <1>3, EndedGood, StoreGood
<1>5. SessionInv'
  BY <1>2, <1>4 DEF Inv, SessionInv
<1>6. ASSUME overlaps' = 0 PROVE Alone'
  <2>1. Alone /\ Whole(saved) /\ Whole(saved') /\ Ripe(saved') /\ prev' = saved'
    BY <1>2, <1>3, <1>4, <1>6 DEF Inv, Single
  <2>2. Saved(saved', prev')
    BY <2>1 DEF Saved
  <2>3. \A w \in Worker : Kept(saved', prev', work'[w])
    BY <1>2, <2>1 DEF Alone, Kept
  <2>4. QED
    BY <1>2, <2>1, <2>2, <2>3 DEF Alone
<1>7. /\ job' \in Jobs /\ job'.pc = "generate" /\ job'.asked = job.asked
      /\ job'.tells = job.tells /\ job'.made = job.made
  BY <1>2 DEF Jobs
<1>8. Told'
  BY <1>2, <1>7, TaskGoesOn DEF Inv
<1>9. QED
  BY <1>5, <1>6, <1>8 DEF Inv, Single

(* The portfolio is made, or not.                                          *)
LEMMA Generates ==
  ASSUME Inv, Generate \/ CallFails
  PROVE  Told'
<1>1. /\ job \in Jobs /\ job.pc = "generate" /\ portfolio = "generating"
      /\ late = [s \in {"completed", "failed"} |-> 0]
      /\ job.tells = "completed" => job.made
      /\ overlaps = 0 => job.asked = Script
      /\ UNCHANGED <<vars, portfolio, late, unanswered, broken>>
  BY DEF Inv, Told, WholePortfolio, Generate, CallFails
<1>2. ASSUME NEW made \in BOOLEAN, Reports(made)
      PROVE  Told'
  <2>1. /\ job' \in Jobs /\ job'.pc = "report" /\ job'.asked = job.asked /\ job'.call = 1
        /\ job'.made = made /\ job'.tells = IF made THEN "completed" ELSE "failed"
    BY <1>1, <1>2 DEF Reports, NoJob, Jobs
  <2>2. /\ late'["completed"] = 0 /\ late'["failed"] = 0 /\ portfolio' = "generating"
        /\ portfolio' \in Status /\ late' \in [{"completed", "failed"} -> Nat]
        /\ unanswered' \in Nat /\ broken' \in Nat
    BY <1>1 DEF Inv, Told, Status
  <2>3. overlaps' = 0 => WholePortfolio'
    BY <1>1, <2>1 DEF WholePortfolio, vars
  <2>4. job'.tells = Outcome' /\ (job'.tells = "completed" => job'.made)
    BY <2>1 DEF Outcome
  <2>5. job'.call <= unanswered' + 1
    <3>1. \A n \in Nat : 1 <= n + 1
      OBVIOUS
    <3>2. 1 <= unanswered' + 1
      BY <2>2, <3>1, Zenon
    <3>3. QED
      BY <2>1, <3>2, Zenon
  <2>6. ~(late'["completed"] > 0) /\ ~(late'["failed"] > 0)
    BY <2>2
  <2>7. QED
    BY <2>1, <2>2, <2>3, <2>4, <2>5, <2>6, Zenon DEF Told
<1>3. ASSUME \/ job' = [job EXCEPT !.attempt = @ + 1, !.call = 1]
             \/ job' = [job EXCEPT !.call = @ + 1]
      PROVE  Told'
  <2>1. job.attempt + 1 \in Nat /\ job.call + 1 \in Nat
    BY <1>1 DEF Jobs
  <2>2. /\ job' \in Jobs /\ job'.pc = "generate" /\ job'.asked = job.asked
        /\ job'.tells = job.tells /\ job'.made = job.made
    <3>1. CASE job' = [job EXCEPT !.attempt = @ + 1, !.call = 1]
      BY <1>1, <2>1, <3>1 DEF Jobs
    <3>2. CASE job' = [job EXCEPT !.call = @ + 1]
      BY <1>1, <2>1, <3>2 DEF Jobs
    <3>3. QED
      BY <1>3, <3>1, <3>2
  <2>3. UNCHANGED <<overlaps, portfolio, late, unanswered, broken>>
    BY <1>1 DEF vars
  <2>4. QED
    BY <1>1, <2>2, <2>3, TaskGoesOn DEF Inv
<1>4. QED
  BY <1>2, <1>3 DEF Generate, CallFails

(* The task gives up.                                                      *)
LEMMA GivesUpIs ==
  ASSUME NEW j \in Jobs, j.pc = "report"
  PROVE  /\ GivesUp(j) \in Jobs /\ GivesUp(j).pc \in {"report", "over"}
         /\ GivesUp(j).asked = j.asked /\ GivesUp(j).made = j.made
         /\ GivesUp(j).call = 1 /\ GivesUp(j).tells = "failed"
BY DEF GivesUp, Jobs

(* A report is on its way.                                                 *)
LEMMA SentIs ==
  ASSUME Told, Sent
  PROVE  /\ late' \in [{"completed", "failed"} -> Nat]
         /\ \A s \in {"completed", "failed"} : late'[s] > 0 => late[s] > 0 \/ s = job.tells
BY DEF Told, Sent, Jobs

(* What is true of a report.                                               *)
LEMMA AtReport ==
  ASSUME Told, job.pc = "report"
  PROVE  /\ job \in Jobs /\ job.call \in Nat /\ portfolio \in Status
         /\ job.call <= unanswered + 1 /\ unanswered \in Nat /\ broken \in Nat
         /\ late \in [{"completed", "failed"} -> Nat]
         /\ overlaps = 0 => job.asked = Script
         /\ job.tells = "completed" => job.made
         /\ late["completed"] > 0 \/ portfolio = "completed" => job.made
         /\ broken = 0 /\ unanswered < MaxRetries =>
              /\ job.tells = Outcome
              /\ late["failed"] > 0 \/ portfolio = "failed" => ~job.made
BY DEF Told, WholePortfolio, Jobs

(* The main server is told.                                                *)
LEMMA Tells ==
  ASSUME Inv, UpdateResult
  PROVE  Told'
<1>1. Told /\ job.pc = "report"
  BY DEF Inv, UpdateResult
<1>2. /\ portfolio' = job.tells /\ job' = [job EXCEPT !.pc = "over", !.call = 1]
      /\ UNCHANGED <<vars, late, unanswered, broken>>
  BY DEF UpdateResult
<1>3. /\ job' \in Jobs /\ job'.pc = "over" /\ job'.asked = job.asked
      /\ job'.made = job.made /\ job'.tells = job.tells /\ Outcome' = Outcome
      /\ job.tells \in {"completed", "failed"}
  BY <1>1, <1>2, AtReport DEF Jobs, Outcome
<1>4. overlaps' = 0 => WholePortfolio'
  BY <1>1, <1>2, <1>3, AtReport DEF WholePortfolio, vars
<1>5. portfolio' \in Status
  BY <1>2, <1>3 DEF Status
<1>6. job.tells = Outcome /\ job.tells = "failed" => ~job.made
  BY DEF Outcome
<1>7. QED
  BY <1>1, <1>2, <1>3, <1>4, <1>5, <1>6, AtReport DEF Told

(* It does not answer.                                                     *)
LEMMA Waits ==
  ASSUME Inv, UpdateUnanswered
  PROVE  Told'
<1>1. Told /\ job.pc = "report"
  BY DEF Inv, UpdateUnanswered
<1>2. /\ Sent /\ job' = Unheard(job) /\ unanswered' = unanswered + 1
      /\ UNCHANGED <<vars, portfolio, broken>>
  BY DEF UpdateUnanswered
<1>3. MaxRetries \in Nat
  BY RetryAssumption
<1>4. unanswered' < MaxRetries => unanswered < MaxRetries
  BY <1>1, <1>2, <1>3, AtReport
<1>5. /\ job' \in Jobs /\ job'.pc \in {"report", "over"} /\ job'.asked = job.asked
      /\ job'.made = job.made /\ job'.tells \in {job.tells, "failed"}
      /\ job'.call <= unanswered' + 1
      /\ unanswered' < MaxRetries => job'.pc = "report" /\ job'.tells = job.tells
  <2>1. CASE job.call < MaxRetries
    <3>1. job' = [job EXCEPT !.call = @ + 1]
      BY <1>2, <2>1 DEF Unheard
    <3>2. /\ job' \in Jobs /\ job'.pc = "report" /\ job'.asked = job.asked
          /\ job'.made = job.made /\ job'.tells = job.tells /\ job'.call = job.call + 1
      BY <1>1, <3>1, AtReport DEF Jobs
    <3>3. QED
      BY <1>1, <1>2, <3>2, AtReport
  <2>2. CASE ~(job.call < MaxRetries)
    <3>1. job' = GivesUp(job)
      BY <1>2, <2>2 DEF Unheard
    <3>2. ~(unanswered' < MaxRetries) /\ 1 <= unanswered' + 1
      BY <1>1, <1>2, <1>3, <2>2, AtReport
    <3>3. QED
      BY <1>1, <3>1, <3>2, AtReport, GivesUpIs
  <2>3. QED
    BY <2>1, <2>2
<1>6. Outcome' = Outcome
  BY <1>5 DEF Outcome
<1>7. overlaps' = 0 => WholePortfolio'
  BY <1>1, <1>2, <1>5, AtReport DEF WholePortfolio, vars
<1>8. /\ late' \in [{"completed", "failed"} -> Nat]
      /\ late'["completed"] > 0 => late["completed"] > 0 \/ job.tells = "completed"
      /\ late'["failed"] > 0 => late["failed"] > 0 \/ job.tells = "failed"
  BY <1>1, <1>2, SentIs
<1>9. unanswered' \in Nat
  BY <1>1, <1>2, AtReport
<1>10. ASSUME broken' = 0, unanswered' < MaxRetries
       PROVE  /\ job'.pc = "report" => job'.tells = Outcome'
              /\ job'.pc = "over" => portfolio' = Outcome'
              /\ late'["failed"] > 0 \/ portfolio' = "failed" => ~job'.made
  <2>1. job.tells = Outcome /\ job'.pc = "report" /\ job'.tells = job.tells
    BY <1>1, <1>2, <1>4, <1>5, <1>10, AtReport
  <2>2. job.tells = "failed" => ~job.made
    BY <2>1 DEF Outcome
  <2>3. late["failed"] > 0 \/ portfolio = "failed" => ~job.made
    BY <1>1, <1>2, <1>4, <1>10, AtReport
  <2>4. QED
    BY <1>2, <1>5, <1>6, <1>8, <2>1, <2>2, <2>3
<1>11. job'.tells = "completed" => job'.made
  BY <1>1, <1>5, AtReport
<1>12. late'["completed"] > 0 \/ portfolio' = "completed" => job'.made
  BY <1>1, <1>2, <1>5, <1>8, AtReport
<1>13. QED
  BY <1>1, <1>2, <1>5, <1>7, <1>8, <1>9, <1>10, <1>11, <1>12, AtReport DEF Told

(* The call breaks.                                                        *)
LEMMA BreaksOff ==
  ASSUME Inv, UpdateBroken
  PROVE  Told'
<1>1. Told /\ job.pc = "report"
  BY DEF Inv, UpdateBroken
<1>2. /\ Sent /\ job' = GivesUp(job) /\ broken' = broken + 1
      /\ UNCHANGED <<vars, portfolio, unanswered>>
  BY DEF UpdateBroken
<1>3. /\ job' \in Jobs /\ job'.pc \in {"report", "over"} /\ job'.asked = job.asked
      /\ job'.made = job.made /\ job'.tells = "failed" /\ job'.call = 1
  BY <1>1, <1>2, AtReport, GivesUpIs
<1>4. overlaps' = 0 => WholePortfolio'
  BY <1>1, <1>2, <1>3, AtReport DEF WholePortfolio, vars
<1>5. /\ late' \in [{"completed", "failed"} -> Nat]
      /\ late'["completed"] > 0 => late["completed"] > 0 \/ job.tells = "completed"
  BY <1>1, <1>2, SentIs
<1>6. broken' \in Nat /\ broken' # 0 /\ unanswered' \in Nat /\ job'.call <= unanswered' + 1
  BY <1>1, <1>2, <1>3, AtReport
<1>7. late'["completed"] > 0 \/ portfolio' = "completed" => job'.made
  BY <1>1, <1>2, <1>3, <1>5, AtReport
<1>8. QED
  BY <1>1, <1>2, <1>3, <1>4, <1>5, <1>6, <1>7, AtReport DEF Told

(* A report arrives whose sender does not know it.                         *)
LEMMA Arrives ==
  ASSUME Inv, Applied
  PROVE  Told'
<1>1. PICK s \in {"completed", "failed"} :
        late[s] > 0 /\ late' = [late EXCEPT ![s] = @ - 1] /\ portfolio' = s
  BY DEF Applied
<1>2. Told /\ UNCHANGED <<vars, job, unanswered, broken>>
  BY DEF Inv, Applied
<1>3. job.pc \in {"report", "over"}
  <2>1. job.pc \notin {"report", "over"} => late[s] = 0
    BY <1>2 DEF Told
  <2>2. QED
    BY <1>1, <2>1
<1>4. /\ late' \in [{"completed", "failed"} -> Nat]
      /\ \A x \in {"completed", "failed"} : late'[x] > 0 => late[x] > 0
  BY <1>1, <1>2 DEF Told
<1>5. Outcome' = Outcome /\ (WholePortfolio => WholePortfolio')
  BY <1>2 DEF Outcome, WholePortfolio
<1>6. s = "completed" => job.made
  BY <1>1, <1>2 DEF Told
<1>7. broken = 0 /\ unanswered < MaxRetries /\ s = "failed" => ~job.made
  BY <1>1, <1>2 DEF Told
<1>8. broken = 0 /\ unanswered < MaxRetries => s = Outcome
  BY <1>6, <1>7 DEF Outcome
<1>9. portfolio' \in Status
  BY <1>1 DEF Status
<1>10. /\ overlaps' = 0 => /\ job'.pc \in {"end", "close"} => Whole(saved') /\ Whole(prev')
                           /\ WholePortfolio'
       /\ job'.pc = "report" => job'.call <= unanswered' + 1
  BY <1>2, <1>3, <1>5 DEF Told, vars
<1>11. late'["completed"] > 0 \/ portfolio' = "completed" => job'.made
  BY <1>1, <1>2, <1>4, <1>6 DEF Told
<1>12. ASSUME broken' = 0, unanswered' < MaxRetries
       PROVE  /\ job'.pc = "report" => job'.tells = Outcome'
              /\ job'.pc = "over" => portfolio' = Outcome'
              /\ late'["failed"] > 0 \/ portfolio' = "failed" => ~job'.made
  BY <1>1, <1>2, <1>4, <1>5, <1>7, <1>8, <1>12 DEF Told
<1>13. QED
  BY <1>2, <1>3, <1>4, <1>9, <1>10, <1>11, <1>12 DEF Told

-----------------------------------------------------------------------------
(* The theorems *)

(* It holds at the start.                                                  *)
LEMMA Initially ==
  ASSUME PInit
  PROVE  Inv
<1>1. work = [w \in Worker |-> Idle] /\ overlaps = 0 /\ failures = 0
  BY DEF PInit, Init
<1>2. work \in [Worker -> Works] /\ \A w \in Worker : work[w] = Idle
  BY <1>1, IdleIs
<1>3. saved = None /\ prev = None
  BY DEF PInit, Init
<1>4. SessionInv
  BY <1>1, <1>2, <1>3, IdleIs DEF SessionInv, Checkpoints
<1>5. Alone
  BY <1>2, <1>3, IdleIs, NoneIs DEF Alone, Saved
<1>6. Told
  <2>1. /\ job = NoJob /\ portfolio = "generating" /\ unanswered = 0 /\ broken = 0
        /\ late = [s \in {"completed", "failed"} |-> 0]
    BY DEF PInit
  <2>2. portfolio \in Status /\ late \in [{"completed", "failed"} -> Nat]
    BY <2>1 DEF Status
  <2>3. late["completed"] = 0 /\ late["failed"] = 0
    BY <2>1
  <2>4. QED
    BY <2>1, <2>2, <2>3, NoJobIs DEF Told, WholePortfolio
<1>7. QED
  BY <1>4, <1>5, <1>6 DEF Inv, Single

(* The inductive invariant: what is kept however many requests of the      *)
(* session are in flight, and what only as long as none of them comes      *)
(* while another is being answered.                                        *)
THEOREM Invariance == PSpec => []Inv
<1>1. PInit => Inv
  BY Initially
<1>2. Inv /\ [PNext]_<<vars, pvars>> => Inv'
  <2> SUFFICES ASSUME Inv, [PNext]_<<vars, pvars>> PROVE Inv'
    OBVIOUS
  <2>1. CASE Next /\ UNCHANGED pvars
    <3>1. SessionInv' /\ Single' /\ StaysWhole /\ (overlaps' = 0 => overlaps = 0)
      BY <2>1, SessionStep, OverlapsStay DEF Inv
    <3>2. QED
      BY <2>1, <3>1, ToldUnchanged DEF Inv
  <2>2. CASE \/ Generate \/ CallFails \/ UpdateResult \/ UpdateUnanswered \/ UpdateBroken
             \/ Applied
    <3>1. UNCHANGED vars
      BY <2>2 DEF Generate, CallFails, UpdateResult, UpdateUnanswered, UpdateBroken, Applied
    <3>2. Told'
      BY <2>2, Generates, Tells, Waits, BreaksOff, Arrives
    <3>3. QED
      BY <3>1, <3>2, SessionUnchanged DEF Inv
  <2>3. CASE StartGeneration \/ EndsExtension \/ ClosesExtension
    BY <2>3, Starts, EndsFirst, Closes
  <2>4. CASE UNCHANGED <<vars, pvars>>
    <3>1. UNCHANGED vars /\ UNCHANGED pvars /\ overlaps' = overlaps
      BY <2>4 DEF vars
    <3>2. QED
      BY <3>1, SessionUnchanged, ToldUnchanged DEF Inv
  <2>5. QED
    BY <2>1, <2>2, <2>3, <2>4 DEF PNext, PortfolioStep
<1>3. QED
  BY <1>1, <1>2, PTL DEF PSpec

(* Whatever fails, and however many requests are in flight, the fixed      *)
(* questions come one by one; as long as no request comes while another is *)
(* being answered, nothing is finished before the last of them: analyst.py *)
(* _is_stage_complete and question_generator.py run.                       *)
THEOREM OrderedQuestions == PSpec => []QuestionsInOrder
<1>1. Inv => QuestionsInOrder
  BY SessionOrdered DEF Inv
<1>2. QED
  BY <1>1, Invariance, PTL

(* A portfolio is made of a whole interview although the session changes   *)
(* and its requests fail, as long as no request comes while another is     *)
(* being answered: features/portfolio/service.py start_generation.         *)
THEOREM WholePortfolios == PSpec => []MadeOfWhole
<1>1. Inv => MadeOfWhole
  BY DEF Inv, Told, MadeOfWhole
<1>2. QED
  BY <1>1, Invariance, PTL

(* The outcome of a portfolio, made of the whole interview, is told unless *)
(* a call breaks or stays unanswered however often it is repeated, and one *)
(* that was not made is never shown as completed: features/portfolio/service.py *)
(* _generate_portfolio_background and client.py request_with_retry.        *)
THEOREM ToldOutcome == PSpec => []OutcomeIsTold
<1>1. Inv => OutcomeIsTold
  BY DEF Inv, Told, MadeOfWhole, OutcomeIsTold
<1>2. QED
  BY <1>1, Invariance, PTL
=============================================================================
