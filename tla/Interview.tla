------------------------------ MODULE Interview ------------------------------
(***************************************************************************)
(* The interview: a session's checkpoint, the requests that work on it     *)
(* (features/interview/service.py) and the nodes each of them runs         *)
(* (features/interview/agents).  Four stages of fixed questions are        *)
(* followed by extensions that ask about a list of targets.                *)
(*                                                                         *)
(* Nothing keeps two requests of a session apart: each loads the newest    *)
(* checkpoint on disk, works on its own copy and writes all of it back     *)
(* after every node.  Worker is how many requests may be in flight at a    *)
(* time.  Of the checkpoints that are still being written two are kept.    *)
(*                                                                         *)
(* Texts, collected fields and insights are left out: no decision reads    *)
(* them.  Of the turn number only two things are ever compared: whether    *)
(* it is 0, and how many messages it is behind.                            *)
(***************************************************************************)
EXTENDS Naturals, Sequences

CONSTANTS
  Worker,
  Targets,        \* how many additional_question_priorities there are
  None,
  FixedTotal,     \* the number of fixed questions of each stage
  MaxTurns,       \* extension_turns_per_session
  MaxExtensions,  \* max_extensions
  MaxSaid,        \* bound: messages said while the session is being created
  MaxOverlaps,    \* bound: requests that come while another is being answered
  MaxFailures     \* bound: failures, lost clients and crashes

ASSUME StageAssumption == FixedTotal \in [1..4 -> Nat \ {0}]
ASSUME LimitAssumption ==
  /\ Targets \in Nat /\ MaxTurns \in Nat /\ MaxExtensions \in Nat
  /\ MaxSaid \in Nat \ {0} /\ MaxOverlaps \in Nat /\ MaxFailures \in Nat

VARIABLES
  saved,    \* the session's newest checkpoint, None before the session
  prev,     \* the one before it, while the newest is still being written
  work,     \* the requests
  overlaps, \* history: requests that came while another was being answered
  failures

vars == <<saved, prev, work, overlaps, failures>>

Lost == "exhausted"     \* the question asked when there is none left

Asked == Seq(((1..4) \X Nat) \cup {Lost})

(* InterviewState, as far as decisions read it.                            *)
States ==
  [status : {"generating", "completed", "failed"},
   counted : BOOLEAN,     \* turn_number > 0
   behind : Nat,          \* messages that turn_number does not count yet
   asked : Asked,         \* history: the fixed questions asked
   stage : 1..4, used : Nat, done : BOOLEAN, complete : BOOLEAN,
   extended : BOOLEAN, count : Nat, turns : Nat,
   satisfied : SUBSET (1..Targets), times : [1..Targets -> Nat], judged : BOOLEAN,
   last : (1..Targets) \cup {None}, guide : BOOLEAN]

ASSUME NoneAssumption == None \notin States

NoAttempts == [i \in 1..Targets |-> 0]

(* get_initial_interview_state *)
InitialState ==
  [status |-> "completed", counted |-> FALSE, behind |-> 0, asked |-> <<>>,
   stage |-> 1, used |-> 0, done |-> FALSE, complete |-> FALSE,
   extended |-> FALSE, count |-> 0, turns |-> 0,
   satisfied |-> {}, times |-> NoAttempts, judged |-> FALSE,
   last |-> None, guide |-> FALSE]

Idle == [pc |-> "idle", kind |-> None, stream |-> FALSE, extend |-> FALSE, files |-> FALSE,
         state |-> InitialState, spoke |-> FALSE]

Init ==
  /\ saved = None /\ prev = None
  /\ work = [w \in Worker |-> Idle]
  /\ overlaps = 0 /\ failures = 0

At(w, pc) == work[w].pc = pc

Go(w, pc) == work' = [work EXCEPT ![w].pc = pc]

(* Awaited and on disk. *)
Store(s) == saved' = s /\ prev' = s

(* What others may find on disk: the newest checkpoint or, while it is being
   written, the one before.                                                *)
OnDisk == {saved, prev} \ {None}

(* What has been read is not lost again.                                   *)
Read(s) ==
  /\ s \in OnDisk
  /\ saved' = saved /\ prev' = IF s = saved THEN saved ELSE prev

-----------------------------------------------------------------------------
(* Requests *)

Comes(w, r) ==
  /\ At(w, "idle") /\ work' = [work EXCEPT ![w] = r]
  /\ IF \A v \in Worker : At(v, "idle") THEN UNCHANGED overlaps
     ELSE overlaps < MaxOverlaps /\ overlaps' = overlaps + 1
  /\ UNCHANGED failures

(* A new session has an id of its own, which is made for its request.      *)
CreateSession(w, stream) ==
  /\ saved = None /\ \A v \in Worker : At(v, "idle")
  /\ IF stream THEN Store([InitialState EXCEPT !.status = "generating"])
     ELSE UNCHANGED <<saved, prev>>
  /\ Comes(w, [Idle EXCEPT !.pc = "begin", !.kind = "create", !.stream = stream])

(* The id comes with the headers of a stream, or else with the answer.     *)
Known == \A v \in Worker : work[v].kind = "create" => work[v].stream

(* _is_regular_interview_complete_state *)
RegularComplete(s) == s.complete /\ s.stage = 4 /\ s.done

MayExtend(s) == RegularComplete(s) /\ s.count < MaxExtensions

(* A chat in a completed session starts an extension by itself.            *)
Chat(w, stream, files) ==
  /\ Known
  /\ \E s \in OnDisk :
       /\ Read(s)
       /\ Comes(w, [Idle EXCEPT !.pc = IF stream THEN "mark" ELSE "begin", !.kind = "chat",
                                !.stream = stream, !.files = files, !.state = s,
                                !.extend = MayExtend(s) /\ ~s.extended])

Extend(w, stream) ==
  /\ Known
  /\ \E s \in OnDisk :
       /\ Read(s) /\ MayExtend(s)
       /\ Comes(w, [Idle EXCEPT !.pc = IF stream THEN "mark" ELSE "begin", !.kind = "extend",
                                !.stream = stream, !.state = s, !.extend = TRUE])

(* complete_extended_session reads, and writes its update later.           *)
AskToEnd(w) ==
  /\ Known
  /\ \E s \in OnDisk : Read(s) /\ s.extended
  /\ Comes(w, [Idle EXCEPT !.pc = "end", !.kind = "end"])

(* What complete_extended_session writes.                                  *)
Ended(s) == [s EXCEPT !.complete = TRUE, !.extended = FALSE, !.guide = FALSE,
                      !.last = None, !.status = "completed"]

EndExtension(w) ==
  /\ At(w, "end")
  /\ \E s \in OnDisk : Store(Ended(s))
  /\ work' = [work EXCEPT ![w] = Idle]
  /\ UNCHANGED <<overlaps, failures>>

MarkGenerating(w) ==
  /\ At(w, "mark")
  /\ \E s \in OnDisk : Store([s EXCEPT !.status = "generating"])
  /\ Go(w, "begin")
  /\ UNCHANGED <<overlaps, failures>>

-----------------------------------------------------------------------------
(* The graph *)

(* Fault: extensions are not counted.                                      *)
UncountedStart(s, old) ==
  [s EXCEPT !.extended = TRUE, !.complete = FALSE, !.turns = 0, !.satisfied = {},
            !.times = NoAttempts, !.judged = FALSE, !.last = None, !.guide = FALSE]

(* _build_extension_start_state, from what the request read.               *)
ExtensionStart(s, old) ==
  [s EXCEPT !.extended = TRUE, !.complete = FALSE, !.count = old.count + 1, !.turns = 0,
            !.satisfied = {}, !.times = NoAttempts, !.judged = FALSE,
            !.last = None, !.guide = FALSE]

(* A node has run: its copy becomes the newest checkpoint, written while
   the next node runs already (durability "async").                        *)
Step(w, next, s) ==
  /\ work' = [work EXCEPT ![w].pc = next, ![w].state = s]
  /\ saved' = s /\ prev' = saved
  /\ UNCHANGED <<overlaps, failures>>

(* A new session's input is all of its state, the status "completed" too;
   only what has been said meanwhile is kept.                              *)
Unread ==
  IF \E s \in OnDisk : s.counted \/ s.behind > 0 THEN 1..MaxSaid ELSE {0}

(* The newest checkpoint with the request's input.                         *)
Begin(w) ==
  LET r == work[w]
      input(s) == IF r.extend THEN ExtensionStart(s, r.state) ELSE s
  IN
  /\ At(w, "begin")
  /\ \/ r.kind = "create" /\ \E n \in Unread : Step(w, "router", [InitialState EXCEPT !.behind = n])
     \/ /\ r.kind = "chat"
        /\ \E s \in OnDisk : Step(w, "router", [input(s) EXCEPT !.behind = @ + 1])
     \/ r.kind = "extend" /\ \E s \in OnDisk : Step(w, "router", input(s))

(* The first question, and an extension nobody has said anything to yet,
   need no analysis.                                                       *)
Router(w) ==
  /\ At(w, "router")
  /\ LET s == work[w].state
         first == ~s.counted /\ s.behind = 0
     IN IF first \/ (s.extended /\ s.behind = 0)
        THEN Step(w, "question_generator", s)
        ELSE Step(w, IF work[w].files THEN "file_processor" ELSE "retriever",
                  IF s.behind > 0 THEN [s EXCEPT !.counted = TRUE, !.behind = @ - 1] ELSE s)

(* Unreadable files and a failing search leave a note, never an error.     *)
FileProcessor(w) == At(w, "file_processor") /\ Step(w, "retriever", work[w].state)

Retriever(w) == At(w, "retriever") /\ Step(w, "analyst", work[w].state)

(* Fault: a stage is over one question early.                              *)
StageAlmostComplete(s) == s.used + 1 >= FixedTotal[s.stage]

(* _is_stage_complete: all its questions were asked.                       *)
StageComplete(s) == s.used >= FixedTotal[s.stage]

RegularAnalyst(w) ==
  LET s == work[w].state
      over == [s EXCEPT !.done = TRUE]
  IN
  /\ At(w, "analyst") /\ ~s.extended
  /\ \/ ~StageComplete(s) /\ Step(w, "question_generator", [s EXCEPT !.done = FALSE])
     \/ /\ StageComplete(s) /\ s.stage < 4
        /\ Step(w, "question_generator", [s EXCEPT !.stage = @ + 1, !.used = 0, !.done = FALSE])
     \/ /\ StageComplete(s) /\ s.stage = 4 /\ s.count < MaxExtensions
        /\ Step(w, "question_generator", ExtensionStart(over, s))
     \/ /\ StageComplete(s) /\ s.stage = 4 /\ s.count >= MaxExtensions
        /\ Step(w, "finish", [over EXCEPT !.complete = TRUE])

AllSatisfied(s) == s.satisfied = 1..Targets

(* Each target is asked about twice at most, all of them once before any
   is asked about again.                                                   *)
Askable(s, n) == {i \in (1..Targets) \ s.satisfied : s.times[i] = n}

NextTarget(s) ==
  LET first(S) == CHOOSE i \in S : \A j \in S : i <= j IN
  IF Askable(s, 0) # {} THEN first(Askable(s, 0))
  ELSE IF Askable(s, 1) # {} THEN first(Askable(s, 1)) ELSE None

(* wants: the user would like to stop; enough: his answer settles the last
   target.  Neither, when the model fails.                                 *)
ExtendedAnalyst(w) ==
  /\ At(w, "analyst") /\ work[w].state.extended
  /\ \E wants, enough \in BOOLEAN :
       LET old == work[w].state
           s == IF enough /\ old.last # None
                THEN [old EXCEPT !.satisfied = @ \cup {old.last}] ELSE old
       IN \/ wants /\ Step(w, "question_generator", [s EXCEPT !.complete = FALSE, !.guide = TRUE])
          \/ /\ ~wants
             /\ s.turns >= MaxTurns \/ AllSatisfied(s) \/ NextTarget(s) = None
             /\ Step(w, "finish", [s EXCEPT !.complete = TRUE, !.extended = FALSE])
          \/ /\ ~wants
             /\ s.turns < MaxTurns /\ ~AllSatisfied(s) /\ NextTarget(s) # None
             /\ Step(w, "question_generator", [s EXCEPT !.complete = FALSE])

(* The node answers with a message.                                        *)
Say(w, s) ==
  /\ work' = [work EXCEPT ![w].pc = "finish", ![w].state = s, ![w].spoke = TRUE]
  /\ saved' = s /\ prev' = saved
  /\ UNCHANGED <<overlaps, failures>>

(* The next fixed question, the first one in the session's own request.    *)
FixedQuestion(w) ==
  LET s == work[w].state IN
  /\ At(w, "question_generator") /\ ~s.extended
  /\ \/ ~s.counted /\ Say(w, [s EXCEPT !.used = 1, !.asked = Append(@, <<s.stage, 1>>)])
     \/ /\ s.counted /\ s.used < FixedTotal[s.stage]
        /\ Say(w, [s EXCEPT !.used = @ + 1, !.asked = Append(@, <<s.stage, s.used + 1>>)])
     \/ /\ s.counted /\ s.used >= FixedTotal[s.stage]
        /\ Say(w, [s EXCEPT !.asked = Append(@, Lost)])

EndGuide(w) ==
  LET s == work[w].state IN
  /\ At(w, "question_generator") /\ s.extended /\ s.guide
  /\ Say(w, [s EXCEPT !.complete = FALSE, !.guide = FALSE])

(* Before the first question of an extension the answers so far are judged. *)
Judged(s) == IF s.judged THEN {s.satisfied} ELSE SUBSET (1..Targets)

ExtendedQuestion(w) ==
  LET old == work[w].state IN
  /\ At(w, "question_generator") /\ old.extended /\ ~old.guide
  /\ \E known \in Judged(old) :
       LET s == [old EXCEPT !.satisfied = known, !.judged = TRUE]
           t == NextTarget(s)
       IN IF AllSatisfied(s) \/ s.turns >= MaxTurns \/ t = None
          THEN Say(w, [s EXCEPT !.extended = FALSE, !.complete = TRUE])
          ELSE Say(w, [s EXCEPT !.times[t] = @ + 1, !.last = t, !.turns = @ + 1])

(* A request's own checkpoints are on disk when its graph is over.         *)
Newest(w) == IF saved = work[w].state THEN {saved} ELSE OnDisk

(* The status follows, except for the chat and extend calls that do not
   stream.                                                                 *)
Finish(w) ==
  /\ At(w, "finish")
  /\ \E s \in Newest(w) :
       IF work[w].stream \/ work[w].kind = "create"
       THEN Store([s EXCEPT !.status = "completed"]) ELSE Read(s)
  /\ work' = [work EXCEPT ![w] = Idle]
  /\ UNCHANGED <<overlaps, failures>>

-----------------------------------------------------------------------------
(* Failures *)

Running == {"mark", "begin", "router", "file_processor", "retriever", "analyst",
            "question_generator", "finish"}

(* An exception, or a client that leaves while the stream waits: the status
   is set to failed, if that can be saved.                                 *)
Fails(w) ==
  /\ failures < MaxFailures /\ work[w].pc \in Running
  /\ \E s \in {saved, prev} :
       \/ Store(s)
       \/ /\ work[w].stream \/ work[w].kind = "create"
          /\ Store([(IF s = None THEN InitialState ELSE s) EXCEPT !.status = "failed"])
  /\ work' = [work EXCEPT ![w] = Idle]
  /\ failures' = failures + 1
  /\ UNCHANGED overlaps

(* A client that leaves during a yield (GeneratorExit), or a crash: nobody
   sets a status.                                                          *)
Vanishes(w) ==
  /\ failures < MaxFailures /\ work[w].pc \in Running
  /\ \E s \in {saved, prev} : Store(s)
  /\ work' = [work EXCEPT ![w] = Idle]
  /\ failures' = failures + 1
  /\ UNCHANGED overlaps

Node(w) ==
  \/ Router(w)
  \/ FileProcessor(w)
  \/ Retriever(w)
  \/ RegularAnalyst(w)
  \/ ExtendedAnalyst(w)
  \/ FixedQuestion(w)
  \/ EndGuide(w)
  \/ ExtendedQuestion(w)

Next ==
  \E w \in Worker :
    \/ \E stream \in BOOLEAN : CreateSession(w, stream) \/ Extend(w, stream)
    \/ \E stream, files \in BOOLEAN : Chat(w, stream, files)
    \/ AskToEnd(w)
    \/ EndExtension(w)
    \/ MarkGenerating(w)
    \/ Begin(w)
    \/ Node(w)
    \/ Finish(w)
    \/ Fails(w)
    \/ Vanishes(w)

Spec == Init /\ [][Next]_vars

-----------------------------------------------------------------------------
(* Properties *)

Session == IF saved = None THEN {} ELSE {saved}

(* All fixed questions, in their order.                                    *)
Script ==
  LET stage(n) == [i \in 1..FixedTotal[n] |-> <<n, i>>]
  IN stage(1) \o stage(2) \o stage(3) \o stage(4)

(* Whatever fails in between, and however many requests are in flight, the
   fixed questions of a session come one by one, none is skipped or asked
   twice, and nothing is ever asked for want of a question.  As long as no
   request comes while another is being answered, no extension and no
   completion comes before the last of them (analyst.py _is_stage_complete,
   question_generator.py run).                                             *)
QuestionsInOrder ==
  \A s \in Session :
    /\ s.asked = SubSeq(Script, 1, Len(s.asked))
    /\ overlaps = 0 /\ (s.extended \/ s.complete) => s.asked = Script /\ s.done

(* A user whose requests go on being answered, and who does not go on asking
   to stop, gets to the end of the interview and its extensions for good.
   No fairness is assumed: requests that are not answered are no answer.   *)
InterviewEnds ==
  /\ []<><<\E w \in Worker : Finish(w)>>_vars
  /\ <>[](\A s \in Session : ~s.guide)
  => <>[](saved # None /\ saved.complete)
=============================================================================
