------------------------------ MODULE CmdQueue ------------------------------
(***************************************************************************)
(* The command queue of a player: base/living/cmd.c, cmd/delay.c, the part *)
(* of kernel/net/user.c that tells commands from answers, and command() of *)
(* base/player.c.  A command with a delay waits for a call_out; while the  *)
(* queue is not empty every further command waits behind it.  Commands ask *)
(* questions (input_to(), the editor), fail, lose their player's link, and *)
(* leave continuations of themselves in the queue.                         *)
(***************************************************************************)
EXTENDS Integers, Sequences, SequencesExt

CONSTANTS Delays,        \* The delays of cmd/delay.c that occur.
          QueueLength,   \* QUEUELENGTH, in array cells: two for each command.
          AskFails,      \* May a command fail after it asked a question?
          MaxTyped       \* Bound: so many commands are typed or continued.

ASSUME DelaysAssumption == Delays \subseteq Nat
ASSUME QueueLengthAssumption == QueueLength \in Nat
ASSUME AskFailsAssumption == AskFails \in BOOLEAN
ASSUME MaxTypedAssumption == MaxTyped \in Nat

VARIABLES cmd_queue,   \* Commands and continuations that wait.
          timers,      \* The delays of the pending call_outs of next_command().
          status,      \* query_status() of the connection.
          linked,      \* Has the player a connection?
          hasted,      \* LIVE_HASTED.
          typed,       \* How many commands were entered so far: they are numbered.
          ran          \* The number of the command that was run last.

cmdVars == <<cmd_queue, timers, status, linked, hasted, typed, ran>>

Status == {"command", "editor", "input"}

\* A cell of the queue: number, delay, whether it continues a command (wear, remove),
\* whether it was typed past a question with '!'.
Entry == [n : Nat, delay : Nat, special : BOOLEAN, past : BOOLEAN]

CmdState == [queue : Seq(Entry), timers : Seq(Nat), status : Status,
             typed : Nat, ran : Nat]

Current == [queue |-> cmd_queue, timers |-> timers, status |-> status,
            typed |-> typed, ran |-> ran]

Becomes(s) ==
  /\ cmd_queue' = s.queue
  /\ timers' = s.timers
  /\ status' = s.status
  /\ typed' = s.typed
  /\ ran' = s.ran

-----------------------------------------------------------------------------
\* The LPC functions, as operators on a state.

\* stop_cmdqueue(): remove_call_out() finds one pending call_out, if there is one.
StopQueue(s) ==
  [s EXCEPT !.queue = <<>>, !.timers = IF @ = <<>> THEN @ ELSE Tail(@)]

\* Mutant: a command that comes into a queue of others starts a call_out too.
BehindStarts(s, e) ==
  IF 2 * Len(s.queue) > QueueLength THEN s
  ELSE [s EXCEPT !.queue = Append(@, e), !.timers = Append(@, e.delay)]

\* Mutant: the test for a full queue was forgotten.
BehindUnbounded(s, e) == [s EXCEPT !.queue = Append(@, e)]

\* The two ways add_command() adds: into an empty queue, which starts the call_out,
\* and behind others unless the queue is full.
FirstIn(s, e) == [s EXCEPT !.queue = <<e>>, !.timers = Append(@, e.delay)]
Behind(s, e) ==
  IF 2 * Len(s.queue) > QueueLength THEN s ELSE [s EXCEPT !.queue = Append(@, e)]

Enqueue(s, e) == IF s.queue = <<>> THEN FirstIn(s, e) ELSE Behind(s, e)

\* add_command() with an array: a command goes on later, behind what was typed since.
Continue(s) ==
  IF s.typed >= MaxTyped THEN s
  ELSE Enqueue([s EXCEPT !.typed = @ + 1],
               [n |-> s.typed + 1, delay |-> 1, special |-> TRUE, past |-> FALSE])

\* What action() may leave: a question, a continuation, or neither.  A question that
\* waits already is asked no second time, but the editor may be opened over it.
Asked(s) ==
  {[s EXCEPT !.status = st] :
     st \in IF s.status = "command" THEN Status ELSE {s.status, "editor"}}
Acted(s) == Asked(s) \cup {Continue(t) : t \in Asked(s)}

\* Mutant: the queue is not stopped by a question.
PromptedGoesOn(s) == s

\* After a command that succeeded: a question stops the queue.
Prompted(s) == IF s.status = "command" THEN s ELSE StopQueue(s)

\* command() of player.c: set_interactive() fails without a connection; a command
\* that failed or ended in an error does not stop the queue.
Command(s) ==
  IF ~linked THEN {s}
  ELSE {Prompted(t) : t \in Acted(s)} \cup (IF AskFails THEN Acted(s) ELSE {s})

\* One command from the queue: a continuation is called in its object, which may be
\* gone, and may leave a further continuation.
RunEntry(s, e) == IF e.special THEN {s, Continue(s)} ELSE Command(s)

\* Mutant: the call_out is restarted only while more than one command waits.
PoppedStalls(s) ==
  LET rest == Tail(s.queue)
  IN  [s EXCEPT !.queue = rest,
                !.timers = IF Len(rest) < 2 THEN @ ELSE Append(@, rest[1].delay),
                !.ran = s.queue[1].n]

\* next_command(): what is waiting is taken out and the call_out restarted before
\* the command runs.
Popped(s) ==
  LET rest == Tail(s.queue)
  IN  [s EXCEPT !.queue = rest,
                !.timers = IF rest = <<>> THEN @ ELSE Append(@, rest[1].delay),
                !.ran = s.queue[1].n]

\* query_delay() of cmd/delay.c; no object is ever made the timestopper.
QueryDelay(d) == IF hasted THEN d \div 2 ELSE d

\* add_command() with a string other than 'cancel'.
AddCommand(s, e) ==
  IF s.queue # <<>> THEN {Behind(s, e)}
  ELSE IF e.delay < 1 THEN Command([s EXCEPT !.ran = e.n])
  ELSE {FirstIn(s, e)}

-----------------------------------------------------------------------------
CmdInit ==
  /\ cmd_queue = <<>> /\ timers = <<>>
  /\ status = "command" /\ linked = TRUE /\ hasted = FALSE
  /\ typed = 0 /\ ran = 0

\* receive_message(): a line is a command if no question waits, or begins with '!'.
Type(d) ==
  /\ linked /\ typed < MaxTyped
  /\ LET e == [n |-> typed + 1, delay |-> QueryDelay(d), special |-> FALSE,
               past |-> status # "command"]
     IN  \E s \in AddCommand([Current EXCEPT !.typed = @ + 1], e) : Becomes(s)
  /\ UNCHANGED <<linked, hasted>>

\* add_command("cancel"): everything that waits is forgotten, the command itself runs.
TypeCancel ==
  /\ linked /\ typed < MaxTyped
  /\ \E s \in Command([StopQueue(Current) EXCEPT !.typed = typed + 1, !.ran = typed + 1]) :
       Becomes(s)
  /\ UNCHANGED <<linked, hasted>>

\* receive_message(): a line answers the question; what is called may ask another.
\* The editor goes on until it is left, and may have been opened over a question.
Answer ==
  /\ linked /\ status # "command"
  /\ status' \in Status
  /\ UNCHANGED <<cmd_queue, timers, linked, hasted, typed, ran>>

\* next_command(), the call_out.
NextCommand ==
  \E i \in DOMAIN timers :
    LET s == [Current EXCEPT !.timers = RemoveAt(timers, i)]
    IN  /\ IF cmd_queue = <<>> THEN Becomes(s)   \* An index error ends the task.
           ELSE \E t \in RunEntry(Popped(s), cmd_queue[1]) : Becomes(t)
        /\ UNCHANGED <<linked, hasted>>

\* The connection is lost, with the question it waited for, or comes back.
LinkLost ==
  /\ linked /\ linked' = FALSE /\ status' = "command"
  /\ UNCHANGED <<cmd_queue, timers, hasted, typed, ran>>
LinkBack ==
  /\ ~linked /\ linked' = TRUE
  /\ UNCHANGED <<cmd_queue, timers, status, hasted, typed, ran>>

\* A spell begins or ends.
Haste ==
  /\ hasted' = ~hasted
  /\ UNCHANGED <<cmd_queue, timers, status, linked, typed, ran>>

CmdNext ==
  \/ \E d \in Delays : Type(d)
  \/ TypeCancel \/ Answer \/ NextCommand \/ LinkLost \/ LinkBack \/ Haste

\* The driver calls every call_out that is due; players are free to do nothing.
CmdSpec == CmdInit /\ [][CmdNext]_cmdVars /\ WF_cmdVars(NextCommand)

-----------------------------------------------------------------------------
(* Properties *)

\* The queue never holds more than one command over QUEUELENGTH cells, and numbers
\* in it rise.
CmdTypeOK ==
  /\ Current \in CmdState /\ linked \in BOOLEAN /\ hasted \in BOOLEAN
  /\ 2 * Len(cmd_queue) <= QueueLength + 2

\* There is one pending call_out of next_command() as long as a command waits, with
\* the delay of the command that is to run, and none otherwise: a second one would
\* run commands early and then fail on an empty queue, none would leave the player's
\* commands waiting for ever.  add_command(), stop_cmdqueue() and next_command() each
\* change the queue and the call_out in separate steps, and the commands that
\* next_command() runs call the other two.
OneTimer ==
  timers = IF cmd_queue = <<>> THEN <<>> ELSE <<cmd_queue[1].delay>>

\* While a question waits for its answer only commands the player typed past it, and
\* continuations, are waiting to be run: the answer cannot be overtaken by commands
\* that were typed before the question came ("input_to or editor, then stop
\* processing of cmdqueue", player.c).
NotAskedAhead ==
  status # "command" => \A i \in DOMAIN cmd_queue : cmd_queue[i].special \/ cmd_queue[i].past

\* The queue is a waiting line with room for one command more than QUEUELENGTH cells
\* hold: commands run in the order they were let in, none twice, and all that are in
\* the queue run unless it is stopped.
Numbers(q) == [i \in DOMAIN q |-> q[i].n]
Line == INSTANCE WaitingLine WITH
  Room <- QueueLength \div 2 + 1, line <- Numbers(cmd_queue), served <- ran, issued <- typed
ImplementsLine == Line!LineSpec
=============================================================================
