------------------------------ MODULE Console ------------------------------
(***************************************************************************)
(* The console of the lifecycle manager: one goroutine prints the messages *)
(* of msgQueue (processOutputMessage), one reads the lines the user types  *)
(* (watchInputs), and any goroutine may ask a question (Prompt): the       *)
(* transfers that find their destination taken, one at a time under the    *)
(* lock of the overwritePrompter, and the progress loop before it cancels  *)
(* a job whose enumeration goes on (CookedCopyCmdArgs.Cancel).             *)
(*                                                                         *)
(* Text or JSON output, standard input watched, cancel from it enabled;    *)
(* msgQueue and inputQueue, which hold a thousand entries, never fill, and *)
(* messages that are only printed (information, progress) are left out.    *)
(***************************************************************************)
EXTENDS Integers, Sequences, FiniteSets

CONSTANTS Askers,       \* transfers whose destination exists
          TypeOf,       \* their entity types: files, folders
          LinesCap      \* bound: lines a hasty user types, and signals

VARIABLES polite,       \* the user answers shown questions and types no more
          typed,        \* standard input: lines typed that watchInputs has not read
          watcher,      \* watchInputs: where it is, and the line it has
          lines, inputQueue, msgQueue,
          shown,        \* the asker whose answer processOutputMessage waits for
          prompt,       \* where each asker is in Prompt
          reply,        \* expectedInputChannel of each
          lock, saved, decided, \* overwritePrompter
          cancelChan, loop, enumerated, cancelled, exited,
          perf          \* messageHandler: its err, and lastPerfAdjustTime

userVars == <<polite, lines, typed>>
questionVars == <<prompt, reply>>
overwriteVars == <<lock, saved, decided>>
jobLoopVars == <<cancelChan, loop, enumerated, cancelled, exited>>
consoleVars == <<userVars, watcher, inputQueue, msgQueue, shown, questionVars,
                 overwriteVars, jobLoopVars, perf>>

Loop == "progress loop"
Everyone == Askers \cup {Loop}
ASSUME ConsoleAssumption == {"free", Loop} \cap Askers = {}
Types == {TypeOf[a] : a \in Askers}
Answers == {"yes", "no", "yes for all", "no for all"}
Message(type, from) == [type |-> type, from |-> from]
NoLine == [pc |-> "read", text |-> "", to |-> "none", late |-> FALSE, at |-> "none"]

ConsoleInit ==
    /\ polite \in BOOLEAN /\ lines = 0 /\ typed = <<>>
    /\ watcher = NoLine /\ inputQueue = <<>> /\ msgQueue = <<>>
    /\ shown = "none"
    /\ prompt = [a \in Everyone |-> "no"] /\ reply = [a \in Everyone |-> ""]
    /\ lock = "free" /\ saved = [y \in Types |-> "ask"]
    /\ decided = [a \in Askers |-> "no"]
    /\ cancelChan = 0 /\ loop = "select" /\ enumerated = FALSE
    /\ cancelled = FALSE /\ exited = FALSE
    /\ perf = [err |-> FALSE, recent |-> FALSE, applied |-> 0]

(***************************************************************************)
(* Prompt: the question is put in msgQueue; then the asker offers to       *)
(* watchInputs, on a channel without buffer, that the next line be taken   *)
(* as an answer; then it waits for its answer.                             *)
(***************************************************************************)
Ask(a) ==
    /\ prompt' = [prompt EXCEPT ![a] = "queued"]
    /\ msgQueue' = Append(msgQueue, Message("prompt", a))

OfferToWait(a) ==
    /\ prompt[a] = "queued"
    /\ prompt' = [prompt EXCEPT ![a] = "offering"]
    /\ UNCHANGED <<userVars, watcher, inputQueue, msgQueue, shown, reply,
                   overwriteVars, jobLoopVars, perf>>

Answered(a) == prompt[a] = "waiting" /\ reply[a] # ""
Forget(a) ==
    /\ prompt' = [prompt EXCEPT ![a] = "no"]
    /\ reply' = [reply EXCEPT ![a] = ""]

(* ShouldOverwrite, of the file and the folder transfers.                  *)
ShouldOverwrite(a) ==
    /\ lock = "free" /\ decided[a] = "no" /\ ~cancelled
    /\ IF saved[TypeOf[a]] = "ask"
       THEN lock' = a /\ Ask(a) /\ UNCHANGED decided
       ELSE /\ decided' = [decided EXCEPT ![a] = saved[TypeOf[a]]]
            /\ UNCHANGED <<lock, prompt, msgQueue>>
    /\ UNCHANGED <<userVars, watcher, inputQueue, shown, reply, saved,
                   jobLoopVars, perf>>

\* Mutant: the lock is not released after an answer for all.
ConfirmOverwriteKeepingLock(a) ==
    /\ a \in Askers /\ Answered(a)
    /\ lock' = IF reply[a] \in {"yes for all", "no for all"} THEN lock ELSE "free"
    /\ decided' = [decided EXCEPT ![a] = IF reply[a] \in {"yes", "yes for all"}
                                         THEN "overwrite" ELSE "skip"]
    /\ saved' = IF reply[a] \in {"yes for all", "no for all"}
                THEN [saved EXCEPT ![TypeOf[a]] = decided'[a]] ELSE saved
    /\ Forget(a)
    /\ UNCHANGED <<userVars, watcher, inputQueue, msgQueue, shown, jobLoopVars, perf>>

ConfirmOverwrite(a) ==
    /\ a \in Askers /\ Answered(a)
    /\ lock' = "free"
    /\ decided' = [decided EXCEPT ![a] = IF reply[a] \in {"yes", "yes for all"}
                                         THEN "overwrite" ELSE "skip"]
    /\ saved' = IF reply[a] \in {"yes for all", "no for all"}
                THEN [saved EXCEPT ![TypeOf[a]] = decided'[a]] ELSE saved
    /\ Forget(a)
    /\ UNCHANGED <<userVars, watcher, inputQueue, msgQueue, shown, jobLoopVars, perf>>

(***************************************************************************)
(* The user types a line, which stays in standard input until watchInputs  *)
(* reads it: it may be behind with that, as it waits for room in           *)
(* cancelChannel, and for messageHandler to be done with a request. The    *)
(* line of a hasty user may also ask to cancel, or for an adjustment. to   *)
(* is the question that is shown when the line is typed.                   *)
(***************************************************************************)
Type(text) ==
    /\ typed' = Append(typed, [text |-> text, to |-> shown])
    /\ UNCHANGED <<polite, watcher, inputQueue, msgQueue, shown, questionVars,
                   overwriteVars, jobLoopVars, perf>>

UserAnswers ==
    /\ polite /\ shown # "none"
    /\ typed = <<>> /\ watcher.pc = "read" /\ inputQueue = <<>>
    /\ \E text \in Answers : Type(text)
    /\ UNCHANGED lines

UserTypes ==
    /\ ~polite /\ lines < LinesCap
    /\ lines' = lines + 1
    /\ \E text \in Answers \cup {"cancel", "good request", "bad request"} : Type(text)

\* The signal, which signal.Notify drops when one waits already.
Interrupt ==
    /\ lines < LinesCap /\ lines' = lines + 1
    /\ cancelChan' = 1
    /\ UNCHANGED <<polite, typed, watcher, inputQueue, msgQueue, shown, questionVars,
                   overwriteVars, loop, enumerated, cancelled, exited, perf>>

(***************************************************************************)
(* watchInputs. The time of a line (timeReceived) is that at which it is   *)
(* read: at is the question that is shown then, and late says whether that *)
(* time is before that of the question processOutputMessage is at. What is *)
(* read is an answer when somebody offers to wait for one, or a message.   *)
(***************************************************************************)
ReadLine ==
    /\ watcher.pc = "read" /\ typed # <<>>
    /\ watcher' = [pc |-> "line", text |-> Head(typed).text, to |-> Head(typed).to,
                   late |-> FALSE, at |-> shown]
    /\ typed' = Tail(typed)
    /\ UNCHANGED <<polite, lines, inputQueue, msgQueue, shown, questionVars,
                   overwriteVars, jobLoopVars, perf>>

TakeAsAnswer(a) ==
    /\ watcher.pc = "line" /\ prompt[a] = "offering"
    /\ prompt' = [prompt EXCEPT ![a] = "waiting"]
    /\ inputQueue' = Append(inputQueue, watcher)
    /\ watcher' = NoLine
    /\ UNCHANGED <<userVars, msgQueue, shown, reply, overwriteVars, jobLoopVars, perf>>

TakeAsMessage ==
    /\ watcher.pc = "line" /\ \A a \in Everyone : prompt[a] # "offering"
    /\ watcher' = CASE watcher.text \in Answers -> NoLine
                    [] watcher.text = "cancel" -> [watcher EXCEPT !.pc = "cancel"]
                    [] OTHER -> [watcher EXCEPT !.pc = "request"]
    /\ UNCHANGED <<userVars, inputQueue, msgQueue, shown, questionVars,
                   overwriteVars, jobLoopVars, perf>>

\* cancelChannel holds one signal.
SendCancel ==
    /\ watcher.pc = "cancel" /\ cancelChan < 1
    /\ cancelChan' = cancelChan + 1
    /\ watcher' = NoLine
    /\ UNCHANGED <<userVars, inputQueue, msgQueue, shown, questionVars,
                   overwriteVars, loop, enumerated, cancelled, exited, perf>>

(***************************************************************************)
(* messageHandler of jobsAdmin, to which watchInputs hands the request and *)
(* which it waits for. err is declared outside of its loop.                *)
(***************************************************************************)
HandleRequest ==
    /\ watcher.pc = "request"
    /\ LET err == perf.err \/ perf.recent \/ watcher.text = "bad request"
       IN  perf' = [perf EXCEPT !.err = err,
                                !.recent = IF err THEN @ ELSE TRUE,
                                !.applied = IF err THEN @ ELSE @ + 1]
    /\ watcher' = NoLine
    /\ UNCHANGED <<userVars, inputQueue, msgQueue, shown, questionVars, overwriteVars, jobLoopVars>>

\* minIntervalBetweenPerfAdjustment is over.
IntervalPasses ==
    /\ perf.recent
    /\ perf' = [perf EXCEPT !.recent = FALSE]
    /\ UNCHANGED <<userVars, watcher, inputQueue, msgQueue, shown, questionVars,
                   overwriteVars, jobLoopVars>>

(***************************************************************************)
(* processOutputMessage: a question holds up all other messages until it   *)
(* has a line that came after it (getInputAfterTime).                      *)
(***************************************************************************)
Late(q) == [i \in DOMAIN q |-> [q[i] EXCEPT !.late = TRUE]]

Show ==
    /\ shown = "none" /\ msgQueue # <<>>
    /\ LET m == Head(msgQueue) IN
          /\ shown' = IF m.type = "prompt" THEN m.from ELSE "none"
          /\ exited' = (m.type = "end")
          /\ IF m.type = "prompt"
             THEN inputQueue' = Late(inputQueue) /\ watcher' = Late(<<watcher>>)[1]
             ELSE UNCHANGED <<inputQueue, watcher>>
    /\ msgQueue' = Tail(msgQueue)
    /\ UNCHANGED <<userVars, questionVars, overwriteVars, cancelChan, loop,
                   enumerated, cancelled, perf>>

\* Mutant: the first line of the queue is the answer, whenever it was typed.
GetInput ==
    /\ shown # "none" /\ inputQueue # <<>>
    /\ reply' = [reply EXCEPT ![shown] = Head(inputQueue).text]
    /\ shown' = "none"
    /\ inputQueue' = Tail(inputQueue)
    /\ UNCHANGED <<userVars, watcher, msgQueue, prompt, overwriteVars, jobLoopVars, perf>>

GetInputAfterTime ==
    /\ shown # "none" /\ inputQueue # <<>>
    /\ IF Head(inputQueue).late THEN UNCHANGED <<reply, shown>>
       ELSE /\ reply' = [reply EXCEPT ![shown] = Head(inputQueue).text]
            /\ shown' = "none"
    /\ inputQueue' = Tail(inputQueue)
    /\ UNCHANGED <<userVars, watcher, msgQueue, prompt, overwriteVars, jobLoopVars, perf>>

(***************************************************************************)
(* The progress loop (InitiateProgressReporting) with Cancel and           *)
(* ReportProgressOrExit of the copy command.                               *)
(***************************************************************************)
LoopCancels ==
    /\ loop = "select" /\ cancelChan > 0
    /\ cancelChan' = cancelChan - 1
    /\ IF enumerated
       THEN cancelled' = TRUE /\ UNCHANGED <<loop, prompt, msgQueue>>
       ELSE loop' = "asking" /\ Ask(Loop) /\ UNCHANGED cancelled
    /\ UNCHANGED <<userVars, watcher, inputQueue, shown, reply, overwriteVars,
                   enumerated, exited, perf>>

LoopIsAnswered ==
    /\ loop = "asking" /\ Answered(Loop)
    /\ loop' = "select"
    /\ cancelled' = (cancelled \/ reply[Loop] = "yes")
    /\ Forget(Loop)
    /\ UNCHANGED <<userVars, watcher, inputQueue, msgQueue, shown, overwriteVars,
                   cancelChan, enumerated, exited, perf>>

JobIsOver == \/ \A a \in Askers : decided[a] # "no"
             \/ cancelled /\ \A a \in Askers : prompt[a] = "no"

ReportProgressOrExit ==
    /\ loop = "select" /\ enumerated /\ JobIsOver
    /\ loop' = "gone" /\ msgQueue' = Append(msgQueue, Message("end", Loop))
    /\ UNCHANGED <<userVars, watcher, inputQueue, shown, questionVars, overwriteVars,
                   cancelChan, enumerated, cancelled, exited, perf>>

\* The enumeration ends by itself; a cancelled job orders no more parts.
EnumerationEnds ==
    /\ ~enumerated
    /\ enumerated' = TRUE
    /\ UNCHANGED <<userVars, watcher, inputQueue, msgQueue, shown, questionVars,
                   overwriteVars, cancelChan, loop, cancelled, exited, perf>>

(***************************************************************************)
(* A polite user answers what is shown, watchInputs runs on, and so does   *)
(* one of the other goroutines, which is less than each of them does.      *)
(***************************************************************************)
WatcherStep ==
    \/ \E a \in Everyone : TakeAsAnswer(a)
    \/ ReadLine \/ TakeAsMessage \/ SendCancel \/ HandleRequest

OtherStep ==
    \/ \E a \in Everyone : OfferToWait(a)
    \/ \E a \in Askers : ShouldOverwrite(a) \/ ConfirmOverwrite(a)
    \/ Show \/ GetInputAfterTime
    \/ LoopCancels \/ LoopIsAnswered \/ ReportProgressOrExit \/ EnumerationEnds

ConsoleNext ==
    /\ ~exited
    /\ \/ UserAnswers \/ UserTypes \/ Interrupt \/ IntervalPasses
       \/ WatcherStep \/ OtherStep

ConsoleSpec == ConsoleInit /\ [][ConsoleNext]_consoleVars

ConsoleFairness ==
    /\ WF_consoleVars(~exited /\ UserAnswers)
    /\ WF_consoleVars(~exited /\ WatcherStep)
    /\ WF_consoleVars(~exited /\ OtherStep)
----------------------------------------------------------------------------
ForAllIsForAll ==
    \A a \in Askers : saved[TypeOf[a]] # "ask" => prompt[a] = "no"

(***************************************************************************)
(* Nobody is given an answer that was read while another question, or      *)
(* none, was shown: getInputAfterTime throws away what came before. It is  *)
(* one typed for that question if the user is polite; a line typed ahead   *)
(* that watchInputs is late to read is taken for the answer to what is     *)
(* shown by then (see the README).  And once the user has answered for all *)
(* files, or all folders, no question about one is on its way, in the      *)
(* queue or shown: ShouldOverwrite checks and asks under one lock.         *)
(***************************************************************************)
AnswersFitTheirQuestions ==
    /\ []ForAllIsForAll
    /\ [][\A a \in Everyone : reply[a] = "" /\ reply'[a] # "" =>
             /\ Head(inputQueue).at = a
             /\ polite => Head(inputQueue).to = a]_consoleVars

(***************************************************************************)
(* With a user who answers what is shown, and only that, the program comes *)
(* to its end, whatever questions were asked and by whom: no question is   *)
(* left without an answer, none keeps the last message from being printed. *)
(***************************************************************************)
PoliteUsersSeeTheEnd == polite => <>exited
============================================================================
