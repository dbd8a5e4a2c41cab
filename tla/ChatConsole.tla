---------------------------- MODULE ChatConsole ----------------------------
(***************************************************************************)
(* The command line chat of apps/cli/src: the questioner that turns lines  *)
(* of the terminal into answers, runChatLoop and handleChatInput, and the  *)
(* approval prompt of InteractiveApprovalPolicy (packages/permissions),    *)
(* which asks through the same questioner while the loop is in the middle  *)
(* of a provider call.                                                     *)
(*                                                                         *)
(* The person at the terminal types lines, or closes the input, whenever   *)
(* they like.  question() hands out a promise: answer is what it was       *)
(* settled with, and waiting says that it is in the list of waiters.  The  *)
(* loop asks one question at a time, so the list has one element at most.  *)
(*                                                                         *)
(* Left out: what is printed and logged, contents of messages, of which    *)
(* the number of the line is kept, the audit of the provider call.         *)
(***************************************************************************)
EXTENDS Naturals, Sequences

CONSTANTS
  MaxLines, \* bound on the lines typed
  Closed    \* the rejection of a question whose input is closed

Words == {"text", "yes", "no", "exit", "blank"}
NoAnswer == "none"

ASSUME ConsoleAssumption == MaxLines \in Nat /\ Closed \notin Words \cup {NoAnswer}

VARIABLES
  pending,  \* pendingLines: lines typed while nobody waited
  waiting,  \* a question is waiting for a line
  answer,   \* what the last question was settled with, until it is looked at
  closed,   \* the input has been closed
  phase,    \* where runChatLoop is
  messages, \* state.messages, by role and number of the line
  typed,    \* history: all lines typed
  used      \* history: the lines handed out, and what was asked for

inputVars   == <<pending, waiting, answer, closed>>
consoleVars == <<inputVars, phase, messages, typed, used>>

ConsoleInit ==
  /\ pending = <<>>
  /\ waiting = FALSE
  /\ answer = NoAnswer
  /\ closed = FALSE
  /\ phase = "asking"
  /\ messages = <<>>
  /\ typed = <<>>
  /\ used = <<>>
-----------------------------------------------------------------------------
(* The terminal *)

\* The line event: a waiter gets the line, or it is kept.
Type(line) ==
  /\ ~closed /\ Len(typed) < MaxLines
  /\ typed' = Append(typed, line)
  /\ IF waiting
     THEN answer' = line /\ waiting' = FALSE /\ UNCHANGED pending
     ELSE pending' = Append(pending, line) /\ UNCHANGED <<answer, waiting>>
  /\ UNCHANGED <<closed, phase, messages, used>>

\* The close event rejects whoever waits; lines that were kept stay.
CloseInput ==
  /\ ~closed
  /\ closed' = TRUE
  /\ IF waiting THEN answer' = Closed /\ waiting' = FALSE ELSE UNCHANGED <<answer, waiting>>
  /\ UNCHANGED <<pending, phase, messages, typed, used>>

\* Bug (mutation runs only): the line typed last is taken first.
BugQuestionTakesLast ==
  IF pending # <<>>
  THEN /\ answer' = pending[Len(pending)]
       /\ pending' = SubSeq(pending, 1, Len(pending) - 1)
       /\ UNCHANGED waiting
  ELSE /\ IF closed THEN answer' = Closed /\ UNCHANGED waiting ELSE waiting' = TRUE /\ UNCHANGED answer
       /\ UNCHANGED pending

\* question(): a line that was kept, a rejection, or a place among the waiters.
Question ==
  IF pending # <<>>
  THEN answer' = Head(pending) /\ pending' = Tail(pending) /\ UNCHANGED waiting
  ELSE /\ IF closed THEN answer' = Closed /\ UNCHANGED waiting ELSE waiting' = TRUE /\ UNCHANGED answer
       /\ UNCHANGED pending

\* The continuation of the await on a question.
Resume(from, purpose) ==
  /\ phase = from
  /\ answer # NoAnswer
  /\ answer' = NoAnswer
  /\ used' = IF answer = Closed THEN used ELSE Append(used, [line |-> answer, for |-> purpose])
-----------------------------------------------------------------------------
(* runChatLoop *)

AskForInput ==
  /\ phase = "asking"
  /\ phase' = "reading"
  /\ Question
  /\ UNCHANGED <<closed, messages, typed, used>>

\* Bug (mutation runs only): a rejected question is asked again.
BugReadInputContinues ==
  /\ Resume("reading", "input")
  /\ phase' = CASE answer = "exit" -> "ended"
                [] answer \in {Closed, "blank"} -> "asking"
                [] OTHER -> "prompting"
  /\ closed' = (closed \/ phase' = "ended")
  /\ UNCHANGED <<pending, waiting, messages, typed>>

\* Leaving the loop closes the questioner.
ReadInput ==
  /\ Resume("reading", "input")
  /\ phase' = CASE answer \in {Closed, "exit"} -> "ended"
                [] answer = "blank" -> "asking"
                [] OTHER -> "prompting"
  /\ closed' = (closed \/ phase' = "ended")
  /\ UNCHANGED <<pending, waiting, messages, typed>>

\* chatResult asks the policy, and the policy the person.
AskForApproval ==
  /\ phase = "prompting"
  /\ phase' = "approving"
  /\ Question
  /\ UNCHANGED <<closed, messages, typed, used>>

\* Anything but a yes is a denial, and a rejected prompt a failed call.
ReadApproval ==
  /\ Resume("approving", "approval")
  /\ phase' = IF answer = "yes" THEN "calling" ELSE "declined"
  /\ UNCHANGED <<pending, waiting, closed, messages, typed>>

\* Either is audited and shown, and the loop goes on.
Decline ==
  /\ phase = "declined"
  /\ phase' = "asking"
  /\ UNCHANGED <<inputVars, messages, typed, used>>

CurrentLine == Len(used) - 1

\* Bug (mutation runs only): the user's message is kept when the call fails.
BugProviderAnswersKeepsQuestion ==
  /\ phase = "calling"
  /\ phase' = "asking"
  /\ \E n \in 1..2 :
       messages' = messages \o
         SubSeq(<< [role |-> "user", of |-> CurrentLine], [role |-> "assistant", of |-> CurrentLine] >>, 1, n)
  /\ UNCHANGED <<inputVars, typed, used>>

\* The exchange is kept if the call succeeds.
ProviderAnswers ==
  /\ phase = "calling"
  /\ phase' = "asking"
  /\ \/ messages' = messages \o << [role |-> "user", of |-> CurrentLine],
                                   [role |-> "assistant", of |-> CurrentLine] >>
     \/ UNCHANGED messages
  /\ UNCHANGED <<inputVars, typed, used>>

\* chatResult rejects when the audit sink throws: the loop ends with that error.
CallRejects ==
  /\ phase \in {"calling", "declined"}
  /\ phase' = "ended"
  /\ closed' = TRUE
  /\ UNCHANGED <<pending, waiting, answer, messages, typed, used>>

Over == phase = "ended" /\ UNCHANGED consoleVars

LoopNext == AskForInput \/ ReadInput \/ AskForApproval \/ ReadApproval \/ Decline

ConsoleNext ==
  \/ \E line \in Words : Type(line)
  \/ CloseInput
  \/ LoopNext
  \/ ProviderAnswers \/ CallRejects
  \/ Over

\* Promise reactions run and providers answer; nobody has to type.
ConsoleSpec ==
  /\ ConsoleInit
  /\ [][ConsoleNext]_consoleVars
  /\ WF_consoleVars(LoopNext)
  /\ WF_consoleVars(ProviderAnswers \/ CallRejects)
-----------------------------------------------------------------------------
(* Properties *)

\* Every line is handed out once, in the order in which it was typed, whether
\* somebody waited for it or not: none is lost between a waiter and the list.
LinesInOrder ==
  LET handed == [k \in DOMAIN used |-> used[k].line]
      inHand == IF answer \in Words THEN <<answer>> ELSE <<>>
  IN typed = handed \o inHand \o pending

\* The messages sent with the next call are whole exchanges, in the order they
\* were typed, and each was approved with a yes that came right after it.
HistoryIsApproved ==
  LET pairs == Len(messages) \div 2 IN
  /\ Len(messages) = 2 * pairs
  /\ \A p \in 1..pairs :
       LET user == messages[2 * p - 1]
           k    == user.of
       IN /\ user.role = "user" /\ messages[2 * p] = [role |-> "assistant", of |-> k]
          /\ used[k].for = "input" /\ used[k].line \notin {"exit", "blank"}
          /\ used[k + 1] = [line |-> "yes", for |-> "approval"]
          /\ p > 1 => messages[2 * p - 2].of < k - 1

\* A closed input ends the chat, wherever the loop is at that time, a pending
\* approval included: no question waits for a line that cannot come.
CloseEndsTheLoop == closed ~> (phase = "ended")
=============================================================================
