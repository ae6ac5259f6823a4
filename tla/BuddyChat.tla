----------------------------- MODULE BuddyChat -----------------------------
(***************************************************************************)
(* The AI Buddy conversation of one tab (useBuddyConversation): questions  *)
(* are asked one at a time, a failed one can be tried again, and clearing  *)
(* the conversation does not stop the request in flight: its answer is     *)
(* dropped by the generation counter when it arrives. Another page of the  *)
(* tab starts from what sessionStorage has, and signing out empties it.    *)
(***************************************************************************)
EXTENDS Naturals, Sequences, SequencesExt

CONSTANTS
    MaxQuestions,   \* bound: questions a person asks
    MaxStored       \* MAX_STORED

ASSUME StoredAssumption == MaxStored \in Nat
ASSUME QuestionsAssumption == MaxQuestions \in Nat

VARIABLES
    messages,
    asked,          \* how many questions were asked, to tell them apart
    requests,       \* the calls of aiChat in flight
    generation,
    loading,
    saved           \* sessionStorage

chatVars == <<messages, asked, requests, generation, loading, saved>>

Message == [role : {"user", "assistant"}, question : 1..MaxQuestions, failed : BOOLEAN]

ChatTypeOK ==
    /\ messages \in Seq(Message)
    /\ asked \in 0..MaxQuestions
    /\ requests \subseteq [question : 1..MaxQuestions, generation : Nat]
    /\ generation \in Nat
    /\ loading \in BOOLEAN
    /\ saved \in Seq(Message)

ChatInit ==
    /\ messages = <<>> /\ saved = <<>>
    /\ asked = 0
    /\ requests = {}
    /\ generation = 0
    /\ loading = FALSE

------------------------------------------------------------------------------

Question(n) == [role |-> "user", question |-> n, failed |-> FALSE]
Answer(n) == [role |-> "assistant", question |-> n, failed |-> FALSE]
Failure(n) == [role |-> "assistant", question |-> n, failed |-> TRUE]

\* What is kept of a conversation for the next page: the last answers and
\* questions, and no failure.
Kept(conversation) ==
    LET sound[n \in 0..Len(conversation)] ==
            IF n = 0 THEN <<>>
            ELSE IF conversation[n].failed THEN sound[n - 1]
            ELSE Append(sound[n - 1], conversation[n])
        all == sound[Len(conversation)]
        Later(a, b) == IF a > b THEN a ELSE b
    IN  SubSeq(all, Later(1, Len(all) - MaxStored + 1), Len(all))

Show(conversation) == messages' = conversation /\ saved' = Kept(conversation)

Ask(n) ==
    /\ requests' = requests \cup {[question |-> n, generation |-> generation]}
    /\ loading' = TRUE

\* send: nothing while an answer is awaited.
SendQuestion ==
    /\ ~loading
    /\ asked < MaxQuestions
    /\ asked' = asked + 1
    /\ Show(Append(messages, Question(asked + 1)))
    /\ Ask(asked + 1)
    /\ UNCHANGED generation

\* retry: the failure is taken away and its question asked again.
Retry ==
    /\ ~loading
    /\ messages # <<>> /\ Last(messages).failed
    /\ LET previous == Front(messages)
       IN  /\ Show(previous)
           /\ IF previous # <<>> /\ Last(previous).role = "user"
              THEN Ask(Last(previous).question)
              ELSE UNCHANGED <<requests, loading>>
    /\ UNCHANGED <<asked, generation>>

\* The question of the request was not cleared away since.
Current(r) == r.generation = generation

\* An answer, or the failure to get one.
Reply(r, message) ==
    /\ requests' = requests \ {r}
    /\ IF Current(r)
       THEN Show(Append(messages, message)) /\ loading' = FALSE
       ELSE UNCHANGED <<messages, saved, loading>>
    /\ UNCHANGED <<asked, generation>>

Replied == \E r \in requests : Reply(r, Answer(r.question)) \/ Reply(r, Failure(r.question))

\* clear.
ClearConversation ==
    /\ messages # <<>>
    /\ generation' = generation + 1
    /\ loading' = FALSE
    /\ messages' = <<>> /\ saved' = <<>>
    /\ UNCHANGED <<asked, requests>>

\* Another page of the tab: the answers of the last one are not heard any more.
NextPage ==
    /\ messages' = saved
    /\ saved' = Kept(saved)
    /\ requests' = {} /\ loading' = FALSE /\ generation' = 0
    /\ UNCHANGED asked

\* clearStaffSession, and the page of whoever signs in next.
SignOutOfChat ==
    /\ messages' = <<>> /\ saved' = <<>>
    /\ requests' = {} /\ loading' = FALSE /\ generation' = 0
    /\ UNCHANGED asked

ChatNext == SendQuestion \/ Retry \/ Replied \/ ClearConversation \/ NextPage \/ SignOutOfChat

------------------------------------------------------------------------------

\* While the AI Buddy is said to be thinking, an answer to this conversation is
\* awaited: clearing it, or an answer that is not heard, never leaves it waiting.
AnswerIsAwaited == loading => \E r \in requests : Current(r)

\* Every answer and every failure follows its own question (the first message
\* apart: its question may be what no longer was kept); so no question is answered
\* after the conversation it was asked in was cleared.
AnswersFollowQuestions ==
    \A i \in 2..Len(messages) :
        messages[i].role = "assistant" => messages[i - 1] = Question(messages[i].question)
=============================================================================
