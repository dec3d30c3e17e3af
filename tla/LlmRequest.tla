------------------------------ MODULE LlmRequest ------------------------------
(***************************************************************************)
(* AppManager and one request to the language model: OnLlmRequest takes    *)
(* it, ProcessLlmRequest sends the prompt, polls the history of its        *)
(* session and answers the app, IsHistoryComplete goes down a history.     *)
(* The language model and Stop() are the environment: whether the prompt   *)
(* is accepted, what each poll returns, and when running_ is cleared.      *)
(*                                                                         *)
(* A history is a JSON object with its "result" and "data" objects, theirs *)
(* and so on, each at the path of keys that leads to it and the root at    *)
(* <<>>.  An object has "status" if that is a text and "messages" if they  *)
(* are an array; of a message matter its role and its status.              *)
(***************************************************************************)
EXTENDS Integers, Sequences

CONSTANTS
    MaxPollAttempts,  \* kMaxPollAttempts (30)
    Payloads,         \* requests: [json, msg_id, prompt], a missing text is ""
    Histories         \* what a poll that succeeds may return

Has(j, key) == key \in DOMAIN j

Upto(path, n) == [i \in 1..n |-> path[i]]

IsHistory(h) ==
    /\ <<>> \in DOMAIN h
    /\ \A path \in DOMAIN h :
         /\ path \in Seq({"result", "data"})
         /\ \A n \in 0..Len(path) : Upto(path, n) \in DOMAIN h
         /\ Has(h[path], "messages") =>
              LET messages == h[path].messages
              IN  Len(messages) \in Nat /\ DOMAIN messages = 1..Len(messages)

ASSUME PollAssumption ==
    /\ MaxPollAttempts \in Nat \ {0}
    /\ \A p \in Payloads : p.json \in BOOLEAN
    /\ \A h \in Histories : IsHistory(h)

VARIABLES
    payload,  \* the request
    stage,    \* where it is
    running,  \* running_
    accepted, \* history: the prompt was sent
    polls,    \* what the polls returned, <<h>> or NoReply; attempt is their number
    path,     \* the object IsHistoryComplete looks at
    answers   \* the codes sent to the app

llmVars == <<payload, stage, running, accepted, polls, path, answers>>

NoReply == <<>>

LlmInit ==
    /\ payload \in Payloads
    /\ stage = "arrived" /\ running = TRUE /\ accepted = FALSE
    /\ polls = <<>> /\ path = <<>> /\ answers = <<>>

SendLlmResponse(code) == stage' = "ended" /\ answers' = Append(answers, code)
NoResponse == UNCHANGED answers

\* AppManager::Stop clears running_ at any time.
StopPolling ==
    /\ running /\ running' = FALSE
    /\ UNCHANGED <<payload, stage, accepted, polls, path, answers>>

OnLlmRequest ==
    /\ stage = "arrived"
    /\ IF ~payload.json THEN SendLlmResponse(1)
       ELSE IF payload.msg_id = "" \/ payload.prompt = "" THEN SendLlmResponse(2)
       ELSE stage' = "queued" /\ NoResponse
    /\ UNCHANGED <<payload, running, accepted, polls, path>>

------------------------------------------------------------------------------
(* ProcessLlmRequest.                                                      *)

SendPrompt ==
    /\ stage = "queued"
    /\ \/ accepted' = TRUE /\ stage' = "polling" /\ NoResponse
       \/ accepted' = FALSE /\ SendLlmResponse(3)
    /\ UNCHANGED <<payload, running, polls, path>>

\* Next attempt, if there is one: running_ is read before the second of sleep.
NextAttempt ==
    /\ stage = "polling"
    /\ \/ Len(polls) = MaxPollAttempts /\ SendLlmResponse(4)
       \/ Len(polls) < MaxPollAttempts /\ running /\ stage' = "asleep" /\ NoResponse
       \/ Len(polls) < MaxPollAttempts /\ ~running /\ stage' = "ended" /\ NoResponse
    /\ UNCHANGED <<payload, running, accepted, polls, path>>

\* Slip: a poll that fails ends the request.
PollFailsForGood ==
    /\ stage = "asleep"
    /\ polls' = Append(polls, NoReply) /\ stage' = "ended"
    /\ UNCHANGED <<payload, running, accepted, path, answers>>

\* GetHistory: no response, a status that is not 2xx and a body that does not
\* parse are the same failure.
PollFails ==
    /\ stage = "asleep"
    /\ polls' = Append(polls, NoReply) /\ stage' = "polling"
    /\ UNCHANGED <<payload, running, accepted, path, answers>>

PollSucceeds ==
    /\ stage = "asleep"
    /\ \E h \in Histories : polls' = Append(polls, <<h>>)
    /\ path' = <<>> /\ stage' = "looking"
    /\ UNCHANGED <<payload, running, accepted, answers>>

------------------------------------------------------------------------------
(* IsHistoryComplete.                                                      *)

DoneStatus == {"completed", "done", "success", "finished"}

\* The messages of the assistant.
Said(messages) == {i \in DOMAIN messages : messages[i].role = "assistant"}

\* A status decides; else the latest message of the assistant.
Decides(object) ==
    Has(object, "status") \/ (Has(object, "messages") /\ Said(object.messages) # {})
IsDone(object) ==
    IF Has(object, "status") THEN object.status \in DoneStatus
    ELSE LET said   == Said(object.messages)
             latest == object.messages[CHOOSE i \in said : \A j \in said : j <= i]
         IN  Has(latest, "status") /\ latest.status \in DoneStatus

History  == polls[Len(polls)][1]
Below(key) == Append(path, key)

\* The walk ends at an object that decides or has nothing below it.
IsHistoryComplete ==
    /\ stage = "looking"
    /\ \/ Decides(History[path]) /\ IsDone(History[path]) /\ SendLlmResponse(0)
       \/ Decides(History[path]) /\ ~IsDone(History[path]) /\ stage' = "polling" /\ NoResponse
       \/ /\ ~Decides(History[path])
          /\ {Below("result"), Below("data")} \cap DOMAIN History = {}
          /\ stage' = "polling" /\ NoResponse
    /\ UNCHANGED <<payload, running, accepted, polls, path>>

\* Else it goes one level down.
LookBelow ==
    /\ stage = "looking" /\ ~Decides(History[path])
    /\ \/ Below("result") \in DOMAIN History /\ path' = Below("result")
       \/ /\ Below("result") \notin DOMAIN History
          /\ Below("data") \in DOMAIN History /\ path' = Below("data")
    /\ UNCHANGED <<payload, stage, running, accepted, polls, answers>>

LlmNext ==
    \/ StopPolling \/ OnLlmRequest \/ SendPrompt \/ NextAttempt
    \/ PollFails \/ PollSucceeds \/ IsHistoryComplete \/ LookBelow

LlmSpec == LlmInit /\ [][LlmNext]_llmVars

------------------------------------------------------------------------------
\* A message of the assistant after which it said nothing more.
Latest(messages, i) ==
    messages[i].role = "assistant" /\ \A j \in DOMAIN messages : j > i => messages[j].role # "assistant"

Reports(object) ==
    \/ Has(object, "status")
    \/ Has(object, "messages") /\ \E i \in DOMAIN object.messages : Latest(object.messages, i)

ReportsDone(object) ==
    IF Has(object, "status") THEN object.status \in DoneStatus
    ELSE \E i \in DOMAIN object.messages :
           /\ Latest(object.messages, i)
           /\ Has(object.messages[i], "status") /\ object.messages[i].status \in DoneStatus

\* "result" goes before "data".
OnTheWay(h, p) ==
    \A n \in 1..Len(p) : p[n] = "data" => Append(Upto(p, n - 1), "result") \notin DOMAIN h
SilentAbove(h, p) == \A n \in 0..Len(p) - 1 : ~Reports(h[Upto(p, n)])

\* The first object on the way that reports anything reports that it is done.
IsComplete(h) ==
    \E p \in DOMAIN h : /\ OnTheWay(h, p) /\ SilentAbove(h, p)
                       /\ Reports(h[p]) /\ ReportsDone(h[p])

\* An app gets one answer for its prompt unless the hub is stopped: 1 or 2 at once
\* for a request that is not complete, 3 only if the prompt was not accepted, 0 as
\* soon as a poll finds the reply complete, polls that fail not counting against
\* it, and 4 only when all polls are used up (OnLlmRequest, ProcessLlmRequest,
\* IsHistoryComplete).
PromptIsAnswered ==
    LET complete == {i \in DOMAIN polls : polls[i] # NoReply /\ IsComplete(polls[i][1])}
    IN  /\ stage # "ended" => answers = <<>>
        /\ stage = "ended" =>
             \/ answers = <<1>> /\ ~payload.json
             \/ answers = <<2>> /\ payload.json /\ "" \in {payload.msg_id, payload.prompt}
             \/ /\ payload.json /\ "" \notin {payload.msg_id, payload.prompt}
                /\ \/ answers = <<3>> /\ ~accepted /\ polls = <<>>
                   \/ answers = <<0>> /\ accepted /\ complete = {Len(polls)}
                   \/ answers = <<4>> /\ accepted /\ complete = {} /\ Len(polls) = MaxPollAttempts
                   \/ answers = <<>> /\ accepted /\ complete = {} /\ ~running
==============================================================================
