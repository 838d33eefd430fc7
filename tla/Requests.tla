------------------------------ MODULE Requests ------------------------------
(***************************************************************************)
(* Calls going through the interceptor chain of pkg/grpcserver.  A call    *)
(* goes in link by link to the handler and its outcome comes back out the  *)
(* same way; a panic unwinds past every link up to recovery.  Many calls   *)
(* are in the chain at once and share the metrics; they are calls of one   *)
(* method, the label the metrics are kept by.                              *)
(*                                                                         *)
(* Links no service installs yet (rate limit, authentication,              *)
(* authorization) are left out.                                            *)
(***************************************************************************)
EXTENDS Integers, Sequences, FiniteSets

CONSTANTS Calls   \* calls, unary or streaming

ASSUME CallsAssumption == IsFiniteSet(Calls)

VARIABLES
  minimum,   \* MIN_CLIENT_API_VERSION is set
  call,      \* what each call is: its kind, the version it declares, its validity
  at,        \* link a call is at, 0 once it is answered
  heading,   \* "in", "out" or "panic"
  err,       \* the error on its way out, NoError if there is none
  raised,    \* history: what the handler returned
  inflight,  \* gauge requests_in_flight
  counted,   \* code under which each call was counted, or "none"
  access,    \* code on each call's access line, or "none"
  panicked,  \* calls with a panic line
  detail,    \* calls whose error ToStatus logged
  answer     \* code the client received, or "none"

inputs  == <<minimum, call>>
logVars == <<access, panicked, detail>>
chainVars ==
  <<minimum, call, at, heading, err, raised, inflight, counted, access, panicked, detail, answer>>

-----------------------------------------------------------------------------
(* Errors.                                                                 *)

Kinds == {"nil", "domain", "canceled", "deadline", "status", "plain"}
Codes == {"OK", "NotFound", "FailedPrecondition", "InvalidArgument", "Unavailable",
          "Canceled", "DeadlineExceeded", "Internal", "Unknown"}

Error(kind, code) == [kind |-> kind, code |-> code]
NoError == Error("nil", "OK")

\* What status.Code reads off an error: a domain error and a status carry their
\* code, anything else is UNKNOWN.
StatusCode(e) == IF e.kind \in {"nil", "domain", "status"} THEN e.code ELSE "Unknown"

\* What the client reads: the server also tells the errors of a context apart.
ClientCode(e) == e.code

\* What a handler may return: a domain error, the error of its context, a status of any
\* code, any other error.
HandlerErrors ==
  {NoError, Error("domain", "NotFound"), Error("domain", "Internal"),
   Error("canceled", "Canceled"), Error("deadline", "DeadlineExceeded"),
   Error("status", "Unavailable"), Error("status", "Unknown"), Error("plain", "Unknown")}

ToStatus(e) ==
  CASE e.kind = "nil"      -> e
    [] e.kind = "domain"   -> Error("status", e.code)
    [] e.kind = "canceled" -> Error("status", "Canceled")
    [] e.kind = "deadline" -> Error("status", "DeadlineExceeded")
    [] e.kind = "status"   -> e
    [] e.kind = "plain"    -> Error("status", "Internal")

\* ToStatus logs a domain error with its cause, and an unexpected one.
LoggedByToStatus(e) == e.kind \in {"domain", "plain"}

-----------------------------------------------------------------------------
(* The chain.                                                              *)

\* No link reads the version of a stream or validates its messages.
Call ==
  [stream : {FALSE}, version : {"absent", "unreadable", "old", "recent"}, valid : BOOLEAN]
    \cup [stream : {TRUE}, version : {"absent"}, valid : {TRUE}]

\* Mutants: errors are mapped outside logging, and recovery is inside it.
chainErrorsFirst(c) ==
  <<"recovery", "errors", "logging", "metrics", "api_version", "validate", "handler">>
chainLoggingFirst(c) ==
  <<"logging", "recovery", "metrics", "api_version", "validate", "errors", "handler">>

\* buildUnaryChain and buildStreamChain.
chain(c) ==
  IF call[c].stream
  THEN <<"recovery", "logging", "metrics", "errors", "handler">>
  ELSE <<"recovery", "logging", "metrics", "api_version", "validate", "errors", "handler">>

Link(c) == IF at[c] = 0 THEN "none" ELSE chain(c)[at[c]]

Position(c, link) == CHOOSE i \in 1..Len(chain(c)) : chain(c)[i] = link

ChainTypeOK ==
  /\ minimum \in BOOLEAN /\ call \in [Calls -> Call]
  /\ \A c \in Calls : at[c] \in 0..Len(chain(c))
  /\ heading \in [Calls -> {"in", "out", "panic"}]
  /\ err \in [Calls -> [kind : Kinds, code : Codes]]
  /\ raised \in [Calls -> [kind : Kinds, code : Codes]]
  /\ inflight \in Int
  /\ counted \in [Calls -> Codes \cup {"none"}] /\ access \in [Calls -> Codes \cup {"none"}]
  /\ panicked \in SUBSET Calls /\ detail \in SUBSET Calls
  /\ answer \in [Calls -> Codes \cup {"none"}]

ChainInit ==
  /\ minimum \in BOOLEAN /\ call \in [Calls -> Call]
  /\ at = [c \in Calls |-> 1] /\ heading = [c \in Calls |-> "in"]
  /\ err = [c \in Calls |-> NoError] /\ raised = [c \in Calls |-> NoError]
  /\ inflight = 0 /\ counted = [c \in Calls |-> "none"]
  /\ access = [c \in Calls |-> "none"] /\ panicked = {} /\ detail = {}
  /\ answer = [c \in Calls |-> "none"]

GoesIn(c) == at' = [at EXCEPT ![c] = @ + 1] /\ UNCHANGED <<heading, err>>

\* The outcome e leaves the link c is at; at the outermost one it is the answer.
ComesOut(c, e) ==
  /\ at'      = [at EXCEPT ![c] = @ - 1]
  /\ heading' = [heading EXCEPT ![c] = "out"]
  /\ err'     = [err EXCEPT ![c] = e]
  /\ answer'  = IF at[c] = 1 THEN [answer EXCEPT ![c] = ClientCode(e)] ELSE answer

\* Links that only call the next one on the way in.
Enter(c) ==
  /\ heading[c] = "in" /\ Link(c) \in {"recovery", "logging", "errors"}
  /\ GoesIn(c)
  /\ UNCHANGED <<inputs, raised, inflight, counted, logVars, answer>>

RequestStarted(c) ==
  /\ heading[c] = "in" /\ Link(c) = "metrics"
  /\ inflight' = inflight + 1
  /\ GoesIn(c)
  /\ UNCHANGED <<inputs, raised, counted, logVars, answer>>

\* Without a minimum every call is let through.  With one, a call that declares no
\* version is let through, one nobody can read is not.
APIVersion(c) ==
  /\ heading[c] = "in" /\ Link(c) = "api_version"
  /\ IF minimum /\ call[c].version \in {"unreadable", "old"}
     THEN ComesOut(c, Error("domain", "FailedPrecondition"))
     ELSE GoesIn(c) /\ UNCHANGED answer
  /\ UNCHANGED <<inputs, raised, inflight, counted, logVars>>

Validate(c) ==
  /\ heading[c] = "in" /\ Link(c) = "validate"
  /\ IF call[c].valid THEN GoesIn(c) /\ UNCHANGED answer
                      ELSE ComesOut(c, Error("status", "InvalidArgument"))
  /\ UNCHANGED <<inputs, raised, inflight, counted, logVars>>

\* The handler returns.
Handle(c) ==
  /\ heading[c] = "in" /\ Link(c) = "handler"
  /\ \E e \in HandlerErrors : ComesOut(c, e) /\ raised' = [raised EXCEPT ![c] = e]
  /\ UNCHANGED <<inputs, inflight, counted, logVars>>

\* The handler, or the link a call is at, panics.
Panic(c) ==
  /\ heading[c] = "in" /\ Link(c) \in {"api_version", "validate", "handler"}
  /\ heading' = [heading EXCEPT ![c] = "panic"]
  /\ UNCHANGED <<inputs, at, err, raised, inflight, counted, logVars, answer>>

Errors(c) ==
  /\ heading[c] = "out" /\ Link(c) = "errors"
  /\ ComesOut(c, ToStatus(err[c]))
  /\ detail' = IF LoggedByToStatus(err[c]) THEN detail \cup {c} ELSE detail
  /\ UNCHANGED <<inputs, raised, inflight, counted, access, panicked>>

\* Links that return what they get.
Leave(c) ==
  /\ heading[c] = "out" /\ Link(c) \in {"recovery", "api_version", "validate"}
  /\ ComesOut(c, err[c])
  /\ UNCHANGED <<inputs, raised, inflight, counted, logVars>>

\* Mutant: a call that failed stays in flight.
FinishSucceeded(c) ==
  /\ heading[c] = "out" /\ Link(c) = "metrics"
  /\ inflight' = IF err[c] = NoError THEN inflight - 1 ELSE inflight
  /\ counted' = [counted EXCEPT ![c] = StatusCode(err[c])]
  /\ ComesOut(c, err[c])
  /\ UNCHANGED <<inputs, raised, logVars>>

\* The function RequestStarted returned; it is not deferred.
Finish(c) ==
  /\ heading[c] = "out" /\ Link(c) = "metrics"
  /\ inflight' = inflight - 1
  /\ counted' = [counted EXCEPT ![c] = StatusCode(err[c])]
  /\ ComesOut(c, err[c])
  /\ UNCHANGED <<inputs, raised, logVars>>

writeAccessLog(c) ==
  /\ heading[c] = "out" /\ Link(c) = "logging"
  /\ access' = [access EXCEPT ![c] = StatusCode(err[c])]
  /\ ComesOut(c, err[c])
  /\ UNCHANGED <<inputs, raised, inflight, counted, panicked, detail>>

\* Mutant: streams are not covered.
RecoverUnary(c) ==
  /\ heading[c] = "panic" /\ ~call[c].stream
  /\ panicked' = panicked \cup {c}
  /\ at' = [at EXCEPT ![c] = 0]
  /\ heading' = [heading EXCEPT ![c] = "out"]
  /\ err' = [err EXCEPT ![c] = Error("status", "Internal")]
  /\ answer' = [answer EXCEPT ![c] = "Internal"]
  /\ UNCHANGED <<inputs, raised, inflight, counted, access, detail>>

\* The panic reaches recovery: logged with its stack, and answered with INTERNAL.
Recover(c) ==
  /\ heading[c] = "panic"
  /\ panicked' = panicked \cup {c}
  /\ at' = [at EXCEPT ![c] = Position(c, "recovery") - 1]
  /\ heading' = [heading EXCEPT ![c] = "out"]
  /\ err' = [err EXCEPT ![c] = Error("status", "Internal")]
  /\ answer' = IF Position(c, "recovery") = 1 THEN [answer EXCEPT ![c] = "Internal"] ELSE answer
  /\ UNCHANGED <<inputs, raised, inflight, counted, access, detail>>

\* What the server does by itself; a handler may take for ever.
Serve(c) ==
  \/ Enter(c) \/ RequestStarted(c) \/ APIVersion(c) \/ Validate(c)
  \/ Errors(c) \/ Leave(c) \/ Finish(c) \/ writeAccessLog(c) \/ Recover(c)

ChainNext == \E c \in Calls : Serve(c) \/ Handle(c) \/ Panic(c)

\* The goroutine of a call is scheduled; nothing makes a handler return.
ChainSpec == ChainInit /\ [][ChainNext]_chainVars /\ \A c \in Calls : WF_chainVars(Serve(c))

-----------------------------------------------------------------------------
(* Properties.                                                             *)

Answered == {c \in Calls : answer[c] # "none"}

\* "The logging and metrics interceptors above see the already mapped code": the code
\* on the access line, the one counted and the one the client received are the same.
\* It is that of the error returned, if somebody declared it; otherwise "the client gets
\* INTERNAL with no detail, and the full error is logged".
CodesAgree ==
  \A c \in Answered \ panicked :
    /\ access[c] = answer[c] /\ counted[c] = answer[c]
    /\ IF raised[c].kind = "plain" THEN answer[c] = "Internal" /\ c \in detail
       ELSE raised[c].kind # "nil" => answer[c] = raised[c].code

\* Every call leaves one line in the log: its access line, or that of its panic.
OneLinePerCall ==
  \A c \in Answered : (access[c] # "none") # (c \in panicked)

\* Requests "currently being handled": as long as no call has panicked, the gauge is
\* the number of calls between the two halves of the metrics link, however they end.
\* A panic skips the second half.
GaugeIsExact ==
  panicked = {} =>
    inflight = Cardinality({c \in Calls :
       \/ at[c] > Position(c, "metrics")
       \/ at[c] = Position(c, "metrics") /\ heading[c] = "out"})

\* Every call is answered in the end, a panicking one too, unless its handler never
\* returns.
EveryCallIsAnswered ==
  \A c \in Calls : <>(answer[c] # "none" \/ [](Link(c) = "handler" /\ heading[c] = "in"))
=============================================================================
