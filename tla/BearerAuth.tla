------------------------------ MODULE BearerAuth ------------------------------
(***************************************************************************)
(* The renewable bearer token of one Principal: PasswordBearerAuthStrategy *)
(* (acc_runtime.auth.strategies) with environment credentials, and the     *)
(* HTTP provider's calls that use it (acc_runtime.providers.http).         *)
(*                                                                         *)
(* Calls that find no usable token share one login, the flight.  A read    *)
(* whose token is refused with a 401 drops it and is sent once more.       *)
(* The bodies under the strategy's lock never await, so each is one step.  *)
(***************************************************************************)
EXTENDS Integers, FiniteSets

CONSTANTS
    Calls,      \* concurrent reads and mutations of the Principal
    Flights,    \* identities of shared logins, reused once nobody refers to one
    MaxLogins,  \* bound on the logins the source accepts
    Retry       \* retry_on_unauthorized of the configuration

NoFlight == "no flight"

ASSUME ConstantsOK ==
    /\ IsFiniteSet(Calls)
    /\ MaxLogins \in Nat
    /\ Retry \in BOOLEAN
    /\ NoFlight \notin Flights

VARIABLES
    closed,  \* aclose was called
    token,   \* generation of the bound attempt, 0 when there is none
    issued,  \* the latest generation
    stale,   \* generations whose refresh boundary has passed
    entry,   \* the flight in the table of flights, or NoFlight
    flight,  \* every flight: its login task, the token it brought, its waiters
    call,    \* every call: its await, and its local variables
    refused  \* generations of which the strategy was told a 401

vars == <<closed, token, issued, stale, entry, flight, call, refused>>

Generations == 0..MaxLogins

FlightStates ==
    [task : {"none", "running", "done", "failed", "cancelled"},
     gen : Generations, waiters : Int]

CallStates ==
    [at : {"idle", "authorize", "wait", "send"}, op : {"read", "mutation"},
     again : BOOLEAN, gen : Generations, on : Flights \cup {NoFlight}]

\* Every variable has its type, and no request leaves without a token.
TypeOK ==
    /\ closed \in BOOLEAN
    /\ token \in Generations
    /\ issued \in Generations
    /\ stale \subseteq Generations
    /\ entry \in Flights \cup {NoFlight}
    /\ flight \in [Flights -> FlightStates]
    /\ call \in [Calls -> CallStates]
    /\ refused \subseteq Generations
    /\ \A c \in Calls : call[c].at = "send" => call[c].gen # 0

NewFlight == [task |-> "none", gen |-> 0, waiters |-> 0]
IdleCall == [at |-> "idle", op |-> "read", again |-> FALSE, gen |-> 0, on |-> NoFlight]

Init ==
    /\ closed = FALSE
    /\ token = 0
    /\ issued = 0
    /\ stale = {}
    /\ entry = NoFlight
    /\ flight = [f \in Flights |-> NewFlight]
    /\ call = [c \in Calls |-> IdleCall]
    /\ refused = {}

At(c, step) == call[c].at = step
Return(c) == call' = [call EXCEPT ![c] = IdleCall]
Sends(c, g) == call' = [call EXCEPT ![c].at = "send", ![c].gen = g, ![c].on = NoFlight]

-----------------------------------------------------------------------------
(* authorize                                                               *)

Usable == token # 0 /\ token \notin stale

\* The call waits for the flight's login.
Joins(c, f) ==
    /\ entry' = f
    /\ call' = [call EXCEPT ![c].at = "wait", ![c].on = f]

\* A finished flight gives the call its token, or its failure.
Outcome(c, f) ==
    \/ flight[f].task = "done" /\ Sends(c, flight[f].gen)
    \/ flight[f].task \in {"failed", "cancelled"} /\ Return(c)

\* Nothing refers to the flight any more.
Free(f) ==
    /\ f # entry
    /\ flight[f].task # "running"
    /\ \A c \in Calls : call[c].on # f

\* A login of its own, which the call is the first to wait for.
Launches(c, f) ==
    /\ Free(f)
    /\ flight' = [flight EXCEPT ![f] = [task |-> "running", gen |-> 0, waiters |-> 1]]
    /\ Joins(c, f)

Start(c) ==
    /\ At(c, "idle")
    /\ \E op \in {"read", "mutation"} :
          call' = [call EXCEPT ![c].at = "authorize", ![c].op = op]
    /\ UNCHANGED <<closed, token, issued, stale, entry, flight, refused>>

\* A faulty variant: every call without a usable token logs in by itself.
AuthorizeAlone(c) ==
    /\ At(c, "authorize")
    /\ \/ closed /\ Return(c) /\ UNCHANGED <<entry, flight>>
       \/ ~closed /\ Usable /\ Sends(c, token) /\ UNCHANGED <<entry, flight>>
       \/ ~closed /\ ~Usable /\ \E f \in Flights : Launches(c, f)
    /\ UNCHANGED <<closed, token, issued, stale, refused>>

\* The bound token if it is fresh; else the outcome of the flight in the table,
\* which a finished flight yields at once; else that of a new one.
Authorize(c) ==
    /\ At(c, "authorize")
    /\ \/ closed /\ Return(c) /\ UNCHANGED <<entry, flight>>
       \/ ~closed /\ Usable /\ Sends(c, token) /\ UNCHANGED <<entry, flight>>
       \/ /\ ~closed /\ ~Usable /\ entry # NoFlight
          /\ \/ /\ flight[entry].task = "running"
                /\ flight' = [flight EXCEPT ![entry].waiters = @ + 1]
                /\ Joins(c, entry)
             \/ Outcome(c, entry) /\ UNCHANGED <<entry, flight>>
       \/ ~closed /\ ~Usable /\ entry = NoFlight /\ \E f \in Flights : Launches(c, f)
    /\ UNCHANGED <<closed, token, issued, stale, refused>>

\* A faulty variant: the last waiter leaves the login running.
ReleaseKeepsLogin(f) ==
    LET left == flight[f].waiters - 1
    IN  IF closed \/ entry # f THEN UNCHANGED <<entry, flight>>
        ELSE /\ flight' = [flight EXCEPT ![f].waiters = left]
             /\ entry' = IF left = 0 THEN NoFlight ELSE entry

\* _release_waiter: the last waiter removes the flight from the table, and with
\* it a login that is still running, which is cancelled.
Release(f) ==
    IF closed \/ entry # f THEN UNCHANGED <<entry, flight>>
    ELSE IF flight[f].waiters = 1
         THEN /\ entry' = NoFlight
              /\ flight' = [flight EXCEPT ![f] = NewFlight]
         ELSE /\ flight' = [flight EXCEPT ![f].waiters = @ - 1]
              /\ UNCHANGED entry

\* A faulty variant: only a successful login wakes its waiters.
ResumeOnSuccess(c) ==
    LET f == call[c].on
    IN  /\ At(c, "wait")
        /\ flight[f].task = "done"
        /\ Sends(c, flight[f].gen)
        /\ Release(f)
        /\ UNCHANGED <<closed, token, issued, stale, refused>>

\* A waiter resumes and leaves the flight.
Resume(c) ==
    LET f == call[c].on
    IN  /\ At(c, "wait")
        /\ Outcome(c, f)
        /\ Release(f)
        /\ UNCHANGED <<closed, token, issued, stale, refused>>

-----------------------------------------------------------------------------
(* The login task, _renew_state                                            *)

\* The source accepts the credentials: the token is bound as the task ends.
LoginSucceeds(f) ==
    /\ flight[f].task = "running"
    /\ issued < MaxLogins
    /\ issued' = issued + 1
    /\ token' = issued'
    /\ flight' = [flight EXCEPT ![f].task = "done", ![f].gen = issued']
    /\ UNCHANGED <<closed, stale, entry, call, refused>>

\* The credentials are missing or refused, or the source does not answer.
LoginFails(f) ==
    /\ flight[f].task = "running"
    /\ flight' = [flight EXCEPT ![f].task = "failed"]
    /\ UNCHANGED <<closed, token, issued, stale, entry, call, refused>>

Login(f) == LoginSucceeds(f) \/ LoginFails(f)

-----------------------------------------------------------------------------
(* The source's answer to a request.  It takes a turn of the event loop,   *)
(* in which every waiter of the login that brought its token resumes.      *)

Answerable(c) ==
    /\ At(c, "send")
    /\ \A d \in Calls :
          At(d, "wait") => flight[call[d].on].task # "done"
                              \/ flight[call[d].on].gen # call[c].gen

Answered(c) ==
    /\ Answerable(c)
    /\ Return(c)
    /\ UNCHANGED <<closed, token, issued, stale, entry, flight, refused>>

\* A 401 answers a mutation: it is never sent again and the token stays.
MutationRefused(c) ==
    /\ Answerable(c) /\ call[c].op = "mutation"
    /\ Return(c)
    /\ UNCHANGED <<closed, token, issued, stale, entry, flight, refused>>

\* A faulty variant: the current token is dropped whichever one was refused.
ReadRefusedDropsAny(c) ==
    /\ Answerable(c) /\ call[c].op = "read" /\ ~closed
    /\ token' = 0
    /\ refused' = refused \cup {call[c].gen}
    /\ IF Retry /\ ~call[c].again
       THEN call' = [call EXCEPT ![c].at = "authorize", ![c].again = TRUE]
       ELSE Return(c)
    /\ UNCHANGED <<closed, issued, stale, entry, flight>>

\* A faulty variant: the read is replayed without dropping the token.
ReadRefusedKeepsToken(c) ==
    /\ Answerable(c) /\ call[c].op = "read" /\ ~closed
    /\ refused' = refused \cup {call[c].gen}
    /\ IF Retry /\ ~call[c].again
       THEN call' = [call EXCEPT ![c].at = "authorize", ![c].again = TRUE]
       ELSE Return(c)
    /\ UNCHANGED <<closed, token, issued, stale, entry, flight>>

\* A 401 answers a read: on_unauthorized drops the token only if it is still
\* the one that failed, and the read is authorised and sent once more.
ReadRefused(c) ==
    /\ Answerable(c) /\ call[c].op = "read" /\ ~closed
    /\ token' = IF token = call[c].gen THEN 0 ELSE token
    /\ refused' = refused \cup {call[c].gen}
    /\ IF Retry /\ ~call[c].again
       THEN call' = [call EXCEPT ![c].at = "authorize", ![c].again = TRUE]
       ELSE Return(c)
    /\ UNCHANGED <<closed, issued, stale, entry, flight>>

-----------------------------------------------------------------------------
(* The environment                                                         *)

\* The refresh boundary of the bound token passes.
Boundary ==
    /\ Usable
    /\ stale' = stale \cup {token}
    /\ UNCHANGED <<closed, token, issued, entry, flight, call, refused>>

\* The caller of a call is cancelled; a waiter leaves its flight.
Cancel(c) ==
    /\ ~At(c, "idle")
    /\ Return(c)
    /\ IF At(c, "wait") THEN Release(call[c].on) ELSE UNCHANGED <<entry, flight>>
    /\ UNCHANGED <<closed, token, issued, stale, refused>>

\* aclose cancels every login and erases the token.
Close ==
    /\ ~closed
    /\ closed' = TRUE
    /\ token' = 0
    /\ entry' = NoFlight
    /\ flight' = [f \in Flights |-> [flight[f] EXCEPT !.task =
                      IF f = entry /\ @ = "running" THEN "cancelled" ELSE @]]
    /\ UNCHANGED <<issued, stale, call, refused>>

\* A read that meets the closed strategy on its 401 fails.
ReadRefusedClosed(c) ==
    /\ Answerable(c) /\ call[c].op = "read" /\ closed
    /\ Return(c)
    /\ UNCHANGED <<closed, token, issued, stale, entry, flight, refused>>

-----------------------------------------------------------------------------
\* What the event loop or the source does next for a call.
Step(c) ==
    \/ Authorize(c) \/ Resume(c) \/ Answered(c)
    \/ MutationRefused(c) \/ ReadRefused(c) \/ ReadRefusedClosed(c)

Next ==
    \/ \E c \in Calls : Start(c) \/ Step(c) \/ Cancel(c)
    \/ \E f \in Flights : Login(f)
    \/ Boundary \/ Close

\* The event loop resumes every call, and the source answers or times out.
Fairness ==
    /\ \A c \in Calls : WF_vars(Step(c))
    /\ \A f \in Flights : WF_vars(Login(f))

Spec == Init /\ [][Next]_vars
FairSpec == Spec /\ Fairness

-----------------------------------------------------------------------------
(* Correctness                                                             *)

\* Concurrent calls share one login: never do two run for one Principal,
\* whatever waiters are cancelled, tokens refused or flights left meanwhile.
OneLogin ==
    \A e, f \in Flights : flight[e].task = "running" /\ flight[f].task = "running" => e = f

\* A login runs only while somebody waits for it, and the count that decides
\* who is the last one to leave is exact.
LoginIsAwaited ==
    \A f \in Flights :
        LET waiting == {c \in Calls : At(c, "wait") /\ call[c].on = f}
        IN  /\ flight[f].task = "running" => f = entry
            /\ f = entry => /\ flight[f].waiters = Cardinality(waiting)
                            /\ waiting # {}

\* A login runs only when the boundary of the latest token passed or the source
\* refused it: a late 401 of an older token never discards the current one, and
\* calls whose common token was refused share its replacement.
NoNeedlessLogin ==
    \A f \in Flights :
        flight[f].task = "running" /\ issued # 0 => issued \in stale \cup refused

\* Once the strategy was told that the source refused a token, no request
\* leaves with it again, the replay of the refused read included.
RefusedIsNotSent ==
    [][\A c \in Calls : call'[c].at = "send" /\ ~At(c, "send") =>
          call'[c].gen \notin refused]_vars

\* Every call returns: a failed or cancelled login leaves nobody waiting.
CallsReturn == \A c \in Calls : ~At(c, "idle") ~> At(c, "idle")

=============================================================================
