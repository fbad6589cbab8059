----------------------------- MODULE BearerProofs -----------------------------
(***************************************************************************)
(* Theorems about BearerAuth, for every number of calls and of logins.     *)
(***************************************************************************)
EXTENDS BearerAuth, FiniteSetTheorems, TLAPS

\* A waiter knows its flight, and a finished login has brought a token.
References ==
    /\ \A c \in Calls : At(c, "wait") => call[c].on \in Flights
    /\ \A f \in Flights : flight[f].task = "done" => flight[f].gen # 0

\* Only the flight in the table has a running login: whoever removes a flight
\* cancels its login, and a new one starts only where the table is empty.
TableOwnsLogin == \A f \in Flights : flight[f].task = "running" => f = entry

Inductive == TypeOK /\ References /\ TableOwnsLogin

USE DEF At

-----------------------------------------------------------------------------
(* What the updates of a call and of a flight do                           *)

\* Only c changes: to this place, with this token, for this flight.
CallBecomes(c, at, gen, on) ==
    /\ call' \in [Calls -> CallStates]
    /\ call'[c].at = at /\ call'[c].gen = gen /\ call'[c].on = on
    /\ \A d \in Calls \ {c} : call'[d] = call[d]

\* Only f changes: its login, the token it brought, its waiters.
FlightBecomes(f, task, gen, waiters) ==
    /\ flight' \in [Flights -> FlightStates]
    /\ flight'[f].task = task /\ flight'[f].gen = gen /\ flight'[f].waiters = waiters
    /\ \A e \in Flights \ {f} : flight'[e] = flight[e]

LEMMA CallUpdated ==
    ASSUME TypeOK, NEW c \in Calls, NEW r \in CallStates, call' = [call EXCEPT ![c] = r]
    PROVE  CallBecomes(c, r.at, r.gen, r.on)
BY DEF TypeOK, CallBecomes

LEMMA FlightUpdated ==
    ASSUME TypeOK, NEW f \in Flights, NEW r \in FlightStates,
           flight' = [flight EXCEPT ![f] = r]
    PROVE  FlightBecomes(f, r.task, r.gen, r.waiters)
BY DEF TypeOK, FlightBecomes

LEMMA ZeroIsGeneration == 0 \in Generations
BY ConstantsOK DEF Generations

LEMMA StartBecomes ==
    ASSUME TypeOK, NEW c \in Calls, Start(c)
    PROVE  CallBecomes(c, "authorize", call[c].gen, call[c].on)
<1>1. PICK op \in {"read", "mutation"} :
          call' = [call EXCEPT ![c].at = "authorize", ![c].op = op]
  BY DEF Start
<1> DEFINE r == [call[c] EXCEPT !.at = "authorize", !.op = op]
<1>2. /\ r \in CallStates
      /\ r.at = "authorize" /\ r.gen = call[c].gen /\ r.on = call[c].on
  BY DEF TypeOK, CallStates
<1>3. call' = [call EXCEPT ![c] = r]
  BY <1>1
<1> HIDE DEF r
<1> QED
  BY <1>2, <1>3, CallUpdated

LEMMA ReplayBecomes ==
    ASSUME TypeOK, NEW c \in Calls,
           call' = [call EXCEPT ![c].at = "authorize", ![c].again = TRUE]
    PROVE  CallBecomes(c, "authorize", call[c].gen, call[c].on)
<1> DEFINE r == [call[c] EXCEPT !.at = "authorize", !.again = TRUE]
<1>1. /\ r \in CallStates
      /\ r.at = "authorize" /\ r.gen = call[c].gen /\ r.on = call[c].on
  BY DEF TypeOK, CallStates
<1>2. call' = [call EXCEPT ![c] = r]
  OBVIOUS
<1> HIDE DEF r
<1> QED
  BY <1>1, <1>2, CallUpdated

LEMMA ReturnBecomes ==
    ASSUME TypeOK, NEW c \in Calls, Return(c)
    PROVE  CallBecomes(c, "idle", 0, NoFlight)
<1>1. IdleCall \in CallStates
  BY ZeroIsGeneration DEF IdleCall, CallStates
<1>2. CallBecomes(c, IdleCall.at, IdleCall.gen, IdleCall.on)
  BY <1>1, CallUpdated DEF Return
<1> QED
  BY <1>2 DEF IdleCall

LEMMA SendsBecomes ==
    ASSUME TypeOK, NEW c \in Calls, NEW g \in Generations, Sends(c, g)
    PROVE  CallBecomes(c, "send", g, NoFlight)
<1> DEFINE r == [call[c] EXCEPT !.at = "send", !.gen = g, !.on = NoFlight]
<1>1. /\ r \in CallStates
      /\ r.at = "send" /\ r.gen = g /\ r.on = NoFlight
  BY DEF TypeOK, CallStates
<1>2. call' = [call EXCEPT ![c] = r]
  BY DEF Sends
<1> HIDE DEF r
<1> QED
  BY <1>1, <1>2, CallUpdated

LEMMA JoinsBecomes ==
    ASSUME TypeOK, NEW c \in Calls, NEW f \in Flights, Joins(c, f)
    PROVE  CallBecomes(c, "wait", call[c].gen, f)
<1> DEFINE r == [call[c] EXCEPT !.at = "wait", !.on = f]
<1>1. /\ r \in CallStates
      /\ r.at = "wait" /\ r.gen = call[c].gen /\ r.on = f
  BY DEF TypeOK, CallStates
<1>2. call' = [call EXCEPT ![c] = r]
  BY DEF Joins
<1> HIDE DEF r
<1> QED
  BY <1>1, <1>2, CallUpdated

\* The updates of a flight: a waiter more or less, a login that starts, ends
\* or is cancelled with its flight.
LEMMA WaitersBecome ==
    ASSUME TypeOK, NEW f \in Flights, NEW n \in Int,
           flight' = [flight EXCEPT ![f].waiters = n]
    PROVE  FlightBecomes(f, flight[f].task, flight[f].gen, n)
<1> DEFINE r == [flight[f] EXCEPT !.waiters = n]
<1>1. /\ r \in FlightStates
      /\ r.task = flight[f].task /\ r.gen = flight[f].gen /\ r.waiters = n
  BY DEF TypeOK, FlightStates
<1>2. flight' = [flight EXCEPT ![f] = r]
  OBVIOUS
<1> HIDE DEF r
<1> QED
  BY <1>1, <1>2, FlightUpdated

LEMMA TaskBecomes ==
    ASSUME TypeOK, NEW f \in Flights, NEW task \in {"failed", "cancelled"},
           flight' = [flight EXCEPT ![f].task = task]
    PROVE  FlightBecomes(f, task, flight[f].gen, flight[f].waiters)
<1> DEFINE r == [flight[f] EXCEPT !.task = task]
<1>1. /\ r \in FlightStates
      /\ r.task = task /\ r.gen = flight[f].gen /\ r.waiters = flight[f].waiters
  BY DEF TypeOK, FlightStates
<1>2. flight' = [flight EXCEPT ![f] = r]
  OBVIOUS
<1> HIDE DEF r
<1> QED
  BY <1>1, <1>2, FlightUpdated

LEMMA DoneBecomes ==
    ASSUME TypeOK, NEW f \in Flights, NEW g \in Generations,
           flight' = [flight EXCEPT ![f].task = "done", ![f].gen = g]
    PROVE  FlightBecomes(f, "done", g, flight[f].waiters)
<1> DEFINE r == [flight[f] EXCEPT !.task = "done", !.gen = g]
<1>1. /\ r \in FlightStates
      /\ r.task = "done" /\ r.gen = g /\ r.waiters = flight[f].waiters
  BY DEF TypeOK, FlightStates
<1>2. flight' = [flight EXCEPT ![f] = r]
  OBVIOUS
<1> HIDE DEF r
<1> QED
  BY <1>1, <1>2, FlightUpdated

LEMMA LaunchBecomes ==
    ASSUME TypeOK, NEW f \in Flights,
           flight' = [flight EXCEPT ![f] = [task |-> "running", gen |-> 0, waiters |-> 1]]
    PROVE  FlightBecomes(f, "running", 0, 1)
<1> DEFINE r == [task |-> "running", gen |-> 0, waiters |-> 1]
<1>1. /\ r \in FlightStates
      /\ r.task = "running" /\ r.gen = 0 /\ r.waiters = 1
  BY ZeroIsGeneration DEF FlightStates
<1> HIDE DEF r
<1>2. flight' = [flight EXCEPT ![f] = r]
  BY DEF r
<1>3. FlightBecomes(f, r.task, r.gen, r.waiters)
  BY <1>1, <1>2, FlightUpdated, Zenon
<1> QED
  BY <1>1, <1>3, Zenon

LEMMA NewBecomes ==
    ASSUME TypeOK, NEW f \in Flights, flight' = [flight EXCEPT ![f] = NewFlight]
    PROVE  FlightBecomes(f, "none", 0, 0)
<1>1. /\ NewFlight \in FlightStates
      /\ NewFlight.task = "none" /\ NewFlight.gen = 0 /\ NewFlight.waiters = 0
  BY ZeroIsGeneration DEF NewFlight, FlightStates
<1> QED
  BY <1>1, FlightUpdated

-----------------------------------------------------------------------------
(* The inductive invariant, by the part of the state a step touches        *)

CallsOK ==
    /\ call \in [Calls -> CallStates]
    /\ \A c \in Calls : call[c].at = "send" => call[c].gen # 0
    /\ \A c \in Calls : call[c].at = "wait" => call[c].on \in Flights

FlightsOK ==
    /\ entry \in Flights \cup {NoFlight}
    /\ flight \in [Flights -> FlightStates]
    /\ \A f \in Flights : flight[f].task = "done" => flight[f].gen # 0
    /\ \A f \in Flights : flight[f].task = "running" => f = entry

TokensOK ==
    /\ closed \in BOOLEAN
    /\ token \in Generations
    /\ issued \in Generations
    /\ stale \subseteq Generations
    /\ refused \subseteq Generations

LEMMA Parts ==
    /\ Inductive => TypeOK /\ CallsOK /\ FlightsOK /\ TokensOK
    /\ CallsOK' /\ FlightsOK' /\ TokensOK' => Inductive'
BY DEF Inductive, TypeOK, References, TableOwnsLogin, CallsOK, FlightsOK, TokensOK

LEMMA TokensKept ==
    ASSUME Inductive, UNCHANGED <<closed, token, issued, stale, refused>>
    PROVE  TokensOK'
BY Parts DEF TokensOK

LEMMA CallsKept ==
    ASSUME Inductive, NEW c \in Calls, NEW at, NEW gen, NEW on,
           CallBecomes(c, at, gen, on), at = "send" => gen # 0, at = "wait" => on \in Flights
    PROVE  CallsOK'
BY Parts DEF CallsOK, CallBecomes

\* A flight may change in any way while the table keeps the login it owns.
LEMMA FlightsKept ==
    ASSUME Inductive, NEW f \in Flights, NEW task, NEW gen, NEW n,
           FlightBecomes(f, task, gen, n), task = "done" => gen # 0,
           task = "running" => entry' = f,
           entry' = entry \/ entry = f \/ entry = NoFlight,
           entry' \in Flights \cup {NoFlight}
    PROVE  FlightsOK'
<1>1. \A e \in Flights \ {f} : flight'[e].task = "running" => e = entry /\ entry # f
  BY Parts DEF FlightsOK, FlightBecomes
<1>2. \A e \in Flights \ {f} : flight'[e].task = "running" => e = entry'
  BY <1>1, ConstantsOK
<1> QED
  BY <1>2, Parts DEF FlightsOK, FlightBecomes

\* What a call makes of the outcome of its flight.
LEMMA OutcomeKeeps ==
    ASSUME Inductive, NEW c \in Calls, NEW f \in Flights, Outcome(c, f)
    PROVE  /\ CallsOK'
           /\ \/ flight[f].task = "done" /\ CallBecomes(c, "send", flight[f].gen, NoFlight)
              \/ CallBecomes(c, "idle", 0, NoFlight)
<1>0. TypeOK
  BY DEF Inductive
<1>1. CASE flight[f].task = "done" /\ Sends(c, flight[f].gen)
  <2>1. flight[f].gen \in Generations \ {0}
    BY <1>1, Parts DEF FlightsOK, FlightStates
  <2>2. CallBecomes(c, "send", flight[f].gen, NoFlight)
    BY <1>0, <1>1, <2>1, SendsBecomes
  <2>3. CallsOK'
    BY <2>1, <2>2, CallsKept
  <2>4. QED
    BY <1>1, <2>2, <2>3
<1>2. CASE Return(c)
  <2>1. CallBecomes(c, "idle", 0, NoFlight)
    BY <1>0, <1>2, ReturnBecomes
  <2>2. CallsOK'
    BY <2>1, CallsKept
  <2>3. QED
    BY <2>1, <2>2
<1> QED
  BY <1>1, <1>2 DEF Outcome

\* Leaving a flight: nothing, the last waiter takes the flight out of the
\* table, or the count falls.
LEMMA ReleaseBecomes ==
    ASSUME Inductive, NEW f \in Flights, Release(f)
    PROVE  /\ FlightsOK'
           /\ \/ (closed \/ entry # f) /\ UNCHANGED <<entry, flight>>
              \/ /\ ~closed /\ entry = f /\ flight[f].waiters = 1
                 /\ entry' = NoFlight /\ FlightBecomes(f, "none", 0, 0)
              \/ /\ ~closed /\ entry = f /\ flight[f].waiters # 1
                 /\ entry' = entry
                 /\ FlightBecomes(f, flight[f].task, flight[f].gen, flight[f].waiters - 1)
<1>0. TypeOK
  BY DEF Inductive
<1>1. CASE (closed \/ entry # f) /\ UNCHANGED <<entry, flight>>
  BY <1>1, Parts DEF FlightsOK
<1>2. CASE /\ ~closed /\ entry = f /\ flight[f].waiters = 1
           /\ entry' = NoFlight /\ flight' = [flight EXCEPT ![f] = NewFlight]
  <2>1. FlightBecomes(f, "none", 0, 0)
    BY <1>0, <1>2, NewBecomes
  <2>2. FlightsOK'
    BY <1>2, <2>1, FlightsKept
  <2>3. QED
    BY <1>2, <2>1, <2>2
<1>3. CASE /\ ~closed /\ entry = f /\ flight[f].waiters # 1
           /\ entry' = entry /\ flight' = [flight EXCEPT ![f].waiters = @ - 1]
  <2>1. flight[f].waiters - 1 \in Int /\ entry \in Flights \cup {NoFlight}
    BY <1>0 DEF TypeOK, FlightStates
  <2>2. FlightBecomes(f, flight[f].task, flight[f].gen, flight[f].waiters - 1)
    BY <1>0, <1>3, <2>1, WaitersBecome
  <2>3. flight[f].task = "done" => flight[f].gen # 0
    BY Parts DEF FlightsOK
  <2>4. FlightsOK'
    BY <1>3, <2>1, <2>2, <2>3, FlightsKept
  <2>5. QED
    BY <1>3, <2>2, <2>4
<1> QED
  BY <1>1, <1>2, <1>3 DEF Release

\* A call joins a flight it finds or starts.
LEMMA JoinKeeps ==
    ASSUME Inductive, NEW c \in Calls, NEW f \in Flights, Joins(c, f),
           \/ /\ entry = f /\ flight[f].task = "running"
              /\ flight' = [flight EXCEPT ![f].waiters = @ + 1]
           \/ /\ entry = NoFlight
              /\ flight' = [flight EXCEPT ![f] =
                               [task |-> "running", gen |-> 0, waiters |-> 1]]
    PROVE  /\ CallsOK' /\ FlightsOK' /\ CallBecomes(c, "wait", call[c].gen, f)
           /\ \/ /\ entry = f
                 /\ FlightBecomes(f, "running", flight[f].gen, flight[f].waiters + 1)
              \/ entry = NoFlight /\ FlightBecomes(f, "running", 0, 1)
<1>0. TypeOK /\ entry' = f
  BY DEF Inductive, Joins
<1>1. CallBecomes(c, "wait", call[c].gen, f)
  BY <1>0, JoinsBecomes
<1>2. CallsOK'
  BY <1>1, CallsKept
<1>3. CASE /\ entry = f /\ flight[f].task = "running"
           /\ flight' = [flight EXCEPT ![f].waiters = @ + 1]
  <2>1. flight[f].waiters + 1 \in Int
    BY <1>0 DEF TypeOK, FlightStates
  <2>2. FlightBecomes(f, "running", flight[f].gen, flight[f].waiters + 1)
    BY <1>0, <1>3, <2>1, WaitersBecome
  <2>3. FlightsOK'
    BY <1>0, <1>3, <2>2, FlightsKept
  <2>4. QED
    BY <1>1, <1>2, <1>3, <2>2, <2>3
<1>4. CASE /\ entry = NoFlight
           /\ flight' = [flight EXCEPT ![f] =
                            [task |-> "running", gen |-> 0, waiters |-> 1]]
  <2>1. FlightBecomes(f, "running", 0, 1)
    BY <1>0, <1>4, LaunchBecomes
  <2>2. FlightsOK'
    BY <1>0, <1>4, <2>1, FlightsKept
  <2>3. QED
    BY <1>1, <1>2, <1>4, <2>1, <2>2
<1> QED
  BY <1>3, <1>4

\* A login that ends brings the next token or none.
LEMMA LoginBecomes ==
    ASSUME Inductive, NEW f \in Flights, Login(f)
    PROVE  /\ FlightsOK' /\ TokensOK' /\ UNCHANGED <<closed, stale, entry, call, refused>>
           /\ flight[f].task = "running"
           /\ \/ /\ issued' = issued + 1 /\ token' = issued' /\ issued' \in Generations \ {0}
                 /\ FlightBecomes(f, "done", issued', flight[f].waiters)
              \/ /\ UNCHANGED <<token, issued>>
                 /\ FlightBecomes(f, "failed", flight[f].gen, flight[f].waiters)
<1>0. TypeOK /\ entry \in Flights \cup {NoFlight}
  BY DEF Inductive, TypeOK
<1>1. CASE LoginSucceeds(f)
  <2>1. issued' \in Generations \ {0}
    BY <1>0, <1>1, ConstantsOK DEF LoginSucceeds, TypeOK, Generations
  <2>2. flight' = [flight EXCEPT ![f].task = "done", ![f].gen = issued'] /\ entry' = entry
    BY <1>1 DEF LoginSucceeds
  <2>3. FlightBecomes(f, "done", issued', flight[f].waiters)
    BY <1>0, <2>1, <2>2, DoneBecomes
  <2>4. FlightsOK'
    BY <1>0, <2>1, <2>2, <2>3, FlightsKept
  <2>5. TokensOK'
    BY <1>1, <2>1, Parts DEF LoginSucceeds, TokensOK
  <2>6. QED
    BY <1>1, <2>1, <2>3, <2>4, <2>5 DEF LoginSucceeds
<1>2. CASE LoginFails(f)
  <2>1. /\ flight' = [flight EXCEPT ![f].task = "failed"]
        /\ UNCHANGED <<closed, token, issued, stale, entry, call, refused>>
    BY <1>2 DEF LoginFails
  <2>2. FlightBecomes(f, "failed", flight[f].gen, flight[f].waiters)
    BY <1>0, <2>1, TaskBecomes
  <2>3. FlightsOK'
    BY <1>0, <2>1, <2>2, FlightsKept
  <2>4. QED
    BY <1>2, <2>1, <2>2, <2>3, TokensKept DEF LoginFails
<1> QED
  BY <1>1, <1>2 DEF Login

\* aclose cancels the running login and keeps everything else of a flight.
LEMMA CloseBecomes ==
    ASSUME Inductive, Close
    PROVE  /\ FlightsOK'
           /\ \A f \in Flights :
                 /\ flight'[f].task \in {flight[f].task, "cancelled"}
                 /\ flight'[f].task # "running"
                 /\ flight'[f].gen = flight[f].gen
<1> DEFINE closing(f) == [flight[f] EXCEPT !.task =
                             IF f = entry /\ @ = "running" THEN "cancelled" ELSE @]
<1>1. \A f \in Flights :
          /\ closing(f) \in FlightStates
          /\ closing(f).task \in {flight[f].task, "cancelled"}
          /\ closing(f).task # "running"
          /\ closing(f).gen = flight[f].gen
  <2> SUFFICES ASSUME NEW f \in Flights
               PROVE  /\ closing(f) \in FlightStates
                      /\ closing(f).task \in {flight[f].task, "cancelled"}
                      /\ closing(f).task # "running"
                      /\ closing(f).gen = flight[f].gen
    OBVIOUS
  <2>1. flight[f] \in FlightStates /\ (flight[f].task = "running" => f = entry)
    BY Parts DEF FlightsOK
  <2>2. QED
    BY <2>1 DEF FlightStates
<1>2. flight' = [f \in Flights |-> closing(f)] /\ entry' = NoFlight
  BY DEF Close
<1> HIDE DEF closing
<1>3. flight' \in [Flights -> FlightStates] /\ \A f \in Flights : flight'[f] = closing(f)
  BY <1>1, <1>2
<1>4. \A f \in Flights : flight'[f].task = "done" => flight'[f].gen # 0
  BY <1>1, <1>3, Parts DEF FlightsOK
<1>5. FlightsOK'
  BY <1>1, <1>2, <1>3, <1>4 DEF FlightsOK
<1> QED
  BY <1>1, <1>3, <1>5

-----------------------------------------------------------------------------
(* What each step does, with the inductive invariant it keeps              *)

\* Authorize returns, sends the usable token or that of the finished flight, or
\* waits, for the flight in the table or for one of its own.
LEMMA AuthorizeBecomes ==
    ASSUME Inductive, NEW c \in Calls, Authorize(c)
    PROVE  /\ Inductive' /\ At(c, "authorize")
           /\ UNCHANGED <<closed, token, issued, stale, refused>>
           /\ \/ /\ UNCHANGED <<entry, flight>>
                 /\ \/ CallBecomes(c, "idle", 0, NoFlight)
                    \/ Usable /\ CallBecomes(c, "send", token, NoFlight)
                    \/ \E f \in Flights :
                          /\ f = entry /\ flight[f].task = "done"
                          /\ CallBecomes(c, "send", flight[f].gen, NoFlight)
              \/ \E f \in Flights :
                    /\ entry' = f /\ CallBecomes(c, "wait", call[c].gen, f)
                    /\ \/ /\ entry = f
                          /\ flight[f].task = "running"
                          /\ FlightBecomes(f, "running", flight[f].gen, flight[f].waiters + 1)
                       \/ /\ ~closed /\ ~Usable /\ entry = NoFlight /\ Free(f)
                          /\ FlightBecomes(f, "running", 0, 1)
<1>0. /\ At(c, "authorize") /\ UNCHANGED <<closed, token, issued, stale, refused>>
      /\ TypeOK /\ TokensOK'
  BY TokensKept DEF Authorize, Inductive
<1>1. CASE Return(c) /\ UNCHANGED <<entry, flight>>
  <2>1. CallBecomes(c, "idle", 0, NoFlight)
    BY <1>0, <1>1, ReturnBecomes
  <2>2. CallsOK' /\ FlightsOK'
    BY <1>1, <2>1, CallsKept, Parts DEF FlightsOK
  <2>3. QED
    BY <1>0, <1>1, <2>1, <2>2, Parts
<1>2. CASE Usable /\ Sends(c, token) /\ UNCHANGED <<entry, flight>>
  <2>1. token \in Generations /\ token # 0
    BY <1>0, <1>2 DEF Usable, TypeOK
  <2>2. CallBecomes(c, "send", token, NoFlight)
    BY <1>0, <1>2, <2>1, SendsBecomes
  <2>3. CallsOK' /\ FlightsOK'
    BY <1>2, <2>1, <2>2, CallsKept, Parts DEF FlightsOK
  <2>4. QED
    BY <1>0, <1>2, <2>2, <2>3, Parts
<1>3. CASE entry # NoFlight /\ flight[entry].task = "running"
           /\ flight' = [flight EXCEPT ![entry].waiters = @ + 1] /\ Joins(c, entry)
  <2>1. PICK f \in Flights : f = entry
    BY <1>0, <1>3 DEF TypeOK
  <2>2. entry = f /\ flight[f].task = "running"
        /\ flight' = [flight EXCEPT ![f].waiters = @ + 1] /\ Joins(c, f)
    BY <1>3, <2>1
  <2>3. /\ CallsOK' /\ FlightsOK' /\ CallBecomes(c, "wait", call[c].gen, f)
        /\ FlightBecomes(f, "running", flight[f].gen, flight[f].waiters + 1)
    BY <2>2, JoinKeeps, ConstantsOK
  <2>4. entry' = f
    BY <2>2 DEF Joins
  <2>5. QED
    BY <1>0, <2>1, <2>2, <2>3, <2>4, Parts
<1>4. CASE entry # NoFlight /\ Outcome(c, entry) /\ UNCHANGED <<entry, flight>>
  <2>1. PICK f \in Flights : f = entry
    BY <1>0, <1>4 DEF TypeOK
  <2>2. /\ CallsOK'
        /\ \/ flight[f].task = "done" /\ CallBecomes(c, "send", flight[f].gen, NoFlight)
           \/ CallBecomes(c, "idle", 0, NoFlight)
    BY <1>4, <2>1, OutcomeKeeps
  <2>3. FlightsOK'
    BY <1>4, Parts DEF FlightsOK
  <2>4. QED
    BY <1>0, <1>4, <2>1, <2>2, <2>3, Parts
<1>5. ASSUME ~closed, ~Usable, entry = NoFlight, NEW f \in Flights, Launches(c, f)
      PROVE  /\ Inductive' /\ Free(f) /\ entry' = f
             /\ CallBecomes(c, "wait", call[c].gen, f)
             /\ FlightBecomes(f, "running", 0, 1)
  <2>1. /\ Free(f) /\ Joins(c, f) /\ entry' = f /\ entry # f
        /\ flight' = [flight EXCEPT ![f] = [task |-> "running", gen |-> 0, waiters |-> 1]]
    BY <1>5 DEF Launches, Joins, Free
  <2>2. /\ CallsOK' /\ FlightsOK' /\ CallBecomes(c, "wait", call[c].gen, f)
        /\ FlightBecomes(f, "running", 0, 1)
    BY <1>5, <2>1, JoinKeeps
  <2>3. QED
    BY <1>0, <2>1, <2>2, Parts
<1>6. CASE ~closed /\ ~Usable /\ entry = NoFlight /\ \E f \in Flights : Launches(c, f)
  BY <1>0, <1>5, <1>6
<1> QED
  BY <1>1, <1>2, <1>3, <1>4, <1>6 DEF Authorize

\* A waiter that resumes or is cancelled leaves its flight.
Leaves(c) ==
    /\ call[c].on \in Flights
    /\ Release(call[c].on)
    /\ UNCHANGED <<closed, token, issued, stale, refused>>

LEMMA ResumeBecomes ==
    ASSUME Inductive, NEW c \in Calls, Resume(c)
    PROVE  /\ Inductive' /\ At(c, "wait") /\ Leaves(c)
           /\ \/ /\ flight[call[c].on].task = "done"
                 /\ CallBecomes(c, "send", flight[call[c].on].gen, NoFlight)
              \/ CallBecomes(c, "idle", 0, NoFlight)
<1>1. PICK f \in Flights : f = call[c].on
  BY Parts DEF Resume, CallsOK
<1>2. /\ At(c, "wait") /\ Outcome(c, f) /\ Release(f)
      /\ UNCHANGED <<closed, token, issued, stale, refused>>
  BY <1>1 DEF Resume
<1>3. TokensOK'
  BY <1>2, TokensKept
<1>4. CallsOK' /\ (\/ flight[f].task = "done" /\ CallBecomes(c, "send", flight[f].gen, NoFlight)
                   \/ CallBecomes(c, "idle", 0, NoFlight))
  BY <1>2, OutcomeKeeps
<1>5. FlightsOK'
  BY <1>2, ReleaseBecomes
<1> QED
  BY <1>1, <1>2, <1>3, <1>4, <1>5, Parts DEF Leaves

LEMMA CancelBecomes ==
    ASSUME Inductive, NEW c \in Calls, Cancel(c)
    PROVE  /\ Inductive' /\ CallBecomes(c, "idle", 0, NoFlight)
           /\ \/ At(c, "wait") /\ Leaves(c)
              \/ ~At(c, "wait") /\ UNCHANGED <<closed, token, issued, stale, refused, entry, flight>>
<1>0. TypeOK /\ UNCHANGED <<closed, token, issued, stale, refused>> /\ Return(c)
  BY DEF Inductive, Cancel
<1>1. CallBecomes(c, "idle", 0, NoFlight) /\ CallsOK' /\ TokensOK'
  BY <1>0, ReturnBecomes, CallsKept, TokensKept
<1>2. CASE At(c, "wait")
  <2>1. call[c].on \in Flights /\ Release(call[c].on)
    BY <1>2, Parts DEF Cancel, CallsOK
  <2>2. FlightsOK'
    BY <2>1, ReleaseBecomes
  <2>3. QED
    BY <1>0, <1>1, <1>2, <2>1, <2>2, Parts DEF Leaves
<1>3. CASE ~At(c, "wait")
  <2>1. UNCHANGED <<entry, flight>>
    BY <1>3 DEF Cancel
  <2>2. FlightsOK'
    BY <2>1, Parts DEF FlightsOK
  <2>3. QED
    BY <1>0, <1>1, <1>3, <2>1, <2>2, Parts
<1> QED
  BY <1>2, <1>3

\* The answer of the source: the call returns, or a refused read drops its
\* token, which nobody waits for any more, and is sent again or given up.
Refused(c) ==
    /\ Answerable(c)
    /\ token' = IF token = call[c].gen THEN 0 ELSE token
    /\ refused' = refused \cup {call[c].gen}
    /\ UNCHANGED <<closed, issued, stale, entry, flight>>

LEMMA AnswerBecomes ==
    ASSUME Inductive, NEW c \in Calls,
           Answered(c) \/ MutationRefused(c) \/ ReadRefused(c) \/ ReadRefusedClosed(c)
    PROVE  /\ Inductive' /\ At(c, "send")
           /\ \/ CallBecomes(c, "idle", 0, NoFlight)
              \/ CallBecomes(c, "authorize", call[c].gen, call[c].on)
           /\ \/ UNCHANGED <<closed, token, issued, stale, refused, entry, flight>>
              \/ Refused(c)
<1>0. /\ TypeOK /\ At(c, "send") /\ FlightsOK' /\ UNCHANGED <<closed, issued, stale, entry, flight>>
  BY Parts DEF Inductive, Answered, MutationRefused, ReadRefused, ReadRefusedClosed, Answerable,
               FlightsOK
<1>1. CASE Answered(c) \/ MutationRefused(c) \/ ReadRefusedClosed(c)
  <2>1. Return(c) /\ UNCHANGED <<closed, token, issued, stale, refused>>
    BY <1>1 DEF Answered, MutationRefused, ReadRefusedClosed
  <2>2. CallBecomes(c, "idle", 0, NoFlight) /\ CallsOK' /\ TokensOK'
    BY <1>0, <2>1, ReturnBecomes, CallsKept, TokensKept
  <2>3. QED
    BY <1>0, <2>1, <2>2, Parts
<1>2. CASE ReadRefused(c)
  <2>1. Refused(c)
    BY <1>2 DEF ReadRefused, Refused
  <2>2. call[c].gen \in Generations /\ token' \in Generations
    BY <1>0, <1>2, ZeroIsGeneration DEF ReadRefused, TypeOK, CallStates
  <2>3. TokensOK'
    BY <2>1, <2>2, Parts DEF Refused, TokensOK
  <2>4. \/ CallBecomes(c, "idle", 0, NoFlight)
        \/ CallBecomes(c, "authorize", call[c].gen, call[c].on)
    BY <1>0, <1>2, ReturnBecomes, ReplayBecomes DEF ReadRefused
  <2>5. CallsOK'
    BY <2>4, CallsKept
  <2>6. QED
    BY <1>0, <2>1, <2>3, <2>4, <2>5, Parts
<1> QED
  BY <1>1, <1>2

LEMMA InitInductive == Init => Inductive
<1> SUFFICES ASSUME Init PROVE Inductive
  OBVIOUS
<1>1. NewFlight \in FlightStates /\ NewFlight.task = "none"
  BY ZeroIsGeneration DEF NewFlight, FlightStates
<1>2. IdleCall \in CallStates /\ IdleCall.at = "idle"
  BY ZeroIsGeneration DEF IdleCall, CallStates
<1>3. TypeOK
  BY <1>1, <1>2, ZeroIsGeneration DEF Init, TypeOK
<1>4. References /\ TableOwnsLogin
  BY <1>1, <1>2 DEF Init, References, TableOwnsLogin
<1> QED
  BY <1>3, <1>4 DEF Inductive

LEMMA StartKeeps ==
    ASSUME Inductive, NEW c \in Calls, Start(c)
    PROVE  /\ Inductive' /\ At(c, "idle")
           /\ CallBecomes(c, "authorize", call[c].gen, call[c].on)
           /\ UNCHANGED <<closed, token, issued, stale, entry, flight, refused>>
<1>0. TypeOK /\ At(c, "idle") /\ UNCHANGED <<closed, token, issued, stale, entry, flight, refused>>
  BY DEF Inductive, Start
<1>1. CallBecomes(c, "authorize", call[c].gen, call[c].on)
  BY <1>0, StartBecomes
<1>2. CallsOK' /\ TokensOK' /\ FlightsOK'
  BY <1>0, <1>1, CallsKept, TokensKept, Parts DEF FlightsOK
<1> QED
  BY <1>0, <1>1, <1>2, Parts

LEMMA LoginKeeps ==
    ASSUME Inductive, NEW f \in Flights, Login(f)
    PROVE  Inductive'
<1>1. FlightsOK' /\ TokensOK' /\ call' = call
  BY LoginBecomes
<1>2. CallsOK'
  BY <1>1, Parts DEF CallsOK
<1> QED
  BY <1>1, <1>2, Parts

LEMMA CloseKeeps == ASSUME Inductive, Close PROVE Inductive'
<1>1. FlightsOK'
  BY CloseBecomes
<1>2. CallsOK'
  BY Parts DEF Close, CallsOK
<1>3. TokensOK'
  BY ZeroIsGeneration, Parts DEF Close, TokensOK
<1> QED
  BY <1>1, <1>2, <1>3, Parts

LEMMA BoundaryKeeps == ASSUME Inductive, Boundary PROVE Inductive'
<1>1. FlightsOK' /\ CallsOK'
  BY Parts DEF Boundary, FlightsOK, CallsOK
<1>2. TokensOK'
  BY Parts DEF Boundary, TokensOK
<1> QED
  BY <1>1, <1>2, Parts

LEMMA StepInductive == Inductive /\ [Next]_vars => Inductive'
<1> SUFFICES ASSUME Inductive, [Next]_vars PROVE Inductive'
  OBVIOUS
<1>1. ASSUME NEW c \in Calls, Start(c) PROVE Inductive'
  BY <1>1, StartKeeps
<1>2. ASSUME NEW c \in Calls, Step(c) PROVE Inductive'
  BY <1>2, AuthorizeBecomes, ResumeBecomes, AnswerBecomes DEF Step
<1>3. ASSUME NEW c \in Calls, Cancel(c) PROVE Inductive'
  BY <1>3, CancelBecomes
<1>4. ASSUME NEW f \in Flights, Login(f) PROVE Inductive'
  BY <1>4, LoginKeeps
<1>5. CASE Boundary
  BY <1>5, BoundaryKeeps
<1>6. CASE Close
  BY <1>6, CloseKeeps
<1>7. CASE UNCHANGED vars
  BY <1>7 DEF vars, Inductive, TypeOK, References, TableOwnsLogin
<1> QED
  BY <1>1, <1>2, <1>3, <1>4, <1>5, <1>6, <1>7 DEF Next

\* Every reachable state is well typed; in particular no request leaves
\* without a token, also when its login failed or was cancelled under it.
THEOREM TypeCorrect == Spec => []TypeOK
<1>1. Spec => []Inductive
  BY InitInductive, StepInductive, PTL DEF Spec
<1>2. Inductive => TypeOK
  BY DEF Inductive
<1> QED
  BY <1>1, <1>2, PTL

\* For any number of concurrent calls, at most one login of the Principal runs:
\* a waiter that leaves last cancels its login in the step that makes room in
\* the table for the next.
THEOREM SingleFlight == Spec => []OneLogin
<1>1. Spec => []Inductive
  BY InitInductive, StepInductive, PTL DEF Spec
<1>2. Inductive => OneLogin
  BY DEF Inductive, TableOwnsLogin, OneLogin
<1> QED
  BY <1>1, <1>2, PTL

-----------------------------------------------------------------------------
(* Logins happen only when they are needed                                 *)

\* While the strategy is open, the latest token is bound, or it is gone for a
\* reason.
LatestOrGone ==
    ~closed => \/ token = issued
               \/ token = 0 /\ issued \in stale \cup refused

Needed == LatestOrGone /\ NoNeedlessLogin

\* A step that starts no login and keeps the tokens.
LEMMA NoLoginStarts ==
    ASSUME Needed, UNCHANGED <<closed, token, issued, stale, refused>>,
           \A f \in Flights : flight'[f].task = "running" => flight[f].task = "running"
    PROVE  Needed'
BY DEF Needed, LatestOrGone, NoNeedlessLogin

LEMMA LeavesStartsNone ==
    ASSUME Inductive, Needed, NEW c \in Calls, Leaves(c)
    PROVE  Needed'
<1>0. PICK f \in Flights : f = call[c].on
  BY DEF Leaves
<1>1. Release(f) /\ UNCHANGED <<closed, token, issued, stale, refused>>
  BY <1>0 DEF Leaves
<1>2. \A e \in Flights : flight'[e].task = "running" => flight[e].task = "running"
  BY <1>1, ReleaseBecomes DEF FlightBecomes
<1> QED
  BY <1>1, <1>2, NoLoginStarts

LEMMA AuthorizeNeeded ==
    ASSUME Inductive, Needed, NEW c \in Calls, Authorize(c)
    PROVE  Needed'
<1>0. UNCHANGED <<closed, token, issued, stale, refused>>
  BY AuthorizeBecomes
<1>1. CASE UNCHANGED flight
  BY <1>0, <1>1, NoLoginStarts
<1>2. ASSUME NEW f \in Flights, flight[f].task = "running",
             FlightBecomes(f, "running", flight[f].gen, flight[f].waiters + 1)
      PROVE  Needed'
  BY <1>0, <1>2, NoLoginStarts DEF FlightBecomes
<1>3. CASE ~closed /\ ~Usable
  BY <1>0, <1>3 DEF Usable, Needed, LatestOrGone, NoNeedlessLogin
<1> QED
  BY <1>1, <1>2, <1>3, AuthorizeBecomes

LEMMA AnswerNeeded ==
    ASSUME Inductive, Needed, NEW c \in Calls,
           Answered(c) \/ MutationRefused(c) \/ ReadRefused(c) \/ ReadRefusedClosed(c)
    PROVE  Needed'
<1>1. CASE UNCHANGED <<closed, token, issued, stale, refused, entry, flight>>
  BY <1>1, NoLoginStarts
<1>2. CASE Refused(c)
  BY <1>2 DEF Refused, Needed, LatestOrGone, NoNeedlessLogin
<1> QED
  BY <1>1, <1>2, AnswerBecomes

LEMMA LoginNeeded ==
    ASSUME Inductive, Needed, NEW f \in Flights, Login(f)
    PROVE  Needed'
<1>1. CASE /\ issued' = issued + 1 /\ token' = issued' /\ closed' = closed
           /\ FlightBecomes(f, "done", issued', flight[f].waiters)
  <2>1. \A e \in Flights : flight'[e].task # "running"
    BY <1>1, Parts, LoginBecomes DEF FlightsOK, FlightBecomes
  <2>2. QED
    BY <1>1, <2>1 DEF Needed, LatestOrGone, NoNeedlessLogin
<1>2. CASE /\ UNCHANGED <<closed, token, issued, stale, refused>>
           /\ FlightBecomes(f, "failed", flight[f].gen, flight[f].waiters)
  BY <1>2, NoLoginStarts DEF FlightBecomes
<1> QED
  BY <1>1, <1>2, LoginBecomes

LEMMA StepNeeded == Inductive /\ Needed /\ [Next]_vars => Needed'
<1> SUFFICES ASSUME Inductive, Needed, [Next]_vars PROVE Needed'
  OBVIOUS
<1>1. ASSUME NEW c \in Calls, Start(c) PROVE Needed'
  BY <1>1, NoLoginStarts DEF Start
<1>2. ASSUME NEW c \in Calls, Step(c) PROVE Needed'
  BY <1>2, ResumeBecomes, LeavesStartsNone, AuthorizeNeeded, AnswerNeeded DEF Step
<1>3. ASSUME NEW c \in Calls, Cancel(c) PROVE Needed'
  BY <1>3, CancelBecomes, LeavesStartsNone, NoLoginStarts
<1>4. ASSUME NEW f \in Flights, Login(f) PROVE Needed'
  BY <1>4, LoginNeeded
<1>5. CASE Boundary
  BY <1>5 DEF Boundary, Needed, LatestOrGone, NoNeedlessLogin
<1>6. CASE Close
  BY <1>6, CloseBecomes DEF Close, Needed, LatestOrGone, NoNeedlessLogin
<1>7. CASE UNCHANGED vars
  BY <1>7, NoLoginStarts DEF vars
<1> QED
  BY <1>1, <1>2, <1>3, <1>4, <1>5, <1>6, <1>7 DEF Next

\* For any number of concurrent calls, a login runs only when the latest token
\* has reached its boundary or was refused: on_unauthorized compares the
\* generations, so calls whose common token was refused cost one login.
THEOREM LoginsAreNeeded == Spec => []NoNeedlessLogin
<1>1. Init => Needed
  BY DEF Init, Needed, LatestOrGone, NoNeedlessLogin
<1>2. Spec => [](Inductive /\ Needed)
  BY <1>1, InitInductive, StepInductive, StepNeeded, PTL DEF Spec
<1>3. Needed => NoNeedlessLogin
  BY DEF Needed
<1> QED
  BY <1>2, <1>3, PTL

-----------------------------------------------------------------------------
(* The count of waiters decides rightly who leaves last                    *)

Waiting(f) == {c \in Calls : At(c, "wait") /\ call[c].on = f}

\* The table is empty once the strategy is closed; the flight in it is awaited
\* and counts its waiters.
Counted ==
    /\ closed => entry = NoFlight
    /\ \A f \in Flights :
          f = entry => flight[f].waiters = Cardinality(Waiting(f)) /\ Waiting(f) # {}

\* One waiter more or less is one more or less to count.
LEMMA WaitersCounted ==
    ASSUME NEW f, NEW c \in Calls
    PROVE  /\ Cardinality(Waiting(f)) \in Nat
           /\ c \notin Waiting(f) =>
                 Cardinality(Waiting(f) \cup {c}) = Cardinality(Waiting(f)) + 1
           /\ c \in Waiting(f) =>
                 /\ Cardinality(Waiting(f) \ {c}) = Cardinality(Waiting(f)) - 1
                 /\ Waiting(f) \ {c} = {} => Cardinality(Waiting(f)) = 1
           /\ Waiting(f) = {} => Cardinality(Waiting(f) \cup {c}) = 1
<1>1. Waiting(f) \in SUBSET Calls
  BY DEF Waiting
<1>2. IsFiniteSet(Waiting(f))
  BY <1>1, ConstantsOK, FS_Subset
<1>3. Cardinality(Waiting(f)) \in Nat
  BY <1>2, FS_CardinalityType
<1>4. Cardinality(Waiting(f) \cup {c}) =
         IF c \in Waiting(f) THEN Cardinality(Waiting(f)) ELSE Cardinality(Waiting(f)) + 1
  BY <1>2, FS_AddElement
<1>5. Cardinality(Waiting(f) \ {c}) =
         IF c \in Waiting(f) THEN Cardinality(Waiting(f)) - 1 ELSE Cardinality(Waiting(f))
  BY <1>2, FS_RemoveElement
<1>6. Waiting(f) \ {c} = {} => Cardinality(Waiting(f) \ {c}) = 0
  BY FS_EmptySet
<1>7. Waiting(f) = {} => Cardinality(Waiting(f)) = 0
  BY FS_EmptySet
<1>8. Waiting(f) = {} => Cardinality(Waiting(f) \cup {c}) = 1
  BY <1>4, <1>7
<1> QED
  BY <1>3, <1>4, <1>5, <1>6, <1>8

\* Who waits after a step of c.
LEMMA WaitingAfter ==
    ASSUME NEW c \in Calls, NEW at, NEW gen, NEW on, CallBecomes(c, at, gen, on), NEW f
    PROVE  /\ at = "wait" /\ on = f => Waiting(f)' = Waiting(f) \cup {c}
           /\ ~(at = "wait" /\ on = f) => Waiting(f)' = Waiting(f) \ {c}
BY DEF CallBecomes, Waiting

\* A call that neither waits nor will wait, while the flights stay.
LEMMA BystanderCounted ==
    ASSUME Inductive, Counted, NEW c \in Calls, NEW at, NEW gen, NEW on,
           CallBecomes(c, at, gen, on), at # "wait", ~At(c, "wait"),
           UNCHANGED <<closed, entry, flight>>
    PROVE  Counted'
<1>1. \A f \in Flights : Waiting(f)' = Waiting(f)
  <2> SUFFICES ASSUME NEW f \in Flights PROVE Waiting(f)' = Waiting(f)
    OBVIOUS
  <2>1. Waiting(f)' = Waiting(f) \ {c}
    BY WaitingAfter
  <2>2. c \notin Waiting(f)
    BY DEF Waiting
  <2>3. QED
    BY <2>1, <2>2
<1> QED
  BY <1>1 DEF Counted

LEMMA JoinCounted ==
    ASSUME Inductive, Counted, NEW c \in Calls, NEW f \in Flights, ~At(c, "wait"),
           entry' = f, CallBecomes(c, "wait", call[c].gen, f), closed' = closed,
           \/ entry = f /\ FlightBecomes(f, "running", flight[f].gen, flight[f].waiters + 1)
           \/ ~closed /\ entry = NoFlight /\ Free(f) /\ FlightBecomes(f, "running", 0, 1)
    PROVE  Counted'
<1>1. Waiting(f)' = Waiting(f) \cup {c}
  BY WaitingAfter
<1>2. c \notin Waiting(f)
  BY DEF Waiting
<1>3. ~closed
  BY ConstantsOK DEF Counted
<1>4. flight'[f].waiters = Cardinality(Waiting(f)')
  <2>1. CASE entry = f /\ FlightBecomes(f, "running", flight[f].gen, flight[f].waiters + 1)
    BY <1>1, <1>2, <2>1, WaitersCounted DEF Counted, FlightBecomes
  <2>2. CASE Free(f) /\ FlightBecomes(f, "running", 0, 1)
    <3>1. Waiting(f) = {}
      BY <2>2 DEF Free, Waiting
    <3>2. Cardinality(Waiting(f) \cup {c}) = 1
      BY <3>1, WaitersCounted, Zenon
    <3>3. flight'[f].waiters = 1
      BY <2>2 DEF FlightBecomes
    <3>4. QED
      BY <1>1, <3>2, <3>3, Zenon
  <2>3. QED
    BY <2>1, <2>2
<1>5. Waiting(f)' # {}
  BY <1>1
<1> QED
  BY <1>3, <1>4, <1>5 DEF Counted

LEMMA LeavesCounted ==
    ASSUME Inductive, Counted, NEW c \in Calls, NEW at, NEW gen, NEW on,
           CallBecomes(c, at, gen, on), at # "wait", At(c, "wait"), Leaves(c)
    PROVE  Counted'
<1>0. PICK f \in Flights : f = call[c].on
  BY DEF Leaves
<1>1. Release(f) /\ closed' = closed
  BY <1>0 DEF Leaves
<1>2. c \in Waiting(f) /\ \A e \in Flights \ {f} : c \notin Waiting(e)
  BY <1>0 DEF Waiting
<1>3. \A e \in Flights : Waiting(e)' = Waiting(e) \ {c}
  BY WaitingAfter
<1>4. \A e \in Flights \ {f} : Waiting(e)' = Waiting(e)
  BY <1>2, <1>3
<1>5. CASE (closed \/ entry # f) /\ UNCHANGED <<entry, flight>>
  BY <1>1, <1>4, <1>5, ConstantsOK DEF Counted
<1>6. CASE entry' = NoFlight
  BY <1>6, ConstantsOK DEF Counted
<1>7. CASE /\ ~closed /\ entry = f /\ flight[f].waiters # 1 /\ entry' = entry
           /\ FlightBecomes(f, flight[f].task, flight[f].gen, flight[f].waiters - 1)
  <2>1. flight[f].waiters = Cardinality(Waiting(f))
    BY <1>1, <1>7 DEF Counted
  <2>2. Waiting(f)' = Waiting(f) \ {c}
    BY <1>1, <1>3, Zenon
  <2>3. flight'[f].waiters = flight[f].waiters - 1
    BY <1>7 DEF FlightBecomes
  <2>4. /\ Cardinality(Waiting(f) \ {c}) = Cardinality(Waiting(f)) - 1
        /\ Waiting(f) \ {c} = {} => Cardinality(Waiting(f)) = 1
    BY <1>2, WaitersCounted, Zenon
  <2>5. flight'[f].waiters = Cardinality(Waiting(f)')
    BY <2>1, <2>2, <2>3, <2>4
  <2>6. Waiting(f)' # {}
    BY <1>7, <2>1, <2>2, <2>4, Zenon
  <2>7. QED
    BY <1>1, <1>7, <2>5, <2>6 DEF Counted
<1> QED
  BY <1>1, <1>5, <1>6, <1>7, ReleaseBecomes

LEMMA LoginCounted ==
    ASSUME Inductive, Counted, NEW f \in Flights, Login(f)
    PROVE  Counted'
<1>1. /\ UNCHANGED <<closed, entry, call>> /\ flight'[f].waiters = flight[f].waiters
      /\ \A e \in Flights \ {f} : flight'[e] = flight[e]
  BY LoginBecomes DEF FlightBecomes
<1>2. \A e \in Flights : Waiting(e)' = Waiting(e) /\ flight'[e].waiters = flight[e].waiters
  BY <1>1 DEF Waiting
<1> QED
  BY <1>1, <1>2 DEF Counted

LEMMA StepCounted == Inductive /\ Counted /\ [Next]_vars => Counted'
<1> SUFFICES ASSUME Inductive, Counted, [Next]_vars PROVE Counted'
  OBVIOUS
<1>1. ASSUME NEW c \in Calls, Start(c) PROVE Counted'
  BY <1>1, StartKeeps, BystanderCounted
<1>2. ASSUME NEW c \in Calls, Authorize(c) PROVE Counted'
  <2>1. ~At(c, "wait") /\ closed' = closed
    BY <1>2, AuthorizeBecomes
  <2>2. CASE UNCHANGED <<entry, flight>>
             /\ \E at \in {"idle", "send"}, gen \in {0, token} \cup {flight[f].gen : f \in Flights} :
                   CallBecomes(c, at, gen, NoFlight)
    BY <2>1, <2>2, BystanderCounted
  <2>3. QED
    BY <1>2, <2>1, <2>2, AuthorizeBecomes, JoinCounted
<1>3. ASSUME NEW c \in Calls, Resume(c) PROVE Counted'
  BY <1>3, ResumeBecomes, LeavesCounted
<1>4. ASSUME NEW c \in Calls, Cancel(c) PROVE Counted'
  BY <1>4, CancelBecomes, LeavesCounted, BystanderCounted
<1>5. ASSUME NEW c \in Calls,
             Answered(c) \/ MutationRefused(c) \/ ReadRefused(c) \/ ReadRefusedClosed(c)
      PROVE  Counted'
  <2>1. ~At(c, "wait") /\ UNCHANGED <<closed, entry, flight>>
    BY <1>5, AnswerBecomes DEF Refused
  <2>2. QED
    BY <1>5, <2>1, AnswerBecomes, BystanderCounted
<1>6. ASSUME NEW c \in Calls, Step(c) PROVE Counted'
  BY <1>2, <1>3, <1>5, <1>6 DEF Step
<1>7. ASSUME NEW f \in Flights, Login(f) PROVE Counted'
  BY <1>7, LoginCounted
<1>8. CASE Boundary
  BY <1>8 DEF Boundary, Counted, Waiting
<1>9. CASE Close
  BY <1>9, ConstantsOK DEF Close, Counted
<1>10. CASE UNCHANGED vars
  BY <1>10 DEF vars, Counted, Waiting
<1> QED
  BY <1>1, <1>4, <1>6, <1>7, <1>8, <1>9, <1>10 DEF Next

\* For any number of concurrent calls, a login runs only while somebody waits
\* for it, and _release_waiter's count is exact: the waiter it takes for the
\* last one is the last one, however joins, answers and cancellations interleave.
THEOREM LoginsAreAwaited == Spec => []LoginIsAwaited
<1>1. Init => Counted
  BY ConstantsOK DEF Init, Counted
<1>2. Spec => [](Inductive /\ Counted)
  BY <1>1, InitInductive, StepInductive, StepCounted, PTL DEF Spec
<1>3. Inductive /\ Counted => LoginIsAwaited
  BY DEF Inductive, TableOwnsLogin, Counted, Waiting, LoginIsAwaited
<1> QED
  BY <1>2, <1>3, PTL

-----------------------------------------------------------------------------
(* A refused token is not sent again                                       *)

\* The refused tokens are old ones: neither the bound token nor one that a
\* waiter is about to be given is among them.
Fresh ==
    /\ refused \subseteq 0..issued /\ token <= issued
    /\ token # 0 => token \notin refused
    /\ \A c \in Calls : call[c].gen <= issued
    /\ \A f \in Flights : flight[f].gen <= issued
    /\ \A c \in Calls, f \in Flights :
          c \in Waiting(f) /\ flight[f].task = "done" => flight[f].gen \notin refused

\* No request leaves in a step that changes no token with a refused one.
NotSent == \A c \in Calls : call'[c].at = "send" /\ ~At(c, "send") => call'[c].gen \notin refused

Fine == Inductive /\ Counted /\ Fresh

\* A step of c that keeps the tokens and what the flights brought.
LEMMA FreshKept ==
    ASSUME Fine, NEW c \in Calls, NEW at, NEW gen, NEW on,
           CallBecomes(c, at, gen, on), gen <= issued,
           at = "send" /\ ~At(c, "send") => gen \notin refused,
           UNCHANGED <<token, issued, refused>>,
           \A f \in Flights :
              /\ flight'[f].gen <= issued
              /\ flight'[f].task = "done" =>
                    /\ flight[f].task = "done" /\ flight'[f].gen = flight[f].gen
                    /\ ~(at = "wait" /\ on = f)
    PROVE  Fresh' /\ NotSent
<1>1. \A d \in Calls : call'[d].gen <= issued
  BY DEF Fine, Fresh, CallBecomes
<1>2. ASSUME NEW d \in Calls, NEW f \in Flights,
             d \in Waiting(f)', flight'[f].task = "done"
      PROVE  flight'[f].gen \notin refused
  <2>1. Waiting(f)' = Waiting(f) \ {c}
    BY <1>2, WaitingAfter
  <2>2. d \in Waiting(f)
    BY <1>2, <2>1
  <2>3. QED
    BY <1>2, <2>2 DEF Fine, Fresh
<1>3. Fresh'
  BY <1>1, <1>2 DEF Fine, Fresh
<1>4. NotSent
  BY DEF NotSent, CallBecomes
<1> QED
  BY <1>3, <1>4

LEMMA ZeroIssued == ASSUME Fine PROVE 0 <= issued
BY ConstantsOK DEF Fine, Inductive, TypeOK, Generations

LEMMA AuthorizeFresh ==
    ASSUME Fine, NEW c \in Calls, Authorize(c)
    PROVE  Fresh' /\ NotSent
<1>0. /\ Inductive /\ UNCHANGED <<token, issued, refused>> /\ At(c, "authorize")
      /\ call[c].gen <= issued /\ token <= issued
      /\ \A f \in Flights : flight[f].gen <= issued
  BY AuthorizeBecomes DEF Fine, Fresh
<1>1. CASE UNCHANGED <<entry, flight>> /\ CallBecomes(c, "idle", 0, NoFlight)
  BY <1>0, <1>1, FreshKept, ZeroIssued
<1>2. CASE UNCHANGED <<entry, flight>> /\ Usable /\ CallBecomes(c, "send", token, NoFlight)
  <2>1. token \notin refused
    BY <1>2 DEF Usable, Fine, Fresh
  <2>2. QED
    BY <1>0, <1>2, <2>1, FreshKept
<1>3. ASSUME NEW f \in Flights, UNCHANGED <<entry, flight>>, f = entry,
             flight[f].task = "done", CallBecomes(c, "send", flight[f].gen, NoFlight)
      PROVE  Fresh' /\ NotSent
  <2>1. PICK d \in Calls : d \in Waiting(f)
    BY <1>3 DEF Fine, Counted, Waiting
  <2>2. flight[f].gen \notin refused
    BY <1>3, <2>1 DEF Fine, Fresh
  <2>3. QED
    BY <1>0, <1>3, <2>2, FreshKept
<1>4. ASSUME NEW f \in Flights, CallBecomes(c, "wait", call[c].gen, f),
             \/ FlightBecomes(f, "running", flight[f].gen, flight[f].waiters + 1)
             \/ FlightBecomes(f, "running", 0, 1)
      PROVE  Fresh' /\ NotSent
  <2>1. \A e \in Flights :
           /\ flight'[e].gen <= issued
           /\ flight'[e].task = "done" => flight[e].task = "done" /\ flight'[e].gen = flight[e].gen
                                             /\ e # f
    BY <1>0, <1>4, ZeroIssued DEF FlightBecomes
  <2>2. QED
    BY <1>0, <1>4, <2>1, FreshKept
<1> QED
  BY <1>0, <1>1, <1>2, <1>3, <1>4, AuthorizeBecomes

LEMMA LeavesFresh ==
    ASSUME Fine, NEW c \in Calls, At(c, "wait"), Leaves(c),
           \/ CallBecomes(c, "idle", 0, NoFlight)
           \/ /\ flight[call[c].on].task = "done"
              /\ CallBecomes(c, "send", flight[call[c].on].gen, NoFlight)
    PROVE  Fresh' /\ NotSent
<1>0. PICK f \in Flights : f = call[c].on
  BY DEF Leaves
<1>1. /\ Inductive /\ Release(f) /\ UNCHANGED <<token, issued, refused>> /\ c \in Waiting(f)
      /\ \A e \in Flights : flight[e].gen <= issued
  BY <1>0 DEF Leaves, Waiting, Fine, Fresh
<1>2. \A e \in Flights :
         /\ flight'[e].gen <= issued
         /\ flight'[e].task = "done" => flight[e].task = "done" /\ flight'[e].gen = flight[e].gen
  BY <1>1, ReleaseBecomes, ZeroIssued DEF FlightBecomes
<1>3. CASE CallBecomes(c, "idle", 0, NoFlight)
  BY <1>1, <1>2, <1>3, FreshKept, ZeroIssued
<1>4. CASE flight[f].task = "done" /\ CallBecomes(c, "send", flight[f].gen, NoFlight)
  <2>1. flight[f].gen \notin refused
    BY <1>1, <1>4 DEF Fine, Fresh
  <2>2. QED
    BY <1>1, <1>2, <1>4, <2>1, FreshKept
<1> QED
  BY <1>0, <1>3, <1>4

\* A refused token is dropped, and no waiter is about to be given it: a request
\* is answered after the waiters of its login have resumed.
LEMMA AnswerFresh ==
    ASSUME Fine, NEW c \in Calls,
           Answered(c) \/ MutationRefused(c) \/ ReadRefused(c) \/ ReadRefusedClosed(c)
    PROVE  Fresh' /\ NotSent
<1> DEFINE g == call[c].gen
<1>0. /\ Inductive /\ At(c, "send") /\ g <= issued
      /\ \/ CallBecomes(c, "idle", 0, NoFlight)
         \/ CallBecomes(c, "authorize", g, call[c].on)
      /\ \A f \in Flights : flight[f].gen <= issued
  BY AnswerBecomes DEF Fine, Fresh
<1>1. CASE UNCHANGED <<closed, token, issued, stale, refused, entry, flight>>
  BY <1>0, <1>1, FreshKept, ZeroIssued
<1>2. CASE Refused(c)
  <2>1. g \in 0..issued /\ 0 <= issued
    BY <1>0, ConstantsOK DEF Inductive, TypeOK, CallStates, Generations
  <2>2. /\ refused' \subseteq 0..issued' /\ token' <= issued'
        /\ token' # 0 => token' \notin refused'
    BY <1>2, <2>1 DEF Refused, Fine, Fresh
  <2>3. \A d \in Calls : call'[d].gen <= issued'
    BY <1>0, <1>2, <2>1 DEF Refused, Fine, Fresh, CallBecomes
  <2>4. \A f \in Flights : flight'[f].gen <= issued'
    BY <1>0, <1>2 DEF Refused
  <2>5. ASSUME NEW d \in Calls, NEW f \in Flights,
               d \in Waiting(f)', flight'[f].task = "done"
        PROVE  flight'[f].gen \notin refused'
    <3>1. Waiting(f)' = Waiting(f) \ {c}
      BY <1>0, WaitingAfter
    <3>2. d \in Waiting(f) /\ flight[f].task = "done" /\ flight'[f].gen = flight[f].gen
      BY <1>2, <2>5, <3>1 DEF Refused
    <3>3. flight[f].gen \notin refused
      BY <3>2 DEF Fine, Fresh
    <3>4. flight[f].gen # g
      BY <1>2, <3>2 DEF Refused, Answerable, Waiting
    <3>5. QED
      BY <1>2, <3>2, <3>3, <3>4 DEF Refused
  <2>6. NotSent
    BY <1>0 DEF NotSent, CallBecomes
  <2>7. QED
    BY <2>2, <2>3, <2>4, <2>5, <2>6 DEF Fresh
<1> QED
  BY <1>0, <1>1, <1>2, AnswerBecomes

LEMMA LoginFresh ==
    ASSUME Fine, NEW f \in Flights, Login(f)
    PROVE  Fresh' /\ NotSent
<1>0. /\ Inductive /\ UNCHANGED <<call, refused>> /\ flight[f].task = "running"
      /\ issued \in Int /\ \A e \in Flights : flight[e].gen \in Int
      /\ \A d \in Calls : call[d].gen \in Int
  BY LoginBecomes DEF Fine, Inductive, TypeOK, Generations, CallStates, FlightStates
<1>1. NotSent /\ \A e \in Flights : Waiting(e)' = Waiting(e)
  BY <1>0 DEF NotSent, Waiting
<1>2. CASE /\ issued' = issued + 1 /\ token' = issued'
           /\ FlightBecomes(f, "done", issued', flight[f].waiters)
  <2>1. issued' \notin refused
    BY <1>0, <1>2 DEF Fine, Fresh
  <2>2. refused' \subseteq 0..issued' /\ token' <= issued' /\ token' \notin refused'
    BY <1>0, <1>2, <2>1 DEF Fine, Fresh
  <2>3. \A d \in Calls : call'[d].gen <= issued'
    BY <1>0, <1>2 DEF Fine, Fresh
  <2>4. \A e \in Flights : flight'[e].gen <= issued'
    BY <1>0, <1>2 DEF Fine, Fresh, FlightBecomes
  <2>5. \A c \in Calls, e \in Flights :
           c \in Waiting(e)' /\ flight'[e].task = "done" => flight'[e].gen \notin refused'
    BY <1>0, <1>1, <1>2, <2>1 DEF Fine, Fresh, FlightBecomes
  <2>6. QED
    BY <1>1, <2>2, <2>3, <2>4, <2>5 DEF Fresh
<1>3. CASE /\ UNCHANGED <<token, issued>>
           /\ FlightBecomes(f, "failed", flight[f].gen, flight[f].waiters)
  BY <1>0, <1>1, <1>3 DEF Fine, Fresh, FlightBecomes
<1> QED
  BY <1>2, <1>3, <1>0, LoginBecomes

LEMMA StepFresh == Fine /\ [Next]_vars => Fresh' /\ [NotSent]_vars
<1> SUFFICES ASSUME Fine, [Next]_vars PROVE Fresh' /\ [NotSent]_vars
  OBVIOUS
<1>0. Inductive
  BY DEF Fine
<1>1. ASSUME NEW c \in Calls, Start(c) PROVE Fresh' /\ NotSent
  <2>1. /\ CallBecomes(c, "authorize", call[c].gen, call[c].on)
        /\ UNCHANGED <<token, issued, refused, flight>>
        /\ call[c].gen <= issued /\ \A f \in Flights : flight[f].gen <= issued
    BY <1>0, <1>1, StartKeeps DEF Fine, Fresh
  <2>2. QED
    BY <2>1, FreshKept
<1>2. ASSUME NEW c \in Calls, Cancel(c) PROVE Fresh' /\ NotSent
  <2>1. CASE At(c, "wait") /\ Leaves(c)
    BY <1>0, <1>2, <2>1, CancelBecomes, LeavesFresh
  <2>2. CASE UNCHANGED <<closed, token, issued, stale, refused, entry, flight>>
    <3>1. \A f \in Flights : flight'[f].gen <= issued
      BY <2>2 DEF Fine, Fresh
    <3>2. QED
      BY <1>0, <1>2, <2>2, <3>1, CancelBecomes, FreshKept, ZeroIssued
  <2>3. QED
    BY <1>0, <1>2, <2>1, <2>2, CancelBecomes
<1>3. ASSUME NEW c \in Calls, Resume(c) PROVE Fresh' /\ NotSent
  BY <1>0, <1>3, ResumeBecomes, LeavesFresh
<1>4. ASSUME NEW c \in Calls, Step(c) PROVE Fresh' /\ NotSent
  BY <1>3, <1>4, AuthorizeFresh, AnswerFresh DEF Step
<1>5. ASSUME NEW f \in Flights, Login(f) PROVE Fresh' /\ NotSent
  BY <1>5, LoginFresh
<1>6. CASE Boundary
  BY <1>6 DEF Boundary, Fine, Fresh, Waiting, NotSent
<1>7. CASE Close
  <2>1. \A f \in Flights :
           /\ flight'[f].gen = flight[f].gen
           /\ flight'[f].task = "done" => flight[f].task = "done"
    BY <1>0, <1>7, CloseBecomes
  <2>2. UNCHANGED <<issued, call, refused>> /\ token' = 0
    BY <1>7 DEF Close
  <2>3. QED
    BY <2>1, <2>2, ZeroIssued DEF Fine, Fresh, Waiting, NotSent
<1>8. CASE UNCHANGED vars
  BY <1>8 DEF vars, Fine, Fresh, Waiting
<1> QED
  BY <1>1, <1>2, <1>4, <1>5, <1>6, <1>7, <1>8 DEF Next

\* For any number of concurrent calls, once on_unauthorized was told of a
\* refused token no request leaves with it: not the replay, not a waiter that
\* resumes later, and not a call that finds the finished login in the table.
THEOREM RefusedStaysUnsent == Spec => RefusedIsNotSent
<1>1. Init => Counted /\ Fresh
  <2>1. ASSUME Init PROVE Counted
    BY <2>1, ConstantsOK DEF Init, Counted
  <2>2. ASSUME Init PROVE Fresh
    BY <2>2, ConstantsOK DEF Init, Fresh, Waiting, IdleCall, NewFlight
  <2>3. QED
    BY <2>1, <2>2
<1>2. Spec => []Fine
  <2>1. Init => Fine
    BY <1>1, InitInductive DEF Fine
  <2>2. Fine /\ [Next]_vars => Fine'
    BY StepInductive, StepCounted, StepFresh DEF Fine
  <2>3. QED
    BY <2>1, <2>2, PTL DEF Spec
<1>3. Fine /\ [Next]_vars =>
         [\A c \in Calls : call'[c].at = "send" /\ ~At(c, "send") =>
             call'[c].gen \notin refused]_vars
  BY StepFresh DEF NotSent
<1> QED
  BY <1>2, <1>3, PTL DEF Spec, RefusedIsNotSent

=============================================================================
