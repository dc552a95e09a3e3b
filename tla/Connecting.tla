----------------------------- MODULE Connecting -----------------------------
(***************************************************************************)
(* An application connects a client and makes one call with it, and runs   *)
(* both through ExponentialBackoffRetry::execute.  The connection may      *)
(* break before the command arrives or while the coordinator works on it.  *)
(* Of a command that is sent again, the coordinator records each arrival   *)
(* if it merges (the builder's default) and one if it compares sequences.  *)
(*                                                                         *)
(* The services are external; what one status says is theirs, and what all *)
(* attempts together leave behind is the question.  An endpoint is its     *)
(* scheme and whether the rest of it looks like a path.                    *)
(***************************************************************************)
EXTENDS Integers, Sequences

CONSTANTS
    Policies,   \* retry policies: [min_delay, max_delay, max_attempts, jitter]
    Endpoints,  \* what connect() may be given, or the environment say
    NoChannel

ASSUME ConnectingAssumption ==
    \A p \in Policies : /\ p.min_delay \in Nat /\ p.max_delay \in Nat
                        /\ p.max_attempts \in Int /\ p.jitter \in BOOLEAN

VARIABLES
    policy,    \* the policy handed to connect() and used for the call
    channel,   \* what the client is connected to
    method,    \* the operation being executed, "none" before and "connect" first
    mode,      \* sync mode of the command: "async", or "simple" for all that wait
    merging,   \* the coordinator merges the command and does not compare sequences
    phase,     \* "idle", "trying", "sleeping", "returned" or "threw"
    outcomes,  \* the status of each attempt
    delays,    \* the time slept after each attempt that has another after it
    error,     \* last_error
    pending,   \* how many arrivals of the command the coordinator still works on
    recorded   \* how many of them it recorded

coordinator == <<merging, pending, recorded>>
connecting == <<policy, channel, method, mode, phase, outcomes, delays, error, coordinator>>

Unconnected ==
    /\ policy \in Policies
    /\ channel = NoChannel
    /\ method = "none" /\ mode = "none" /\ phase = "idle"
    /\ outcomes = <<>> /\ delays = <<>> /\ error = "OK"
    /\ merging \in BOOLEAN /\ pending = 0 /\ recorded = 0

-----------------------------------------------------------------------------
\* A path becomes a unix socket; of other schemes only what follows is kept.
format_endpoint(endpoint) ==
    IF endpoint.scheme = "" /\ endpoint.path THEN [endpoint EXCEPT !.scheme = "unix"]
    ELSE IF endpoint.scheme \in {"unix", ""} THEN endpoint
    ELSE [endpoint EXCEPT !.scheme = ""]

ASSUME ChannelAssumption == \A endpoint \in Endpoints : format_endpoint(endpoint) # NoChannel

\* The methods of CommandHandlerClient, SpeculativeClient, DomainClient and
\* QueryClient, and what each calls.
Rpcs == [handle                  |-> "HandleCommand",
         handle_sync             |-> "HandleCommand",
         handle_command          |-> "HandleCommand",
         execute                 |-> "HandleCommand",
         handle_sync_speculative |-> "HandleSyncSpeculative",
         command_handler         |-> "HandleSyncSpeculative",
         projector               |-> "HandleSpeculative",
         saga                    |-> "ExecuteSpeculative",
         process_manager         |-> "HandleSpeculative",
         get_event_book          |-> "GetEventBook"]

rpc(m) == Rpcs[m]

\* handle sets SYNC_MODE_ASYNC; handle_sync is given a mode, handle_command a
\* request that has one.
Modes(m) == IF m \in {"handle", "execute"} THEN {"async"}
            ELSE IF rpc(m) = "HandleCommand" THEN {"async", "simple"} ELSE {"none"}

\* std::pow(2, attempt).
doublings[attempt \in Nat] == IF attempt = 0 THEN 1 ELSE 2 * doublings[attempt - 1]

\* Fault: no upper bound.
unbounded_delay(attempt) == policy.min_delay * doublings[attempt]

full_delay(attempt) ==
    LET delay == policy.min_delay * doublings[attempt]
    IN  IF delay <= policy.max_delay THEN delay ELSE policy.max_delay

\* Jitter takes between half of it and all of it, rounded down.
compute_delay(attempt) ==
    LET full == full_delay(attempt)
    IN  IF policy.jitter /\ full > 0 THEN (full \div 2) .. (full - 1) ELSE {full}

-----------------------------------------------------------------------------
Begin(m) ==
    /\ method' = m
    /\ phase' = IF policy.max_attempts > 0 THEN "trying" ELSE "returned"
    /\ outcomes' = <<>> /\ delays' = <<>> /\ error' = "OK"

\* connect() of QueryClient and CommandHandlerClient, perhaps by from_env().
connect == /\ method = "none" /\ Begin("connect")
           /\ UNCHANGED <<policy, channel, mode, coordinator>>

\* connect() of SpeculativeClient and DomainClient: without a policy.
connect_directly(endpoint) ==
    /\ method = "none"
    /\ method' = "connect" /\ phase' = "returned" /\ outcomes' = <<"OK">>
    /\ channel' = format_endpoint(endpoint)
    /\ UNCHANGED <<policy, mode, delays, error, coordinator>>

\* A client without a channel crashes when it is used, and is not.
Call(m) ==
    /\ method = "connect" /\ phase = "returned" /\ channel # NoChannel
    /\ Begin(m)
    /\ mode' \in Modes(m)
    /\ UNCHANGED <<policy, channel, coordinator>>

\* What the service does with one call, and the status that comes back.  A mode
\* other than async answers OK when the command was recorded.
Serve(status) ==
    /\ \/ rpc(method) # "HandleCommand" /\ UNCHANGED <<pending, recorded>>
       \/ /\ status = "OK" /\ mode = "simple"
          /\ merging \/ recorded = 0
          /\ recorded' = recorded + 1 /\ UNCHANGED pending
       \/ /\ status = "OK" /\ mode = "async"
          /\ pending' = pending + 1 /\ UNCHANGED recorded
       \/ /\ status = "UNAVAILABLE" /\ rpc(method) = "HandleCommand"
          /\ pending' \in {pending, pending + 1} /\ UNCHANGED recorded
       \/ status = "FAILED_PRECONDITION" /\ UNCHANGED <<pending, recorded>>
    /\ UNCHANGED merging

\* The coordinator gets to an arrival nobody waits for, sooner or later.
Process ==
    /\ pending > 0 /\ pending' = pending - 1
    /\ recorded' \in {recorded} \cup {n \in {recorded + 1} : merging \/ recorded = 0}
    /\ UNCHANGED <<policy, channel, method, mode, phase, outcomes, delays, error, merging>>

\* CreateChannel makes a channel, whatever is behind it.
CreateChannel == \E endpoint \in Endpoints : channel' = format_endpoint(endpoint)

Succeed ==
    /\ phase = "trying"
    /\ IF method = "connect" THEN CreateChannel /\ UNCHANGED coordinator
       ELSE Serve("OK") /\ UNCHANGED channel
    /\ outcomes' = Append(outcomes, "OK")
    /\ phase' = "returned"
    /\ UNCHANGED <<policy, method, mode, delays, error>>

\* Fault: the last error is not thrown.
FailSilently(status) ==
    /\ phase = "trying" /\ method # "connect"
    /\ Serve(status)
    /\ outcomes' = Append(outcomes, status)
    /\ error' = status
    /\ IF Len(outcomes) < policy.max_attempts - 1
       THEN /\ phase' = "sleeping"
            /\ \E delay \in compute_delay(Len(outcomes)) : delays' = Append(delays, delay)
       ELSE phase' = "returned" /\ UNCHANGED delays
    /\ UNCHANGED <<policy, channel, method, mode>>

\* Fault: the first error is kept.
FailFirst(status) ==
    /\ phase = "trying" /\ method # "connect"
    /\ Serve(status)
    /\ outcomes' = Append(outcomes, status)
    /\ error' = IF error = "OK" THEN status ELSE error
    /\ IF Len(outcomes) < policy.max_attempts - 1
       THEN /\ phase' = "sleeping"
            /\ \E delay \in compute_delay(Len(outcomes)) : delays' = Append(delays, delay)
       ELSE phase' = "threw" /\ UNCHANGED delays
    /\ UNCHANGED <<policy, channel, method, mode>>

Fail(status) ==
    /\ phase = "trying" /\ method # "connect"
    /\ Serve(status)
    /\ outcomes' = Append(outcomes, status)
    /\ error' = status
    /\ IF Len(outcomes) < policy.max_attempts - 1
       THEN /\ phase' = "sleeping"
            /\ \E delay \in compute_delay(Len(outcomes)) : delays' = Append(delays, delay)
       ELSE phase' = "threw" /\ UNCHANGED delays
    /\ UNCHANGED <<policy, channel, method, mode>>

Wake ==
    /\ phase = "sleeping"
    /\ phase' = "trying"
    /\ UNCHANGED <<policy, channel, method, mode, outcomes, delays, error, coordinator>>

Failures == {"UNAVAILABLE", "FAILED_PRECONDITION"}

Connect ==
    \/ connect
    \/ \E endpoint \in Endpoints : connect_directly(endpoint)
    \/ \E m \in DOMAIN Rpcs : Call(m)
    \/ Succeed
    \/ \E status \in Failures : Fail(status)
    \/ Wake
    \/ Process

ConnectSpec == Unconnected /\ [][Connect]_connecting

-----------------------------------------------------------------------------
\* execute returns when an attempt succeeded, and without one only if it was
\* not to make any; it throws the last error after all attempts failed.  A
\* connect that made an attempt leaves a channel.
EndsTruthfully ==
    /\ phase = "returned" =>
         \/ outcomes # <<>> /\ outcomes[Len(outcomes)] = "OK"
         \/ outcomes = <<>> /\ policy.max_attempts <= 0
    /\ phase = "threw" =>
         /\ Len(outcomes) = policy.max_attempts
         /\ \A i \in DOMAIN outcomes : outcomes[i] # "OK"
         /\ error = outcomes[Len(outcomes)]
    /\ phase = "returned" /\ method = "connect" /\ policy.max_attempts > 0 => channel # NoChannel

\* Of a command whose caller waited, execute returned because it was recorded.
\* Where execute threw, something of the command is recorded, or may be yet,
\* only if some attempt lost its connection, be it not the one whose error the
\* caller gets to see; and a speculative call or a query leaves nothing at all.
RecordedAsSaid ==
    /\ phase = "returned" /\ mode = "simple" /\ policy.max_attempts > 0 => recorded > 0
    /\ phase = "threw" /\ recorded + pending > 0 =>
         mode # "none" /\ \E i \in DOMAIN outcomes : outcomes[i] = "UNAVAILABLE"

\* There is a sleep between any two attempts and none after the last, none
\* longer than max_delay, and with or without jitter none shorter than the one
\* before it as long as max_delay does not cut it short.
BacksOff ==
    /\ phase \in {"trying", "sleeping"} =>
         Len(delays) = Len(outcomes)
    /\ phase = "threw" => Len(delays) = Len(outcomes) - 1
    /\ \A k \in DOMAIN delays : delays[k] <= policy.max_delay
    /\ \A k \in DOMAIN delays \ {1} :
         2 * full_delay(k - 2) <= policy.max_delay => delays[k - 1] <= delays[k]
=============================================================================
