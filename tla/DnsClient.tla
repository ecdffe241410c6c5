----------------------------- MODULE DnsClient -----------------------------
(***************************************************************************)
(* The DNS client of the core (libcore/sing-box/dns/client.go): calls for  *)
(* one question through one transport, which share the response cache, the *)
(* cacheLock map that lets one call ask while the others wait, and the     *)
(* background refresh of a response served although it had expired.  All   *)
(* three are keyed by the network environment that the network manager has *)
(* recorded (libcore/sing-box/route/network_environment.go).  The record   *)
(* follows the network the queries go out on with a delay, and the one the *)
(* key was made under and the one in force later may differ.               *)
(*                                                                         *)
(* Calls come without a responseChecker, with the cache enabled, and a     *)
(* response may be served stale (optimistic cache).  An answer is "ok",    *)
(* "plain" (a response that is not cached: another rcode or no time to     *)
(* live) or "err".                                                         *)
(***************************************************************************)
EXTENDS Integers, FiniteSets

CONSTANTS
  Calls,        \* the calls, each made once
  Nested,       \* a call the transport of Outer makes while it is asked
  Outer,
  Environments, \* the networks, as updateNetworkEnvironment tells them apart, not 0
  MaxChanges,   \* how often another environment is recorded, at most
  MaxAges       \* how often a cached response ages or is dropped, at most

NoCall == "none"
Behind == -1

ASSUME CallsAssumption ==
  /\ Nested \in Calls /\ Outer \in Calls \ {Nested} /\ NoCall \notin Calls
  /\ Environments \subseteq Nat \ {0}
  /\ MaxChanges \in Nat /\ MaxAges \in Nat

VARIABLES
  link,         \* the network the queries go out on, 0 for one without gateway
  network,      \* NetworkManager.networkEnvironment, 0 before it is known
  changes,      \* how often that changed
  cache,        \* client.cache, by the environment of the key
  ages,
  lock,         \* client.cacheLock, by the environment of the key
  refresh,      \* client.backgroundRefresh, with the key's making
  call,         \* the exchangeOperation of each call
  calm,         \* history: no query failed, nothing aged, the record stayed
  asks          \* history: queries sent to the server while it was calm
vars == <<link, network, changes, cache, ages, lock, refresh, call, calm, asks>>

Keys == Environments \cup {0}
Sources == Keys \cup {Behind}
Empty == [state |-> "none", from |-> 0, changes |-> 0]
Resting == [state |-> "idle", from |-> 0, born |-> 0]
Fresh == [pc |-> "idle", async |-> FALSE, key |-> 0, born |-> 0, holds |-> FALSE,
          on |-> NoCall, from |-> 0]

CacheEntry == [state : {"none", "fresh", "stale"}, from : Sources, changes : Nat]
Refresh == [state : {"idle", "asking"}, from : Sources, born : Nat]
Operation ==
  [pc : {"idle", "peek", "begin", "waiting", "load", "asking", "finish", "release", "close", "done"},
   async : BOOLEAN, key : Keys, born : Nat, holds : BOOLEAN, on : Calls \cup {NoCall}, from : Sources]

TypeOK ==
  /\ link \in Keys /\ network \in Keys /\ changes \in Nat /\ ages \in Nat
  /\ cache \in [Keys -> CacheEntry]
  /\ lock \in [Keys -> Calls \cup {NoCall}]
  /\ refresh \in [Keys -> Refresh]
  /\ call \in [Calls -> Operation]
  /\ calm \in BOOLEAN /\ asks \in Nat

(* Client.environmentHash for a DNSTransportWithEnvironment; for any other   *)
(* transport it is always 0, as on a network that is never known.            *)
EnvironmentHash == network

(* Where a query that is sent, or answered, now comes from: the network, as  *)
(* far as the record has followed it.                                        *)
Source == IF link = network THEN link ELSE Behind

Init ==
  /\ link \in Keys /\ network \in {0, link}
  /\ changes = 0 /\ ages = 0
  /\ cache = [k \in Keys |-> Empty]
  /\ lock = [k \in Keys |-> NoCall]
  /\ refresh = [k \in Keys |-> Resting]
  /\ call = [c \in Calls |-> Fresh]
  /\ calm = TRUE /\ asks = 0

At(c, place) == call[c].pc = place
Moves(c, r) == call' = [call EXCEPT ![c] = r]

(* The call returns. *)
Returned == [Fresh EXCEPT !.pc = "done"]

Asks == asks' = IF calm THEN asks + 1 ELSE asks
Disturbed == calm' = FALSE

(* A key is made: newCacheKey. *)
Keyed(r, place) ==
  [r EXCEPT !.pc = place, !.key = EnvironmentHash, !.born = changes]

-----------------------------------------------------------------------------
(* backgroundRefreshDNS: one refresh for a key at a time *)
StartRefresh(k, born) ==
  IF refresh[k].state # "idle" THEN UNCHANGED <<refresh, asks>>
  ELSE /\ refresh' = [refresh EXCEPT ![k] = [state |-> "asking", from |-> Source,
                                             born |-> born]]
       /\ Asks

(* A cached response is served; a stale one starts the refresh. *)
Serve(k, born) == IF cache[k].state = "stale" THEN StartRefresh(k, born)
                  ELSE UNCHANGED <<refresh, asks>>

-----------------------------------------------------------------------------
(* A call begins.  The nested one comes from the transport that is being     *)
(* asked for Outer; its context ends with that query.                        *)
Start(c) ==
  /\ At(c, "idle")
  /\ c = Nested => At(Outer, "asking")
  /\ \/ \E async \in BOOLEAN :
          Moves(c, [call[c] EXCEPT !.pc = "begin", !.async = async])
     \/ Moves(c, [call[c] EXCEPT !.pc = "peek"])
  /\ UNCHANGED <<link, network, changes, cache, ages, lock, refresh, calm, asks>>

(* questionCache, which lookupToExchange tries before Exchange *)
Peek(c) ==
  /\ At(c, "peek")
  /\ LET k == EnvironmentHash
     IN IF cache[k].state = "none"
        THEN Moves(c, [call[c] EXCEPT !.pc = "begin"]) /\ UNCHANGED <<refresh, asks>>
        ELSE Moves(c, Returned) /\ Serve(k, changes)
  /\ UNCHANGED <<link, network, changes, cache, ages, lock, calm>>

(* beginExchange: cacheLock.LoadOrStore.  ExchangeAsync does not wait but    *)
(* leaves it to a goroutine that calls Exchange.                             *)
Begin(c) ==
  /\ At(c, "begin")
  /\ LET k == EnvironmentHash
         r == call[c]
     IN IF lock[k] = NoCall
        THEN /\ lock' = [lock EXCEPT ![k] = c]
             /\ Moves(c, [Keyed(Fresh, "load") EXCEPT !.holds = TRUE])
        ELSE /\ Moves(c, IF r.async THEN [r EXCEPT !.async = FALSE]
                         ELSE [Keyed(r, "waiting") EXCEPT !.on = lock[k]])
             /\ UNCHANGED lock
  /\ UNCHANGED <<link, network, changes, cache, ages, refresh, calm, asks>>

(* Mutant: a call that waited asks without another look at the cache. *)
MutWaited(c) ==
  /\ At(c, "waiting") /\ ~call[call[c].on].holds
  /\ Moves(c, [Keyed(Fresh, "asking") EXCEPT !.from = Source])
  /\ Asks
  /\ UNCHANGED <<link, network, changes, cache, ages, lock, refresh, calm>>

(* case <-cond: the key is made anew, and the call goes on without the lock; *)
(* case <-ctx.Done(): a nested call's context ends with the query around it. *)
Waited(c) ==
  /\ At(c, "waiting")
  /\ \/ ~call[call[c].on].holds /\ Moves(c, Keyed(Fresh, "load"))
     \/ c = Nested /\ ~At(Outer, "asking") /\ Moves(c, Returned)
  /\ UNCHANGED <<link, network, changes, cache, ages, lock, refresh, calm, asks>>

(* Mutant: an early return that forgets operation.release(). *)
MutLeave(r) == [r EXCEPT !.pc = "done"]

(* operation.release(), also where beginExchange returns early *)
Leave(r) ==
  IF r.holds THEN [Fresh EXCEPT !.pc = "release", !.key = r.key, !.holds = TRUE]
  ELSE Returned

(* loadResponse, the loopback check, and the query that is sent *)
Load(c) ==
  /\ At(c, "load")
  /\ LET r == call[c]
     IN \/ /\ cache[r.key].state # "none"
           /\ Moves(c, Leave(r))
           /\ Serve(r.key, r.born)
        \/ /\ cache[r.key].state = "none"
           /\ c = Nested
           /\ Moves(c, Leave(r))
           /\ UNCHANGED <<refresh, asks>>
        \/ /\ cache[r.key].state = "none"
           /\ c # Nested
           /\ Moves(c, [r EXCEPT !.pc = "asking", !.from = Source])
           /\ Asks
           /\ UNCHANGED refresh
  /\ UNCHANGED <<link, network, changes, cache, ages, lock, calm>>

(* exchangeToTransport comes back.  While a nested call is under way the     *)
(* transport waits for it, until the timeout that every query has.           *)
Answer(c) ==
  /\ At(c, "asking")
  /\ c = Outer => call[Nested].pc \in {"idle", "done"}
  /\ \E out \in {"ok", "plain", "err"}, from \in {call[c].from, Source} :
       IF out = "ok"
       THEN Moves(c, [call[c] EXCEPT !.pc = "finish", !.from = from]) /\ UNCHANGED calm
       ELSE Moves(c, Leave(call[c])) /\ Disturbed
  /\ UNCHANGED <<link, network, changes, cache, ages, lock, refresh, asks>>

Timeout(c) ==
  /\ At(c, "asking")
  /\ Moves(c, Leave(call[c]))
  /\ Disturbed
  /\ UNCHANGED <<link, network, changes, cache, ages, lock, refresh, asks>>

(* Mutant: the key is moved to the environment in force, whatever it was. *)
MutStorable(k) == TRUE

(* finishCacheKey: what was asked in another environment is not stored, but  *)
(* what was asked before the environment was known is.                       *)
Storable(k) == EnvironmentHash = k \/ k = 0

Stored(from, born) ==
  [cache EXCEPT ![EnvironmentHash] =
     [state |-> "fresh", from |-> from, changes |-> changes - born]]

(* finishExchange, then the release of the lock *)
Finish(c) ==
  /\ At(c, "finish")
  /\ Moves(c, Leave(call[c]))
  /\ cache' = IF Storable(call[c].key) THEN Stored(call[c].from, call[c].born)
              ELSE cache
  /\ UNCHANGED <<link, network, changes, ages, lock, refresh, calm, asks>>

(* c.cacheLock.Delete(cacheKey); close(cond) *)
Delete(c) ==
  /\ At(c, "release")
  /\ lock' = [lock EXCEPT ![call[c].key] = NoCall]
  /\ Moves(c, [call[c] EXCEPT !.pc = "close"])
  /\ UNCHANGED <<link, network, changes, cache, ages, refresh, calm, asks>>

CloseCond(c) ==
  /\ At(c, "close")
  /\ Moves(c, Returned)
  /\ UNCHANGED <<link, network, changes, cache, ages, lock, refresh, calm, asks>>

(* The goroutine of a refresh: it stores what it got under the same rule and *)
(* is no longer running, whatever it got.                                    *)
RefreshAnswer(k) ==
  /\ refresh[k].state = "asking"
  /\ \E out \in {"ok", "plain", "err"}, from \in {refresh[k].from, Source} :
       /\ refresh' = [refresh EXCEPT ![k] = Resting]
       /\ cache' = IF out = "ok" /\ Storable(k) THEN Stored(from, refresh[k].born)
                   ELSE cache
  /\ UNCHANGED <<link, network, changes, ages, lock, call, calm, asks>>

-----------------------------------------------------------------------------
(* The world. *)

(* A caller gives up while it waits for the lock or for the server, the two  *)
(* places that look at its context.                                          *)
GiveUp(c) ==
  /\ \/ At(c, "waiting") /\ Moves(c, Returned)
     \/ At(c, "asking") /\ Moves(c, Leave(call[c]))
  /\ Disturbed
  /\ UNCHANGED <<link, network, changes, cache, ages, lock, refresh, asks>>

(* The queries go out on another network, or on one that has no gateway: the *)
(* default interface or the Wi-Fi network changed.  The record is posted for *)
(* a second later (postUpdateNetworkEnvironment) or left to the goroutine of *)
(* notifyInterfaceUpdate.  One that can no longer be recorded adds nothing.  *)
ChangeNetwork ==
  /\ changes < MaxChanges
  /\ link' \in Keys \ {link}
  /\ UNCHANGED <<network, changes, cache, ages, lock, refresh, call, calm, asks>>

(* updateNetworkEnvironment: the timer fires, or updateInterface gets there; *)
(* several changes may have happened since the last record.                  *)
RecordEnvironment ==
  /\ changes < MaxChanges
  /\ link # network
  /\ network' = link
  /\ changes' = changes + 1
  /\ Disturbed
  /\ UNCHANGED <<link, cache, ages, lock, refresh, call, asks>>

(* A response expires; an expired one passes the optimistic timeout, or the  *)
(* cache is full.                                                            *)
Age(k) ==
  /\ ages < MaxAges /\ cache[k].state # "none"
  /\ \/ cache[k].state = "fresh" /\ cache' = [cache EXCEPT ![k].state = "stale"]
     \/ cache' = [cache EXCEPT ![k] = Empty]
  /\ ages' = ages + 1
  /\ Disturbed
  /\ UNCHANGED <<link, network, changes, lock, refresh, call, asks>>

ClearCache ==
  /\ ages < MaxAges
  /\ cache' = [k \in Keys |-> Empty]
  /\ ages' = ages + 1
  /\ Disturbed
  /\ UNCHANGED <<link, network, changes, lock, refresh, call, asks>>

Step(c) ==
  \/ Peek(c) \/ Begin(c) \/ Waited(c) \/ Load(c) \/ Finish(c)
  \/ Delete(c) \/ CloseCond(c)

Next ==
  \/ \E c \in Calls : Start(c) \/ Step(c) \/ Answer(c) \/ Timeout(c) \/ GiveUp(c)
  \/ \E k \in Keys : RefreshAnswer(k) \/ Age(k)
  \/ ChangeNetwork \/ RecordEnvironment \/ ClearCache

(* Goroutines run, and every query has a timeout.  Answers, networks and     *)
(* callers owe nothing.                                                      *)
Spec ==
  /\ Init /\ [][Next]_vars
  /\ \A c \in Calls : WF_vars(Step(c)) /\ WF_vars(Timeout(c))
  /\ \A k \in Keys : WF_vars(RefreshAnswer(k))

-----------------------------------------------------------------------------
(* Properties *)

(* The lock does what it is for: as long as no query fails, no response ages *)
(* and no other environment is recorded, any number of calls send one query. *)
SingleFlight == asks <= 1

(* A response cached for one network was obtained in it, unless the record   *)
(* was behind the network when it was obtained, another environment was      *)
(* recorded and then the first one again during the query, or none was known *)
(* yet when the query began.                                                 *)
NoForeignAnswer ==
  \A k \in Environments :
    \/ cache[k].state = "none"
    \/ cache[k].from \in {k, 0, Behind}
    \/ cache[k].changes >= 2

(* Every call that is made returns and every refresh ends, whichever call    *)
(* failed, was given up or waited for its own query: no path leaves the lock *)
(* behind.  A call is made once, so all is quiet in the end.                 *)
CallsReturn ==
  <>[](/\ \A c \in Calls : At(c, "idle") \/ At(c, "done")
       /\ \A k \in Keys : refresh[k].state = "idle")
=============================================================================
