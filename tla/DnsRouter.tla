----------------------------- MODULE DnsRouter -----------------------------
(***************************************************************************)
(* One DNS query walking the rules of the DNS router of the core           *)
(* (libcore/sing-box/dns/router.go).  Without legacy mode an `evaluate`    *)
(* rule starts a query in the background (a future) and the walk goes on;  *)
(* a rule with match_response is judged by the answer of such a query; a   *)
(* `race` rule whose answer is not there yet is armed and swept up when it *)
(* arrives, while the walk goes on past it.  In legacy mode (some rule has *)
(* a strategy or an address filter and none uses the new features) the     *)
(* rules are tried one after another.                                      *)
(*                                                                         *)
(* The walk and the callbacks of the futures run concurrently: each point  *)
(* where the walk looks at a future is a step of its own.  Rules that do   *)
(* not match the query leave no trace and are not in the list, so a rule   *)
(* without match_response matches.  The query is for an address: matchDNS  *)
(* passes over the rules with an address filter for any other one, which   *)
(* is the walk of the list without them.  An answer is "ok" (success),     *)
(* "nx" (a response with another rcode) or "err" (no response).            *)
(***************************************************************************)
EXTENDS Integers, Sequences, FiniteSets

CONSTANTS
  Servers,    \* the servers the transport manager knows
  Default,    \* its default server
  FakeIP,     \* those that only hand out fake addresses
  Tags,       \* the tags of evaluate rules
  Lists       \* the configured rule lists

ASSUME ServersAssumption ==
  FakeIP \subseteq Servers /\ Default \in Servers

(* The anonymous future and the one sent ahead have fields of their own, so  *)
(* no tag names them.                                                        *)
ASSUME ListsAssumption ==
  /\ {"anon", "terminal"} \cap Tags = {}
  /\ \A l \in Lists :
       /\ Len(l) \in Nat /\ DOMAIN l = 1..Len(l)
       /\ \A i \in 1..Len(l) : l[i].action = "evaluate" => l[i].tag \in Tags \cup {"anon"}

VARIABLES
  rules,      \* the rule list of this router
  answer,     \* what each server answers in the end
  method,     \* "exchange" or "lookup"
  pc,         \* where the query is
  idx,        \* state.ruleIndex, from 1
  susp,       \* the dnsWalkSuspension
  futures,    \* state.futures, each with the rule that launched it
  settled,    \* the futures with settled = true
  anon,       \* state.anonymousFuture, 0 for nil
  armed,      \* state.armedRules
  sweep,      \* the next armed rule to look at, and who called the sweep
  wake,       \* whether state.wake holds its one signal
  ctxDone,    \* the caller has given up
  result,     \* the deciding rule and what it decided
  odd         \* history: a rule was judged "stale", an evaluate was "cut"
walkVars == <<rules, answer, method, pc, idx, susp, futures, settled, anon, armed,
          sweep, wake, ctxDone, result, odd>>
config == <<rules, answer, method>>

Nil == "nil"
Answers == {"ok", "nx", "err"}
None == [rule |-> -1, out |-> Nil]

-----------------------------------------------------------------------------
(* Which mode a rule list is run in, and whether it is accepted. *)

Bound(r) == r.bind # "none"
Has(l, P(_)) == \E i \in DOMAIN l : P(l[i])

(* defaultRuleDisablesLegacyDNSMode, dnsRuleActionDisablesLegacyDNSMode; a   *)
(* condition on the query's type or IP version, which these rules lack, does *)
(* so too.                                                                   *)
DisablesLegacy(r) ==
  Bound(r) \/ r.action \in {"evaluate", "respond"} \/ r.race \/ r.speculative

(* resolveLegacyDNSMode: the rules that forbid it win over those that need it. *)
LegacyMode(l) ==
  ~Has(l, DisablesLegacy) /\ Has(l, LAMBDA r : r.strategy \/ r.limit)

(* validateLegacyDNSModeDisabledRules: what a rule refers to is evaluated    *)
(* by an earlier rule, under a tag of its own.                               *)
RefersBack(l, i) ==
  LET before(t) == \E j \in 1..i - 1 : l[j].action = "evaluate" /\ l[j].tag = t
  IN /\ Bound(l[i]) => before(l[i].bind)
     /\ l[i].action = "respond" /\ ~Bound(l[i]) => before("anon")
     /\ l[i].action = "evaluate" /\ l[i].tag # "anon" => ~before(l[i].tag)

(* NewDNSRule and validateDNSRuleAction: a race rule looks at a response, has *)
(* a final action and sends nothing ahead.                                   *)
Valid(r) ==
  r.race => /\ Bound(r) /\ ~r.speculative
            /\ r.action \in {"route", "respond", "reject", "predefined"}

(* buildRules: the lists the router starts with. *)
Accepted(l) ==
  /\ ~(Has(l, DisablesLegacy) /\ Has(l, LAMBDA r : r.strategy))
  /\ ~LegacyMode(l) =>
       \A i \in DOMAIN l : RefersBack(l, i) /\ ~l[i].limit
  /\ ~Has(l, LAMBDA r : r.action = "evaluate" /\ r.server \in FakeIP)
  /\ \A i \in DOMAIN l : Valid(l[i])

-----------------------------------------------------------------------------
(* What the walk knows. *)

Rule == rules[idx]
Resolved(f) == futures[f].state # "flying"

(* dnsEvaluatedFuture.view *)
View(f) ==
  IF f = 0 THEN Nil
  ELSE IF ~Resolved(f) \/ futures[f].out = "err" THEN Nil
  ELSE futures[f].out

(* state.namedFutures; tags are unique *)
NamedFuture(t) ==
  LET fs == {f \in DOMAIN futures : futures[f].tag = t}
  IN IF fs = {} THEN 0 ELSE CHOOSE f \in fs : TRUE

(* The future a rule refers to, when the anonymous one is a. *)
Referred(r, a) == IF r.bind = "anon" THEN a ELSE NamedFuture(r.bind)

(* state.namedResponses is what settleDNSFutures has put there. *)
ResponseFor(r, a) ==
  LET f == Referred(r, a)
  IN IF r.bind # "anon" /\ f \notin settled THEN Nil ELSE View(f)

(* DefaultDNSRule.matchForMatch on a response *)
Matches(r, response) ==
  IF response = Nil THEN r.invert ELSE (response \in r.accept) # r.invert

Match(r, a) == Bound(r) => Matches(r, ResponseFor(r, a))

(* resolveDNSRoute: lookups do not take fake addresses. *)
Usable(s) == s \in Servers /\ (s \in FakeIP => method = "exchange")

(* A named future that answered after the last settleDNSFutures is judged as *)
(* if it had not answered.                                                   *)
Stale(r, a) == LET f == Referred(r, a)
               IN r.bind # "anon" /\ f \notin settled /\ View(f) # Nil

InitWalk ==
  /\ rules \in {l \in Lists : Accepted(l)}
  /\ answer \in {a \in [Servers -> Answers] : \A s \in FakeIP : a[s] = "ok"}
  /\ method \in {"exchange", "lookup"}
  /\ pc = IF LegacyMode(rules) THEN "legacy" ELSE "walk"
  /\ idx = 1
  /\ susp = [kind |-> "none", future |-> 0, rule |-> 0]
  /\ futures = <<>> /\ settled = {} /\ anon = 0 /\ armed = <<>>
  /\ sweep = [at |-> 1, back |-> "walk"]
  /\ wake = FALSE /\ ctxDone = FALSE
  /\ result = None
  /\ odd = {}

-----------------------------------------------------------------------------
(* How the query goes on. *)

Cancelled(fs) == [f \in DOMAIN futures |->
                    [futures[f] EXCEPT !.cancelled = @ \/ f \in fs]]

(* Mutant: without the deferred cancelDNSFutures. *)
MutReturn(i, out) ==
  /\ pc' = "done"
  /\ result' = [rule |-> i, out |-> out]
  /\ UNCHANGED futures

(* A result is returned: resumeExchangeWithRules and its callers cancel all  *)
(* futures (cancelDNSFutures) whatever the result is.                        *)
Return(i, out) ==
  /\ pc' = "done"
  /\ result' = [rule |-> i, out |-> out]
  /\ futures' = Cancelled(DOMAIN futures)

Suspend(kind, f, i) ==
  /\ pc' = "settle"
  /\ susp' = [kind |-> kind, future |-> f, rule |-> i]

NextRule == pc' = "walk" /\ idx' = idx + 1

(* finishPendingExchange cancels every future but the one it waits for, then *)
(* asks.                                                                     *)
BeginExchange(s) ==
  /\ pc' = "asking"
  /\ susp' = s
  /\ futures' = Cancelled(DOMAIN futures \ {s.future})

(* launchDNSEvaluate *)
Launch(tag) ==
  futures' = Append(futures, [rule |-> idx, tag |-> tag, server |-> Rule.server,
               state |-> "flying", cancelled |-> ctxDone, out |-> "err"])

(* settleDNSFutures *)
Settle == settled' = {f \in DOMAIN futures : Resolved(f)}

-----------------------------------------------------------------------------
(* walkDNSRules *)

(* A rule with match_response first settles the futures, then looks. *)
SettleRule ==
  /\ pc = "walk" /\ idx <= Len(rules) /\ Bound(Rule)
  /\ Settle
  /\ pc' = "judge"
  /\ UNCHANGED <<config, idx, susp, futures, anon, armed, sweep, wake, ctxDone, result, odd>>

Pending(f) == f # 0 /\ ~Resolved(f)

(* A race rule is armed; the sweep comes at once if it waits for nothing. *)
Arm ==
  /\ pc = "judge" /\ Rule.race
  /\ LET f == Referred(Rule, anon)
     IN /\ armed' = Append(armed, [rule |-> idx, anon |-> anon,
                                   future |-> IF Pending(f) THEN f ELSE 0])
        /\ pc' = IF Pending(f) THEN "walk" ELSE "sweep"
  /\ sweep' = [at |-> 1, back |-> "walk"]
  /\ idx' = idx + 1
  /\ UNCHANGED <<config, susp, futures, settled, anon, wake, ctxDone, result, odd>>

(* Another one waits for what it refers to, *)
Await ==
  /\ pc = "judge" /\ ~Rule.race
  /\ Pending(Referred(Rule, anon))
  /\ Suspend("await", Referred(Rule, anon), idx)
  /\ UNCHANGED <<config, idx, futures, settled, anon, armed, sweep, wake, ctxDone, result, odd>>

(* and is judged when it is there. *)
Judge ==
  /\ pc = "judge" /\ ~Rule.race
  /\ ~Pending(Referred(Rule, anon))
  /\ IF Match(Rule, anon) THEN pc' = "act" /\ UNCHANGED idx ELSE NextRule
  /\ odd' = IF Stale(Rule, anon) THEN odd \cup {"stale"} ELSE odd
  /\ UNCHANGED <<config, susp, futures, settled, anon, armed, sweep, wake, ctxDone, result>>

(* The rule at hand matched and its action is to be performed. *)
Acting(action) ==
  /\ \/ pc = "act"
     \/ pc = "walk" /\ idx <= Len(rules) /\ ~Bound(Rule)
  /\ Rule.action = action

(* The action is held until no race rule is armed any more. *)
Hold ==
  /\ armed # <<>>
  /\ Suspend("drain", 0, idx)
  /\ UNCHANGED <<config, idx, futures, settled, anon, armed, sweep, wake, ctxDone, result, odd>>

RouteOptions ==
  /\ Acting("options")
  /\ NextRule
  /\ UNCHANGED <<config, susp, futures, settled, anon, armed, sweep, wake, ctxDone, result, odd>>

Evaluate ==
  /\ Acting("evaluate")
  /\ \/ /\ Rule.server \notin Servers
        /\ anon' = IF Rule.tag = "anon" THEN 0 ELSE anon
        /\ NextRule
        /\ UNCHANGED <<config, susp, futures, settled, armed, sweep, wake, ctxDone, result, odd>>
     \/ Rule.server \in Servers /\ ~Rule.speculative /\ Hold
     \/ /\ Rule.server \in Servers
        /\ Rule.speculative \/ armed = <<>>
        /\ Launch(Rule.tag)
        /\ anon' = IF Rule.tag = "anon" THEN Len(futures) + 1 ELSE anon
        /\ NextRule
        /\ UNCHANGED <<config, susp, settled, armed, sweep, wake, ctxDone, result, odd>>

ResponseOr(response) == IF response = Nil THEN "err" ELSE response

Respond ==
  /\ Acting("respond")
  /\ \/ Hold
     \/ /\ armed = <<>>
        /\ ~Bound(Rule) /\ Pending(anon)
        /\ Suspend("await", anon, idx)
        /\ UNCHANGED <<config, idx, futures, settled, anon, armed, sweep, wake, ctxDone, result, odd>>
     \/ /\ armed = <<>>
        /\ Bound(Rule) \/ ~Pending(anon)
        /\ Return(idx, ResponseOr(IF Bound(Rule) THEN ResponseFor(Rule, anon)
                                  ELSE View(anon)))
        /\ UNCHANGED <<config, idx, susp, settled, anon, armed, sweep, wake, ctxDone, odd>>

(* state.terminalFuture and terminalIndex: the query a speculative route     *)
(* rule sent ahead                                                           *)
TerminalFuture ==
  LET fs == {f \in DOMAIN futures : futures[f].tag = "terminal"}
  IN IF fs = {} THEN 0 ELSE CHOOSE f \in fs : TRUE

Route ==
  /\ Acting("route")
  /\ \/ /\ ~Usable(Rule.server)
        /\ NextRule
        /\ UNCHANGED <<config, susp, futures, settled, anon, armed, sweep, wake, ctxDone, result, odd>>
     \/ Usable(Rule.server) /\ (~Rule.speculative \/ TerminalFuture # 0) /\ Hold
     \/ /\ Usable(Rule.server) /\ armed # <<>>
        /\ Rule.speculative /\ TerminalFuture = 0
        /\ Launch("terminal")
        /\ Suspend("drain", 0, idx)
        /\ UNCHANGED <<config, idx, settled, anon, armed, sweep, wake, ctxDone, result, odd>>
     \/ /\ Usable(Rule.server) /\ armed = <<>>
        /\ LET t == TerminalFuture
           IN IF t # 0 /\ futures[t].rule = idx THEN Suspend("commit", t, idx)
              ELSE Suspend(IF Rule.fallback THEN "pending" ELSE "commit", 0, idx)
        /\ UNCHANGED <<config, idx, futures, settled, anon, armed, sweep, wake, ctxDone, result, odd>>

(* Mutant: the answer does not wait for the races. *)
MutReply ==
  /\ \E action \in {"reject", "predefined"} : Acting(action)
  /\ Return(idx, Rule.action)
  /\ UNCHANGED <<config, idx, susp, settled, anon, armed, sweep, wake, ctxDone, odd>>

(* reject and predefined answer by themselves *)
Reply ==
  /\ \E action \in {"reject", "predefined"} : Acting(action)
  /\ \/ Hold
     \/ /\ armed = <<>>
        /\ Return(idx, Rule.action)
        /\ UNCHANGED <<config, idx, susp, settled, anon, armed, sweep, wake, ctxDone, odd>>

(* Past the last rule the default server is asked, once no race is left. *)
RulesEnd ==
  /\ pc = "walk" /\ idx > Len(rules)
  /\ \/ Hold
     \/ /\ armed = <<>>
        /\ Suspend("commit", 0, idx)
        /\ UNCHANGED <<config, idx, futures, settled, anon, armed, sweep, wake, ctxDone, result, odd>>

-----------------------------------------------------------------------------
(* sweepArmedDNSRules *)

ArmedRule == armed[sweep.at]

SweepEnd ==
  /\ pc = "sweep" /\ sweep.at > Len(armed)
  /\ pc' = sweep.back
  /\ UNCHANGED <<config, idx, susp, futures, settled, anon, armed, sweep, wake, ctxDone, result, odd>>

SweepPast ==
  /\ pc = "sweep" /\ sweep.at <= Len(armed)
  /\ Pending(ArmedRule.future)
  /\ sweep' = [sweep EXCEPT !.at = @ + 1]
  /\ UNCHANGED <<config, pc, idx, susp, futures, settled, anon, armed, wake, ctxDone, result, odd>>

Disarmed == [i \in 1..Len(armed) - 1 |-> armed[IF i < sweep.at THEN i ELSE i + 1]]

(* What an armed respond rule answers with *)
ArmedResponse(a) ==
  LET r == rules[a.rule]
  IN IF r.bind # "anon" THEN ResponseFor(r, a.anon)
     ELSE View(IF a.anon # 0 THEN a.anon ELSE anon)

(* The commitment of a sweep inside the walk goes through the suspension. *)
CommitRoute(i) ==
  LET s == [kind |-> "commit", future |-> 0, rule |-> i]
  IN IF sweep.back = "walk"
     THEN /\ armed' = <<>>
          /\ Suspend("commit", 0, i)
          /\ UNCHANGED futures
     ELSE armed' = Disarmed /\ BeginExchange(s)

SweepJudge ==
  /\ pc = "sweep" /\ sweep.at <= Len(armed)
  /\ ~Pending(ArmedRule.future)
  /\ LET r == rules[ArmedRule.rule]
     IN /\ \/ /\ \/ ~Match(r, ArmedRule.anon)
                 \/ r.action = "route" /\ ~Usable(r.server)
              /\ armed' = Disarmed
              /\ UNCHANGED <<pc, susp, futures, result>>
           \/ /\ Match(r, ArmedRule.anon)
              /\ r.action = "route" /\ Usable(r.server)
              /\ CommitRoute(ArmedRule.rule)
              /\ UNCHANGED result
           \/ /\ Match(r, ArmedRule.anon)
              /\ r.action # "route"
              /\ armed' = Disarmed
              /\ Return(ArmedRule.rule, IF r.action = "respond"
                          THEN ResponseOr(ArmedResponse(ArmedRule)) ELSE r.action)
              /\ UNCHANGED susp
        /\ odd' = IF Stale(r, ArmedRule.anon) THEN odd \cup {"stale"} ELSE odd
  /\ UNCHANGED <<config, idx, settled, anon, sweep, wake, ctxDone>>

-----------------------------------------------------------------------------
(* resumeExchangeWithRules *)

SettleAll ==
  /\ pc = "settle"
  /\ Settle
  /\ pc' = "sweep"
  /\ sweep' = [at |-> 1, back |-> "resume"]
  /\ UNCHANGED <<config, idx, susp, futures, anon, armed, wake, ctxDone, result, odd>>

(* An evaluate under way when a rule with fallback asks is cut off: a rule    *)
(* after the fallback finds it cancelled.                                    *)
Resume ==
  /\ pc = "resume"
  /\ \/ /\ susp.kind \in {"pending", "commit"}
        /\ BeginExchange(susp)
        /\ odd' = IF susp.kind = "pending" /\ \E f \in DOMAIN futures : ~Resolved(f)
                  THEN odd \cup {"cut"} ELSE odd
     \/ /\ \/ susp.kind = "await" /\ ~Resolved(susp.future)
           \/ susp.kind = "drain" /\ armed # <<>>
        /\ pc' = "wait"
        /\ UNCHANGED <<susp, futures, odd>>
     \/ /\ \/ susp.kind = "none"
           \/ susp.kind = "await" /\ Resolved(susp.future)
           \/ susp.kind = "drain" /\ armed = <<>>
        /\ pc' = "walk"
        /\ UNCHANGED <<susp, futures, odd>>
  /\ UNCHANGED <<config, idx, settled, anon, armed, sweep, wake, ctxDone, result>>

(* select { case <-state.wake; case <-ctx.Done() } *)
Wait ==
  /\ pc = "wait"
  /\ \/ /\ wake
        /\ wake' = FALSE
        /\ pc' = "settle"
        /\ UNCHANGED <<futures, result>>
     \/ ctxDone /\ Return(0, "err") /\ UNCHANGED wake
  /\ UNCHANGED <<config, idx, susp, settled, anon, armed, sweep, ctxDone, odd>>

ServerOf(i) == IF i > Len(rules) THEN Default ELSE rules[i].server

(* The pending exchange answers, its own or the one that was sent ahead; a   *)
(* failure goes on with the next rule if the rule says so.                   *)
Asked ==
  /\ pc = "asking"
  /\ \E out \in IF susp.future # 0
                THEN {futures[f].out : f \in {susp.future} \cap {g \in DOMAIN futures : Resolved(g)}}
                ELSE {answer[ServerOf(susp.rule)]} :
       IF susp.kind = "pending" /\ ~ctxDone /\ out \in {"nx", "err"}
       THEN /\ idx' = idx + 1
            /\ pc' = "settle"
            /\ susp' = [kind |-> "none", future |-> 0, rule |-> 0]
            /\ UNCHANGED <<futures, result>>
       ELSE Return(susp.rule, out) /\ UNCHANGED <<idx, susp>>
  /\ UNCHANGED <<config, settled, anon, armed, sweep, wake, ctxDone, odd>>

AskedInVain ==
  /\ pc = "asking" /\ ctxDone
  /\ Return(0, "err")
  /\ UNCHANGED <<config, idx, susp, settled, anon, armed, sweep, wake, ctxDone, odd>>

-----------------------------------------------------------------------------
(* exchangeLegacy and the legacy loop of Lookup, over matchDNS *)

LegacySkip ==
  /\ pc = "legacy" /\ idx <= Len(rules)
  /\ \/ Rule.action = "options"
     \/ Rule.action = "route" /\ ~Usable(Rule.server)
  /\ idx' = idx + 1
  /\ UNCHANGED <<config, pc, susp, futures, settled, anon, armed, sweep, wake, ctxDone, result, odd>>

LegacyReply ==
  /\ pc = "legacy" /\ idx <= Len(rules)
  /\ Rule.action \in {"reject", "predefined"}
  /\ Return(idx, Rule.action)
  /\ UNCHANGED <<config, idx, susp, settled, anon, armed, sweep, wake, ctxDone, odd>>

(* Only an answer an address filter rejects goes on with the next rule; a    *)
(* lookup also does after an error of such a rule.                           *)
LegacyRejects(r, out) ==
  /\ r.limit
  /\ IF method = "exchange" THEN out # "err" /\ out \notin r.accept
                          ELSE out # "ok" \/ out \notin r.accept

LegacyAsk ==
  /\ pc = "legacy"
  /\ idx <= Len(rules) => Rule.action = "route" /\ Usable(Rule.server)
  /\ \E out \in IF ctxDone THEN {"err"} ELSE {answer[ServerOf(idx)]} :
       IF idx <= Len(rules) /\ LegacyRejects(Rule, out)
       THEN idx' = idx + 1 /\ UNCHANGED <<pc, futures, result>>
       ELSE Return(idx, out) /\ UNCHANGED idx
  /\ UNCHANGED <<config, susp, settled, anon, armed, sweep, wake, ctxDone, odd>>

-----------------------------------------------------------------------------
(* The world: a future's query ends and its callback stores the answer and   *)
(* closes done; then it signals wake, which holds one signal.                *)
Resolve(f) ==
  /\ f \in DOMAIN futures /\ ~Resolved(f)
  /\ \E out \in IF futures[f].cancelled THEN {"err", answer[futures[f].server]}
                                        ELSE {answer[futures[f].server]} :
       futures' = [futures EXCEPT ![f].state = "closed", ![f].out = out]
  /\ UNCHANGED <<config, pc, idx, susp, settled, anon, armed, sweep, wake, ctxDone, result, odd>>

(* Mutant: a channel without room for a signal nobody waits for. *)
MutSignal(f) ==
  /\ f \in DOMAIN futures /\ futures[f].state = "closed"
  /\ futures' = [futures EXCEPT ![f].state = "signalled"]
  /\ wake' = (wake \/ pc = "wait")
  /\ UNCHANGED <<config, pc, idx, susp, settled, anon, armed, sweep, ctxDone, result, odd>>

Signal(f) ==
  /\ f \in DOMAIN futures /\ futures[f].state = "closed"
  /\ futures' = [futures EXCEPT ![f].state = "signalled"]
  /\ wake' = TRUE
  /\ UNCHANGED <<config, pc, idx, susp, settled, anon, armed, sweep, ctxDone, result, odd>>

(* The client of the query goes away: ctx and every context under it. *)
CallerGone ==
  /\ pc # "done" /\ ~ctxDone
  /\ ctxDone' = TRUE
  /\ futures' = Cancelled(DOMAIN futures)
  /\ UNCHANGED <<config, pc, idx, susp, settled, anon, armed, sweep, wake, result, odd>>

Walk ==
  \/ SettleRule \/ Arm \/ Await \/ Judge \/ RouteOptions \/ Evaluate \/ Respond
  \/ Route \/ Reply \/ RulesEnd \/ SweepEnd \/ SweepPast \/ SweepJudge
  \/ SettleAll \/ Resume \/ Wait \/ Asked \/ AskedInVain
  \/ LegacySkip \/ LegacyReply \/ LegacyAsk

Callback == \E f \in 1..Len(futures) : Resolve(f) \/ Signal(f)

NextWalk == Walk \/ Callback \/ CallerGone

(* The goroutine of the query runs, and a query to a server ends: the client *)
(* gives every one a timeout.  Nothing makes the caller give up.             *)
WalkSpec == InitWalk /\ [][NextWalk]_walkVars /\ WF_walkVars(Walk) /\ WF_walkVars(Callback)
-----------------------------------------------------------------------------
(* What the documentation promises, without futures: every answer is there   *)
(* when it is asked for.                                                     *)

Answered(s) == IF answer[s] = "err" THEN Nil ELSE answer[s]

(* The rule whose evaluate is current under each name before rule i, if      *)
(* nothing before i has ended the query.                                     *)
Evaluated ==
  LET holds(r, e) ==
        Bound(r) => Matches(r, IF e[r.bind] = 0 THEN Nil
                               ELSE Answered(rules[e[r.bind]].server))
      env[i \in 1..Len(rules) + 1] ==
        IF i = 1 THEN [t \in Tags \cup {"anon"} |-> 0]
        ELSE LET r == rules[i - 1]
                 e == env[i - 1]
             IN IF r.action # "evaluate" \/ ~holds(r, e) THEN e
                ELSE IF r.server \in Servers THEN [e EXCEPT ![r.tag] = i - 1]
                ELSE IF r.tag = "anon" THEN [e EXCEPT !["anon"] = 0] ELSE e
  IN env

ValueOf(name, i) == LET j == Evaluated[i][name]
                    IN IF j = 0 THEN Nil ELSE Answered(rules[j].server)

(* Rule i ends the query if it is reached. *)
Ends(i) ==
  LET r == rules[i]
  IN /\ Bound(r) => Matches(r, ValueOf(r.bind, i))
     /\ \/ r.action \in {"respond", "reject", "predefined"}
        \/ r.action = "route" /\ Usable(r.server)

Decision(i) ==
  LET r == rules[i]
  IN [rule |-> i,
      out |-> IF i > Len(rules) THEN answer[Default]
              ELSE IF r.action = "respond"
                   THEN ResponseOr(ValueOf(IF Bound(r) THEN r.bind ELSE "anon", i))
              ELSE IF r.action = "route" THEN answer[r.server] ELSE r.action]

(* Without legacy mode: the race rules before the first other rule that ends *)
(* the query, if one matches; otherwise that rule, or what follows it when   *)
(* it fails and says fallback (unless its query was sent ahead: that one is  *)
(* final).                                                                   *)
FirstFrom(k, P(_)) == CHOOSE i \in k..Len(rules) + 1 :
                        /\ i <= Len(rules) => P(i)
                        /\ \A j \in k..i - 1 : ~P(j)

SentAhead(i) == rules[i].speculative /\ \E j \in 1..i - 1 : rules[j].race

(* A rule that asks, fails and says fallback: matching goes on after it. *)
Falls(i) ==
  rules[i].action = "route" /\ rules[i].fallback /\ answer[rules[i].server] # "ok"

Promised ==
  LET n == Len(rules)
      from[k \in 1..n + 1] ==
        LET t == FirstFrom(k, LAMBDA i : ~rules[i].race /\ Ends(i))
            races == {i \in k..t - 1 : rules[i].race /\ Ends(i)}
        IN IF races # {} THEN races
           ELSE IF t <= n /\ Falls(t) THEN from[t + 1] \cup {i \in {t} : SentAhead(i)}
           ELSE {t}
  IN from[1]

(* In legacy mode: the first rule whose answer no address filter rejects and *)
(* whose failure, if it says fallback, is not passed on.                     *)
LegacyPromised ==
  {FirstFrom(1, LAMBDA i : /\ Ends(i) /\ ~Falls(i)
                           /\ rules[i].action = "route" =>
                                ~LegacyRejects(rules[i], answer[rules[i].server]))}

(* "The result may therefore depend on server speed only among race rules":  *)
(* however the answers and the walk interleave, the result is one of the     *)
(* race rules that match, or the rule the listed order gives.                *)
SpeedOnlyAmongRaces ==
  pc = "done" /\ ~ctxDone =>
    \E i \in IF LegacyMode(rules) THEN LegacyPromised ELSE Promised :
      result = Decision(i)

(* The query ended in legacy mode with the failure of a rule with fallback:  *)
(* exchangeLegacy and the loop of Lookup do not look at the field.           *)
FallbackIgnored ==
  LegacyMode(rules) /\ result.rule \in 1..Len(rules) /\ Falls(result.rule)

(* The same where no rule was judged between settling and looking, no        *)
(* fallback cancelled an evaluate that was still under way, and the legacy   *)
(* loops passed on no failure that a fallback was to catch.                  *)
OrderedOutcome == odd = {} /\ ~FallbackIgnored => SpeedOnlyAmongRaces

(* "When a DNS query routed by a rule with `fallback: true` fails, matching  *)
(* continues at the next DNS rule instead of returning the error": also in   *)
(* legacy mode, which a strategy in the same rules turns on.                 *)
FallbackInOrder == LegacyMode(rules) => SpeedOnlyAmongRaces

(* No query is wasted.  A rule that is walked again after a suspension does  *)
(* not ask its server again: what it sent ahead is what it waits for.  And   *)
(* "the remaining queries are canceled": nothing stays in flight for a query *)
(* that has returned.                                                        *)
NoWastedQuery ==
  /\ \A f \in DOMAIN futures :
       /\ \A g \in DOMAIN futures : futures[f].rule = futures[g].rule => f = g
       /\ pc = "asking" /\ futures[f].rule = susp.rule => susp.future = f
  /\ pc = "done" => \A f \in DOMAIN futures : Resolved(f) \/ futures[f].cancelled

(* Every query returns: no wake-up is lost between the callbacks, the sweep  *)
(* and the wait.                                                             *)
QueryReturns == <>(pc = "done")
=============================================================================
