---------------------------- MODULE MCDnsRouter ----------------------------
(* The rule lists of the model: every sequence of up to MaxRules rules of a  *)
(* palette that the router accepts.                                          *)
EXTENDS DnsRouter

CONSTANTS s1, s2, fake, MaxRules

(* A rule of the query's own: no condition on a response. *)
Plain(action, server) ==
  [action |-> action, server |-> server, tag |-> "none", bind |-> "none",
   accept |-> {"ok"}, invert |-> FALSE, race |-> FALSE, speculative |-> FALSE,
   fallback |-> FALSE, strategy |-> FALSE, limit |-> FALSE]

Eval(server, tag) == [Plain("evaluate", server) EXCEPT !.tag = tag]
On(rule, name) == [rule EXCEPT !.bind = name]
Race(rule) == [rule EXCEPT !.race = TRUE]

Palette ==
  {Eval(s1, "a"), Eval(s1, "anon"), [Eval(s2, "anon") EXCEPT !.speculative = TRUE],
   Race(On(Plain("respond", s1), "a")),
   Race([On(Plain("reject", s1), "a") EXCEPT !.invert = TRUE]),
   Race(On(Plain("route", s2), "a")),
   On(Plain("respond", s1), "a"), Plain("respond", s1),
   [Plain("route", s2) EXCEPT !.fallback = TRUE],
   [Plain("route", s2) EXCEPT !.speculative = TRUE],
   Plain("route", "unknown"), Plain("route", fake), Plain("predefined", s1),
   [Plain("route", s1) EXCEPT !.strategy = TRUE, !.fallback = TRUE],
   [Plain("route", s1) EXCEPT !.limit = TRUE]}

(* The router only warns of these, and they add nothing: rules after one     *)
(* that ends every query are not walked, an evaluate nobody refers to is not *)
(* looked at.                                                                *)
Useful(l) ==
  \A i \in DOMAIN l :
    /\ i < Len(l) => \/ Bound(l[i]) \/ l[i].fallback \/ l[i].limit
                     \/ l[i].action = "evaluate" \/ l[i].server \notin {s1, s2}
    /\ l[i].action = "evaluate" =>
         \E j \in i + 1..Len(l) : \/ l[j].bind = l[i].tag
                                  \/ l[j].action = "respond" /\ ~Bound(l[j])

(* Longer ones, with two races and something held or sent ahead. *)
Longer ==
  LET ask == Eval(s1, "a")
      other == Eval(s2, "anon")
      ahead(r) == [r EXCEPT !.speculative = TRUE]
      win == Race(On(Plain("respond", s1), "a"))
      place == Race(On(Plain("respond", s2), "anon"))
      try == [Plain("route", s2) EXCEPT !.fallback = TRUE]
  IN {<<ask, other, win, place>>, <<ask, win, ahead(other), place>>,
      <<ask, win, other, On(Plain("respond", s2), "anon")>>,
      <<ask, other, win, place, ahead(try)>>,
      <<ask, On(other, "a"), On(Plain("respond", s2), "anon"), try>>,
      <<ask, win, ahead(try), Plain("predefined", s1)>>,
      <<other, try, ask, win, Plain("respond", s2)>>,
      <<other, Eval("unknown", "anon"), place, Plain("respond", s2)>>,
      <<Plain("options", s1), ask, win, Plain("route", "unknown"), try, try>>}

MCLists == {l \in UNION {[1..n -> Palette] : n \in 1..MaxRules} : Useful(l)}
             \cup Longer
=============================================================================
