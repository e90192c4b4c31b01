----------------------------- MODULE RecipeData -----------------------------
(***************************************************************************)
(* Recipes as data, for the engine ChefRun.  A recipe is a record of the   *)
(* list of its resources that run without a notification, of the facts     *)
(* true before its first run, and of its resources by name, each a record  *)
(*   only    the facts without which it is skipped (only_if)               *)
(*   unless  sets of facts, any of which makes it up to date (not_if, or   *)
(*           an unchanged file)                                            *)
(*   needs   the facts without which its command fails                     *)
(*   adds, dels   the facts a successful command makes true, or false      *)
(*   halves  sets of facts a command that fails may leave true             *)
(*   slips   sets of facts that a script without "set -e" may make true    *)
(*           instead of the added ones, and yet succeed                    *)
(*   now     the resources notified :immediately, in order                 *)
(*   later   the resources notified :delayed                               *)
(*                                                                         *)
(* What can be read off the data: whether rules about the facts of a       *)
(* recipe are sound.  CookbookProofs proves that sound rules hold in every *)
(* behaviour, whatever fails and how often.                                *)
(***************************************************************************)
EXTENDS Naturals, Sequences, SequencesExt

Plain == [only |-> {}, unless |-> {}, needs |-> {}, adds |-> {}, dels |-> {},
          halves |-> {}, slips |-> {}, now |-> <<>>, later |-> {}]

Names(book) == DOMAIN book.resource

\* A recipe whose resources speak of the given facts and of each other only.
WellFormed(book, facts) ==
  /\ book.initial \subseteq facts
  /\ book.list \in Seq(Names(book))
  /\ \A r \in Names(book) :
       LET def == book.resource[r]
       IN  /\ def.adds \subseteq facts
           /\ def.halves \subseteq SUBSET facts /\ def.slips \subseteq SUBSET facts
           /\ def.now \in Seq(Names(book)) /\ def.later \subseteq Names(book)

\* The resources that a run may come to, in the list or notified.
Listed(book) ==
  ToSet(book.list)
    \union UNION {ToSet(book.resource[r].now) : r \in Names(book)}
Notified(book) == UNION {book.resource[r].later : r \in Names(book)}
Reached(book) == Listed(book) \union Notified(book)

-----------------------------------------------------------------------------
(***************************************************************************)
(* The rules of a recipe: a record of                                      *)
(*   follows  pairs of facts: the second is true whenever the first is     *)
(*   never    facts that never become true                                 *)
(*   due      facts that are true after a run that succeeds                *)
(*   before   <<resource, fact>>: the run comes to the resource only when  *)
(*            the fact is true                                             *)
(*   fresh    <<resource, fact>>: ... only when the fact is false          *)
(*   through  <<resource, fact>>: the resource makes the fact true by way  *)
(*            of those it notifies                                         *)
(***************************************************************************)

\* The fact is true when the command of the resource has what it needs.
Met(book, rules, r, f) ==
  \/ f \in book.resource[r].needs \union book.resource[r].only
  \/ <<r, f>> \in rules.before
Known(book, rules, r, f) ==
  Met(book, rules, r, f) \/ \E g \in rules.follows : g[2] = f /\ Met(book, rules, r, g[1])

Outcomes(def) == {def.adds} \union def.slips

\* The fact is true after the command of the resource succeeded.
After(book, rules, r, f) ==
  \A outcome \in Outcomes(book.resource[r]) :
    f \in outcome \/ (Known(book, rules, r, f) /\ f \notin book.resource[r].dels)

\* The resources that, with those they notify, leave the fact true.
Tame(book, f) ==
  IF \A r \in Names(book) : f \notin book.resource[r].dels
  THEN Names(book)
  ELSE {r \in Names(book) :
          /\ f \notin book.resource[r].dels
          /\ \A n \in ToSet(book.resource[r].now) :
               f \notin book.resource[n].dels /\ book.resource[n].now = <<>>}

\* The resource is not skipped while the fact is false.
Heeds(book, rules, r, f) ==
  /\ \A g \in book.resource[r].only : <<r, g>> \in rules.before
  /\ \A u \in book.resource[r].unless :
       \E g \in u : g = f \/ <<g, f>> \in rules.follows \/ <<r, g>> \in rules.fresh

\* Once the run is past the resource and those it notifies, the fact is true.
Brings(book, rules, r, f) ==
  \/ <<r, f>> \in rules.through
  \/ /\ Heeds(book, rules, r, f) /\ After(book, rules, r, f)
     /\ ToSet(book.resource[r].now) \subseteq Tame(book, f)

\* The first n resources of a sequence bring the fact.
Brought(book, rules, s, n, f) ==
  \E j \in 1 .. n :
    /\ Brings(book, rules, s[j], f)
    /\ \A k \in j + 1 .. n : s[k] \in Tame(book, f)

\* The resource always runs, and all it does is make the fact false.
Clears(book, r, f) ==
  LET def == book.resource[r]
  IN  /\ def.only = {} /\ def.unless = {} /\ def.slips = {} /\ def.now = <<>>
      /\ f \in def.dels \ def.adds

-----------------------------------------------------------------------------
FollowsSound(book, rules, lost) ==
  \A g \in rules.follows :
    /\ g[1] \in book.initial => g[2] \in book.initial
    /\ g[2] \notin lost
    /\ \A r \in Reached(book) :
         LET def == book.resource[r]
         IN  /\ \A outcome \in Outcomes(def) :
                  g[1] \in outcome =>
                    \/ g[2] \in outcome
                    \/ Known(book, rules, r, g[2]) /\ g[2] \notin def.dels
             /\ \A half \in def.halves :
                  g[1] \in half => g[2] \in half \/ Known(book, rules, r, g[2])
             /\ g[2] \in def.dels =>
                  \/ g[1] \in def.dels
                  \/ \A outcome \in Outcomes(def) : g[2] \in outcome
                  \/ \E u \in def.unless :
                       \A f \in u : f = g[1] \/ <<g[1], f>> \in rules.follows

NeverSound(book, rules) ==
  \A f \in rules.never :
    /\ f \notin book.initial
    /\ \A r \in Reached(book) :
         f \in UNION (Outcomes(book.resource[r]) \union book.resource[r].halves) =>
           \E u \in book.resource[r].unless : \A g \in u : <<r, g>> \in rules.before

BeforeSound(book, rules) ==
  \A g \in rules.before :
    /\ \A i \in DOMAIN book.list :
         book.list[i] = g[1] => Brought(book, rules, book.list, i - 1, g[2])
    /\ \A r \in Reached(book) :
         LET now == book.resource[r].now
         IN  \A i \in DOMAIN now :
               now[i] = g[1] =>
                 \/ Brought(book, rules, now, i - 1, g[2])
                 \/ /\ After(book, rules, r, g[2])
                    /\ \A k \in 1 .. i - 1 : now[k] \in Tame(book, g[2])

FreshSound(book, rules) ==
  \A g \in rules.fresh :
    /\ \A i \in DOMAIN book.list :
         book.list[i] = g[1] => i > 1 /\ Clears(book, book.list[i - 1], g[2])
    /\ \A r \in Reached(book) :
         LET now == book.resource[r].now
         IN  \A i \in DOMAIN now :
               now[i] = g[1] => i > 1 /\ Clears(book, now[i - 1], g[2])

ThroughSound(book, rules) ==
  \A g \in rules.through :
    /\ Heeds(book, rules, g[1], g[2])
    /\ LET now == book.resource[g[1]].now
       IN  Brought(book, rules, now, Len(now), g[2])

\* What is notified :delayed runs whatever became of the others.
DelayedSound(book, rules) ==
  \A n \in Notified(book) :
    /\ book.resource[n].now = <<>>
    /\ \A g \in rules.before \union rules.fresh : g[1] # n
    /\ \A f \in rules.due : n \in Tame(book, f)

DueSound(book, rules, lost) ==
  \A f \in rules.due :
    f \notin lost /\ Brought(book, rules, book.list, Len(book.list), f)

\* The rules hold whatever fails; `lost' are the facts of one run, and those
\* that a boot makes false.
Sound(book, rules, lost) ==
  /\ FollowsSound(book, rules, lost) /\ NeverSound(book, rules)
  /\ BeforeSound(book, rules) /\ FreshSound(book, rules)
  /\ ThroughSound(book, rules)
  /\ DelayedSound(book, rules) /\ DueSound(book, rules, lost)
=============================================================================
