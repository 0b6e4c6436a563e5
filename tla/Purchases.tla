----------------------------- MODULE Purchases ------------------------------
(***************************************************************************)
(* The purchases of one hero (main.go: PURCHASE entries, the first         *)
(* inventory before the horn, flushPendingPurchases).                      *)
(*                                                                         *)
(* Items bought in the strategy phase have no log entry and show only in   *)
(* the first inventory; an entry of a later one may come before or after   *)
(* that inventory, and before or after the hero is mapped to a player.     *)
(* An item bought by the tick of the inventory is in it, in a slot of its  *)
(* own.                                                                    *)
(***************************************************************************)
EXTENDS Timeline

CONSTANTS Items,      \* what is bought
          MaxBought,  \* bound on the purchases
          ShopTicks   \* bound on the time

ASSUME ShopAssumption == MaxBought \in Nat /\ ShopTicks \in Nat

VARIABLE shop

ShopInit ==
  shop = [tick    |-> 0,
          bought  |-> <<>>,   \* truth: item, time and whether the entry is "none", to "come" or "read"
          horn    |-> FALSE,  \* GameStartTime > 0
          mapped  |-> FALSE,  \* heroNameToPlayerIndex knows the hero
          startT  |-> -1,     \* StartingT, -1 before StartingItemsDone
          left    |-> [i \in Items |-> 0],  \* StartingLeft
          list    |-> <<>>,   \* ItemPurchases: items
          pending |-> <<>>,   \* PendingPurchases: item, time, counted
          over    |-> FALSE]

Count(s, i) == Cardinality({k \in DOMAIN s : s[k] = i})

Listed(s, i) == [s EXCEPT !.list = Append(@, i)]

\* Mutant of Purchase: an entry for a starting item is a purchase of its own.
Purchase_NotStarting(s, i, t) ==
  IF s.mapped THEN Listed(s, i)
  ELSE [s EXCEPT !.pending = Append(@, [item |-> i, time |-> t, counted |-> FALSE])]

\* A PURCHASE entry: an item the first inventory already gave is left out; that
\* of an unknown hero waits.
Purchase(s, i, t) ==
  CASE s.mapped /\ ~s.horn /\ t <= s.startT /\ s.left[i] > 0 -> [s EXCEPT !.left[i] = @ - 1]
    [] s.mapped /\ ~(~s.horn /\ t <= s.startT /\ s.left[i] > 0) -> Listed(s, i)
    [] OTHER -> [s EXCEPT !.pending = Append(@, [item |-> i, time |-> t, counted |-> FALSE])]

\* The first inventory with something in it: what the log has not told is
\* bought now.
FirstInventory(s, names) ==
  LET waiting == IF s.mapped THEN [k \in DOMAIN s.pending |-> s.pending[k].item] ELSE <<>>
      logged(i) == Count(s.list, i) + Count(waiting, i)
      add(q, k) == IF Count(SubSeq(names, 1, k), names[k]) <= logged(names[k]) THEN q
                   ELSE [Listed(q, names[k]) EXCEPT !.left[names[k]] = @ + 1]
      counted == [k \in DOMAIN s.pending |-> [s.pending[k] EXCEPT !.counted = @ \/ s.mapped]]
  IN  FoldLeft(add, [s EXCEPT !.pending = counted, !.startT = s.tick], [k \in DOMAIN names |-> k])

FlushPendingPurchases(s) ==
  LET flush(q, p) == IF ~p.counted /\ p.time <= q.startT /\ q.left[p.item] > 0
                     THEN [q EXCEPT !.left[p.item] = @ - 1] ELSE Listed(q, p.item)
  IN  IF s.mapped THEN FoldLeft(flush, [s EXCEPT !.pending = <<>>], s.pending) ELSE s

(***************************************************************************)
(* The replay                                                              *)
(***************************************************************************)
\* Only the strategy phase, before the first inventory, goes unlogged.
Buy(i) ==
  /\ ~shop.over /\ Len(shop.bought) < MaxBought
  /\ shop.startT # shop.tick
  /\ \E entry \in IF shop.startT = -1 /\ ~shop.horn THEN {"none", "come"} ELSE {"come"} :
       shop' = [shop EXCEPT !.bought = Append(@, [item |-> i, time |-> shop.tick, entry |-> entry])]

ReadEntry(k) ==
  /\ k \in DOMAIN shop.bought /\ shop.bought[k].entry = "come"
  /\ shop' = [Purchase(shop, shop.bought[k].item, shop.bought[k].time) EXCEPT !.bought[k].entry = "read"]

ReadInventory ==
  /\ ~shop.horn /\ shop.startT = -1 /\ shop.bought # <<>>
  /\ shop' = FirstInventory(shop, [k \in DOMAIN shop.bought |-> shop.bought[k].item])

MapHero ==
  /\ ~shop.mapped
  /\ shop' = [shop EXCEPT !.mapped = TRUE]

ShopTick ==
  /\ ~shop.over /\ shop.tick < ShopTicks
  /\ shop' = [shop EXCEPT !.tick = @ + 1]

\* The log has caught up by then; without a log entry an item is in the first
\* inventory.
Horn ==
  /\ ~shop.horn /\ \A k \in DOMAIN shop.bought : shop.bought[k].entry # "come"
  /\ (\E k \in DOMAIN shop.bought : shop.bought[k].entry = "none") => shop.startT # -1
  /\ shop' = [shop EXCEPT !.horn = TRUE]

ShopEnd ==
  /\ ~shop.over /\ shop.horn /\ shop.mapped /\ \A k \in DOMAIN shop.bought : shop.bought[k].entry # "come"
  /\ shop' = [FlushPendingPurchases(shop) EXCEPT !.over = TRUE]

ShopNext ==
  \/ \E i \in Items : Buy(i)
  \/ \E k \in DOMAIN shop.bought : ReadEntry(k)
  \/ ReadInventory \/ MapHero \/ ShopTick \/ Horn \/ ShopEnd

-----------------------------------------------------------------------------
\* Every item bought is listed exactly as often as it was bought, whichever of
\* its log entry, the first inventory and the hero's mapping the parser saw first.
BoughtOnce ==
  shop.over => \A i \in Items :
    Count(shop.list, i) = Cardinality({k \in DOMAIN shop.bought : shop.bought[k].item = i})
=============================================================================
