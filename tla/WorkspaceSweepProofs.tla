------------------------- MODULE WorkspaceSweepProofs -------------------------
(***************************************************************************)
(* The loops that stop or delete workspaces return only after a listing    *)
(* that missed nothing but what slipped behind it, for any number of       *)
(* workspaces, any page size and any activity of their users; the loop of  *)
(* delete_all_workspaces, which guards the removal of an instance, misses  *)
(* nothing at all.                                                         *)
(***************************************************************************)
EXTENDS WorkspaceSweep, FiniteSetTheorems, TLAPS

LoopNames == {"stop", "daily", "delete_all", "delete_template"}

\* What the listing under way must not miss.
Sure == kept \ slipped

\* The place of y in the listing of S.
Rank(S, y) == Cardinality({z \in S : z <= y})

Unseen(x) == sweep.seen[x] = "none"

\* The listing has to be exact: the loop may end with what it found, or it has
\* found nothing so far.
Exact == \/ mode \in {"daily", "delete_template"}
         \/ \A x \in Workspaces : Unseen(x)

\* What the invariant says of the loop's fields.
SweepTypes ==
    /\ ws \in [Workspaces -> Statuses]
    /\ sweep.offset \in Nat
    /\ sweep.filter \in 1..3
    /\ sweep.seen \in [Workspaces -> Statuses \cup {"none"}]
    /\ mode \in LoopNames

\* During a listing.  An offset above zero has seen something; what must not
\* be missed was seen when it is listed before the offset, or under a status
\* that was listed before; and nothing slips behind a listing of all that has
\* found nothing.
ListingIsExact ==
    /\ sweep.offset > 0 => \E x \in Workspaces : ~Unseen(x)
    /\ Exact => \A x \in Listing \cap Sure :
                  Rank(Listing, x) <= sweep.offset => ~Unseen(x)
    /\ Exact /\ ~Deleting =>
          /\ sweep.filter >= 2 =>
                \A x \in Sure : ws[x] = "running" => ~Unseen(x)
          /\ sweep.filter = 3 => \A x \in Sure : ~Unseen(x)
    /\ Exact /\ mode = "delete_all" => slipped = {}

\* The daily stop.  What it is to stop it sees as such; it deals with all it
\* saw, or remembers that Coder refused it.
DailyIsComplete ==
    /\ sweep.at \in {"page", "act"} =>
          \A x \in kept : sweep.seen[x] \in {"none", "running", "starting"}
    /\ sweep.at = "act" =>
          \A x \in Sure : x \in sweep.todo \/ sweep.builds[x] = "refused"

\* Why the paged listing is sound.
SweepInv ==
    /\ SweepTypes
    /\ sweep.builds \in [Workspaces -> {"none", "active", "ok", "failed",
                                       "refused"}]
    /\ kept \subseteq Targets(mode, ws)
    /\ sweep.at = "page" => ListingIsExact
    /\ mode = "daily" => DailyIsComplete
    /\ NothingIsMissed

-----------------------------------------------------------------------------
(***************************************************************************)
(* The places of a listing.                                                *)
(***************************************************************************)

\* Places start at one and end at the number of items.
LEMMA RankBounds ==
    ASSUME NEW S \in SUBSET Int, IsFiniteSet(S), NEW y \in S
    PROVE  Rank(S, y) \in Nat /\ 1 <= Rank(S, y) /\ Rank(S, y) <= Cardinality(S)
<1> DEFINE T == {z \in S : z <= y}
<1>1. /\ IsFiniteSet(T) /\ Cardinality(T) \in Nat /\ Cardinality(S) \in Nat
      /\ Cardinality(T) <= Cardinality(S)
  BY FS_Subset, FS_CardinalityType
<1>2. T # {}
  OBVIOUS
<1>3. Cardinality(T) # 0
  BY <1>1, <1>2, FS_EmptySet
<1> QED
  BY <1>1, <1>3 DEF Rank

\* No two items have the same place.
LEMMA RankOrders ==
    ASSUME NEW S \in SUBSET Int, IsFiniteSet(S), NEW y \in S, NEW z \in S, y < z
    PROVE  Rank(S, y) # Rank(S, z)
<1> DEFINE Y == {x \in S : x <= y}
           Z == {x \in S : x <= z}
<1>1. Y \subseteq Z /\ z \in Z /\ z \notin Y
  <2>1. y \in Int /\ z \in Int
    OBVIOUS
  <2>2. ~(z <= y) /\ z <= z
    BY <2>1
  <2>3. ASSUME NEW x \in S, x <= y PROVE x <= z
    <3>1. x \in Int
      OBVIOUS
    <3> QED BY <2>1, <2>3, <3>1
  <2> QED BY <2>2, <2>3
<1>2. IsFiniteSet(Z)
  BY FS_Subset
<1>3. Cardinality(Z) = Cardinality(Y) => Z = Y
  BY <1>1, <1>2, FS_Subset
<1> QED
  BY <1>1, <1>3 DEF Rank

\* A page has at most PageSize items.
LEMMA PageBound ==
    ASSUME NEW S \in SUBSET Int, IsFiniteSet(S), sweep.offset \in Nat
    PROVE  /\ Page(S) \subseteq S /\ IsFiniteSet(Page(S))
           /\ Cardinality(Page(S)) \in Nat /\ Cardinality(Page(S)) <= PageSize
<1> DEFINE I == sweep.offset + 1 .. sweep.offset + PageSize
           f == [x \in Page(S) |-> Rank(S, x)]
<1>1. PageSize \in Nat \ {0}
  BY SweepAssumption
<1>2. Page(S) \subseteq S /\ \A x \in Page(S) : Rank(S, x) \in I
  BY DEF Page, Rank
<1>3. \A x, y \in Page(S) : Rank(S, x) = Rank(S, y) => x = y
  <2> SUFFICES ASSUME NEW x \in Page(S), NEW y \in Page(S), x # y
               PROVE  Rank(S, x) # Rank(S, y)
    OBVIOUS
  <2>1. x \in S /\ y \in S /\ x \in Int /\ y \in Int
    BY <1>2
  <2>2. x < y \/ y < x
    BY <2>1
  <2>3. CASE x < y
    BY <2>1, <2>3, RankOrders
  <2>4. CASE y < x
    BY <2>1, <2>4, RankOrders
  <2> QED BY <2>2, <2>3, <2>4
<1>4. f \in Injection(Page(S), I)
  BY <1>2, <1>3 DEF Injection, IsInjective
<1>5. IsFiniteSet(I) /\ Cardinality(I) = PageSize
  <2> DEFINE a == sweep.offset + 1
             b == sweep.offset + PageSize
  <2>1. /\ a \in Int /\ b \in Int
        /\ ~(a > b) /\ b - a + 1 = PageSize
    BY <1>1
  <2> HIDE DEF a, b
  <2>2. IsFiniteSet(a..b) /\ Cardinality(a..b) = PageSize
    BY <2>1, FS_Interval
  <2> QED BY <2>2 DEF a, b
<1>6. IsFiniteSet(Page(S)) /\ Cardinality(Page(S)) <= Cardinality(I)
  <2> HIDE DEF f, I
  <2> QED BY <1>4, <1>5, FS_Injection
<1> QED
  BY <1>2, <1>5, <1>6, FS_CardinalityType

\* The next page goes on where the offset is: what comes before the next
\* offset came before this one, or is on the page.
LEMMA PageGoesOn ==
    ASSUME NEW S \in SUBSET Int, IsFiniteSet(S), sweep.offset \in Nat,
           NEW x \in S, Rank(S, x) <= sweep.offset + Cardinality(Page(S))
    PROVE  Rank(S, x) <= sweep.offset \/ x \in Page(S)
<1>1. Cardinality(Page(S)) \in Nat /\ Cardinality(Page(S)) <= PageSize
  BY PageBound
<1>2. Rank(S, x) \in Nat /\ PageSize \in Nat
  BY RankBounds, SweepAssumption
<1>3. ASSUME Rank(S, x) > sweep.offset
      PROVE  Rank(S, x) \in sweep.offset + 1 .. sweep.offset + PageSize
  BY <1>1, <1>2, <1>3
<1> QED
  BY <1>2, <1>3 DEF Page, Rank

-----------------------------------------------------------------------------
(***************************************************************************)
(* The steps of the loop.                                                  *)
(***************************************************************************)

\* What a loop begins with.
LEMMA FreshFields ==
    ASSUME NEW at, NEW m
    PROVE  /\ Fresh(at, m).at = at /\ Fresh(at, m).mode = m
           /\ Fresh(at, m).offset = 0 /\ Fresh(at, m).filter = 1
           /\ Fresh(at, m).seen = None /\ Fresh(at, m).builds = None
BY DEF Fresh, Sweep

\* A loop that starts, restarts or fails: it has no listing under way.
LEMMA Restarted ==
    ASSUME SweepInv, NEW at \in {"idle", "connect", "head", "failed"},
           NEW m \in LoopNames, sweep' = Fresh(at, m), ws' = ws,
           kept' \subseteq Targets(m, ws)
    PROVE  SweepInv'
<1>1. /\ sweep'.at = at /\ sweep'.mode = m /\ sweep'.offset = 0
      /\ sweep'.filter = 1 /\ sweep'.seen = None /\ sweep'.builds = None
  BY FreshFields
<1>2. mode' = m
  BY <1>1 DEF mode
<1>3. Targets(mode, ws)' = Targets(m, ws)
  BY <1>2 DEF Targets
<1>5. SweepTypes'
  BY <1>1, <1>2 DEF SweepInv, SweepTypes, None
<1>6. DailyIsComplete'
  BY <1>1 DEF DailyIsComplete
<1> QED BY <1>1, <1>3, <1>5, <1>6 DEF SweepInv, None, NothingIsMissed

\* The loop starts from nothing.
LEMMA SweepInit == SInit => SweepInv
<1> SUFFICES ASSUME SInit PROVE SweepInv
  OBVIOUS
<1>1. /\ sweep.at = "idle" /\ sweep.offset = 0 /\ sweep.seen = None
      /\ sweep.filter = 1 /\ sweep.builds = None /\ mode = "stop"
  BY FreshFields DEF SInit, mode
<1>2. SweepTypes
  BY <1>1 DEF SInit, SweepTypes, None, Statuses, LoopNames
<1> QED BY <1>1, <1>2 DEF SInit, SweepInv, None, NothingIsMissed

\* A listing begins with its first page, which nothing comes before.
LEMMA ScanStep ==
    ASSUME SweepInv, IsFiniteSet(Workspaces), BeginScan
    PROVE  SweepInv'
<1>1. /\ sweep' = Fresh("page", mode) /\ ws' = ws
      /\ kept' = Targets(mode, ws) /\ slipped' = {}
  BY DEF BeginScan
<1>2. /\ sweep'.at = "page" /\ sweep'.mode = mode /\ sweep'.offset = 0
      /\ sweep'.filter = 1 /\ sweep'.seen = None /\ sweep'.builds = None
  BY <1>1, FreshFields
<1>3. mode' = mode
  BY <1>2 DEF mode
<1>4. Targets(mode, ws)' = Targets(mode, ws)
  BY <1>1, <1>3 DEF Targets
<1>5. SweepTypes'
  BY <1>1, <1>2, <1>3 DEF SweepInv, SweepTypes, None
<1>6. \A x \in Listing' : 1 <= Rank(Listing', x) /\ Rank(Listing', x) \in Nat
  <2>1. Listing' \subseteq Workspaces
    BY DEF Listing, Present
  <2>2. Listing' \in SUBSET Int /\ IsFiniteSet(Listing')
    BY <2>1, SweepAssumption, FS_Subset
  <2> HIDE DEF Listing
  <2> QED BY <2>2, RankBounds
<1>7. ListingIsExact'
  <2>1. \A x \in Listing' : ~(Rank(Listing, x)' <= sweep'.offset)
    BY <1>2, <1>6 DEF Rank
  <2> QED BY <1>1, <1>2, <2>1 DEF ListingIsExact
<1>8. DailyIsComplete'
  BY <1>1, <1>2 DEF DailyIsComplete, None, Targets
<1> QED BY <1>1, <1>2, <1>4, <1>5, <1>7, <1>8 DEF SweepInv, None, NothingIsMissed

\* The statuses seen leave an exact listing.
SeenExactly(seen) == \/ mode \in {"daily", "delete_template"}
                     \/ \A x \in Workspaces : seen[x] = "none"

\* A page of a listing sees what it lists, and the last one the rest of it.
LEMMA PageSees ==
    ASSUME SweepInv, IsFiniteSet(Workspaces), sweep.at = "page",
           NEW items, items = Page(Listing)
    PROVE  LET next == sweep.offset + Cardinality(items)
               seen == Seen(items)
           IN  /\ items \subseteq Listing /\ Listing \subseteq Workspaces
               /\ next \in Nat
               /\ seen \in [Workspaces -> Statuses \cup {"none"}]
               /\ next > 0 => \E x \in Workspaces : seen[x] # "none"
               /\ \A x \in Workspaces :
                     /\ seen[x] \in {ws[x], sweep.seen[x]}
                     /\ sweep.seen[x] # "none" => seen[x] # "none"
               /\ SeenExactly(seen) => Exact
               /\ SeenExactly(seen) =>
                     \A x \in Listing \cap Sure :
                        Rank(Listing, x) <= next => seen[x] # "none"
               /\ SeenExactly(seen) /\ ~(next < Cardinality(Listing)) =>
                     \A x \in Listing \cap Sure : seen[x] # "none"
<1> DEFINE next == sweep.offset + Cardinality(items)
           seen == Seen(items)
<1>1. Listing \subseteq Workspaces
  BY DEF Listing, Present
<1>2. Listing \in SUBSET Int /\ IsFiniteSet(Listing)
  BY <1>1, SweepAssumption, FS_Subset
<1>3. /\ ws \in [Workspaces -> Statuses]
      /\ sweep.offset \in Nat
      /\ sweep.seen \in [Workspaces -> Statuses \cup {"none"}]
      /\ ListingIsExact
  BY DEF SweepInv, SweepTypes
<1>4. /\ items \subseteq Listing /\ IsFiniteSet(items)
      /\ Cardinality(items) \in Nat /\ Cardinality(Listing) \in Nat
  BY <1>2, <1>3, PageBound, FS_CardinalityType
<1>5. next \in Nat
  BY <1>3, <1>4
<1>6. "none" \notin Statuses
  BY DEF Statuses
<1>7. /\ seen \in [Workspaces -> Statuses \cup {"none"}]
      /\ \A x \in items : seen[x] = ws[x] /\ seen[x] # "none"
      /\ \A x \in Workspaces : /\ seen[x] \in {ws[x], sweep.seen[x]}
                               /\ sweep.seen[x] # "none" => seen[x] # "none"
  BY <1>1, <1>3, <1>4, <1>6 DEF Seen
<1>8. ASSUME next > 0 PROVE \E x \in Workspaces : seen[x] # "none"
  <2>1. CASE sweep.offset > 0
    BY <1>3, <1>7, <2>1 DEF ListingIsExact, Unseen
  <2>2. CASE Cardinality(items) # 0
    <3>1. items # {}
      BY <2>2, FS_EmptySet
    <3> QED BY <1>1, <1>4, <1>7, <3>1
  <2> QED BY <1>3, <1>4, <1>8, <2>1, <2>2
<1>9. ASSUME SeenExactly(seen) PROVE Exact
  BY <1>7, <1>9 DEF SeenExactly, Exact, Unseen
<1>10. ASSUME SeenExactly(seen), NEW x \in Listing \cap Sure, Rank(Listing, x) <= next
       PROVE  seen[x] # "none"
  <2>1. Rank(Listing, x) <= sweep.offset \/ x \in items
    BY <1>2, <1>3, <1>10, PageGoesOn
  <2>2. CASE Rank(Listing, x) <= sweep.offset
    BY <1>1, <1>3, <1>7, <1>9, <1>10, <2>2 DEF ListingIsExact, Unseen
  <2> QED BY <1>7, <2>1, <2>2
<1>11. ASSUME SeenExactly(seen), ~(next < Cardinality(Listing)),
              NEW x \in Listing \cap Sure
       PROVE  seen[x] # "none"
  <2>1. Rank(Listing, x) \in Nat /\ Rank(Listing, x) <= Cardinality(Listing)
    BY <1>2, RankBounds
  <2>2. Rank(Listing, x) <= next
    BY <1>4, <1>5, <1>11, <2>1
  <2> QED BY <1>10, <1>11, <2>2
<1> HIDE DEF next, seen
<1> QED
  BY <1>1, <1>4, <1>5, <1>7, <1>8, <1>9, <1>10, <1>11 DEF next, seen

BuildOutcomes == {"none", "active", "ok", "failed", "refused"}

\* The last page: the loop goes through what was seen, or ends when that is
\* nothing.
LEMMA ListedStep ==
    ASSUME SweepInv, sweep.at = "page", ws' = ws, kept' = kept, slipped' = slipped,
           NEW seen \in [Workspaces -> Statuses \cup {"none"}],
           NEW builds \in [Workspaces -> BuildOutcomes],
           sweep' = Listed(seen, builds),
           \A x \in Workspaces : /\ seen[x] \in {ws[x], sweep.seen[x]}
                                 /\ sweep.seen[x] # "none" => seen[x] # "none",
           SeenExactly(seen) => \A x \in Sure : seen[x] # "none"
    PROVE  SweepInv'
<1> DEFINE todo == {x \in Workspaces : /\ seen[x] # "none"
                                       /\ mode = "delete_template" => x \in Ours}
<1>1. /\ sweep'.at = IF todo = {} THEN "done" ELSE "act"
      /\ sweep'.mode = mode /\ sweep'.offset = 0 /\ sweep'.filter = 1
      /\ sweep'.seen = seen /\ sweep'.builds = builds /\ sweep'.todo = todo
  BY DEF Listed, Sweep
<1>2. mode' = mode
  BY <1>1 DEF mode
<1>3. Targets(mode, ws)' = Targets(mode, ws)
  BY <1>2 DEF Targets
<1>5. SweepTypes'
  BY <1>1, <1>2 DEF SweepInv, SweepTypes
<1>6. kept \subseteq Targets(mode, ws) /\ kept \subseteq Workspaces
  BY DEF SweepInv, Targets
<1>7. SeenExactly(seen) => Sure \subseteq todo
  BY <1>6 DEF Targets, Sure
<1>8. todo = {} => /\ kept \subseteq slipped
                   /\ mode = "delete_all" => kept = {}
  <2>1. todo = {} => SeenExactly(seen)
    BY DEF SeenExactly
  <2>2. todo = {} => kept \subseteq slipped
    BY <1>7, <2>1 DEF Sure
  <2>3. ASSUME todo = {}, mode = "delete_all" PROVE slipped = {}
    <3>1. \A x \in Workspaces : seen[x] = "none"
      BY <2>3
    <3>2. Exact
      BY <3>1 DEF Exact, Unseen
    <3> QED BY <2>3, <3>2 DEF SweepInv, ListingIsExact
  <2> QED BY <2>2, <2>3
<1>9. ASSUME mode = "daily" PROVE DailyIsComplete'
  <2>1. \A x \in kept : ws[x] \in {"running", "starting"}
    BY <1>6, <1>9 DEF Targets
  <2>2. \A x \in kept : sweep.seen[x] \in {"none", "running", "starting"}
    BY <1>9 DEF SweepInv, DailyIsComplete
  <2>3. Sure' = Sure /\ Sure \subseteq todo
    BY <1>7, <1>9 DEF SeenExactly, Sure
  <2> HIDE DEF todo
  <2> QED BY <1>1, <1>6, <2>1, <2>2, <2>3 DEF DailyIsComplete
<1> HIDE DEF todo
<1>10. sweep'.at # "page" /\ NothingIsMissed'
  BY <1>1, <1>2, <1>8 DEF NothingIsMissed
<1> QED
  BY <1>1, <1>2, <1>3, <1>5, <1>6, <1>9, <1>10 DEF SweepInv, BuildOutcomes

\* A page that is not the last one.
LEMMA ListingGoesOn ==
    ASSUME SweepInv, sweep.at = "page", ws' = ws, kept' = kept, slipped' = slipped,
           NEW filter \in 1..3, NEW offset \in Nat, NEW count,
           NEW seen \in [Workspaces -> Statuses \cup {"none"}],
           NEW builds \in [Workspaces -> BuildOutcomes],
           sweep' = Sweep("page", mode, filter, offset, count, seen, builds,
                          {}, {}, {}),
           \A x \in Workspaces : /\ seen[x] \in {ws[x], sweep.seen[x]}
                                 /\ sweep.seen[x] # "none" => seen[x] # "none",
           offset > 0 => \E x \in Workspaces : seen[x] # "none",
           SeenExactly(seen) =>
              \A x \in Listing' \cap Sure :
                 Rank(Listing', x) <= offset => seen[x] # "none",
           SeenExactly(seen) /\ ~Deleting =>
              /\ filter >= 2 =>
                    \A x \in Sure : ws[x] = "running" => seen[x] # "none"
              /\ filter = 3 => \A x \in Sure : seen[x] # "none"
    PROVE  SweepInv'
<1>1. /\ sweep'.at = "page" /\ sweep'.mode = mode /\ sweep'.offset = offset
      /\ sweep'.filter = filter /\ sweep'.seen = seen /\ sweep'.builds = builds
  BY DEF Sweep
<1>2. mode' = mode /\ Deleting' = Deleting
  BY <1>1 DEF mode, Deleting
<1>3. Targets(mode, ws)' = Targets(mode, ws)
  BY <1>2 DEF Targets
<1>5. SweepTypes'
  BY <1>1, <1>2 DEF SweepInv, SweepTypes
<1>6. kept \subseteq Targets(mode, ws) /\ kept \subseteq Workspaces
  BY DEF SweepInv, Targets
<1>7. ASSUME mode = "daily" PROVE DailyIsComplete'
  <2>1. \A x \in kept : ws[x] \in {"running", "starting"}
    BY <1>6, <1>7 DEF Targets
  <2>2. \A x \in kept : sweep.seen[x] \in {"none", "running", "starting"}
    BY <1>7 DEF SweepInv, DailyIsComplete
  <2> QED BY <1>1, <1>6, <2>1, <2>2 DEF DailyIsComplete
<1>8. ListingIsExact'
  <2>1. Exact' => SeenExactly(seen)
    BY <1>1, <1>2 DEF Exact, SeenExactly, Unseen
  <2>0. Sure' = Sure
    BY DEF Sure
  <2>2. ASSUME Exact', NEW x \in (Listing \cap Sure)',
               Rank(Listing, x)' <= sweep'.offset
        PROVE  ~Unseen(x)'
    <3>1. Rank(Listing', x) <= offset
      BY <1>1, <2>2 DEF Rank
    <3> QED BY <1>1, <2>0, <2>1, <2>2, <3>1 DEF Unseen
  <2>3. Exact' /\ ~Deleting' =>
          /\ sweep'.filter >= 2 =>
                \A x \in Sure' : ws'[x] = "running" => ~Unseen(x)'
          /\ sweep'.filter = 3 => \A x \in Sure' : ~Unseen(x)'
    BY <1>1, <1>2, <2>0, <2>1 DEF Unseen
  <2>4. sweep'.offset > 0 => \E x \in Workspaces : ~Unseen(x)'
    BY <1>1 DEF Unseen
  <2>5. Exact' /\ mode' = "delete_all" => slipped' = {}
    <3>1. Exact' => Exact
      BY <1>1, <1>2 DEF Exact, Unseen
    <3> QED BY <1>2, <3>1 DEF SweepInv, ListingIsExact
  <2> QED BY <2>2, <2>3, <2>4, <2>5 DEF ListingIsExact
<1> QED
  BY <1>1, <1>2, <1>3, <1>5, <1>6, <1>7, <1>8
     DEF SweepInv, BuildOutcomes, NothingIsMissed

\* The builds seen on a page.
LEMMA BuildsType ==
    ASSUME SweepInv, NEW items
    PROVE  Builds(items) \in [Workspaces -> BuildOutcomes]
BY DEF SweepInv, Builds, Outcome, BuildOutcomes

\* A page of the listing of all workspaces.
LEMMA PageOfAllStep ==
    ASSUME SweepInv, IsFiniteSet(Workspaces), PageOfAll
    PROVE  SweepInv'
<1> DEFINE items == Page(Listing)
           next  == sweep.offset + Cardinality(items)
           seen  == Seen(items)
<1>1. /\ ws' = ws /\ kept' = kept /\ slipped' = slipped /\ sweep.at = "page" /\ Deleting
      /\ Listing = Present
  BY DEF PageOfAll, Stay, Listing
<1>2. /\ items \subseteq Listing /\ Listing \subseteq Workspaces
      /\ next \in Nat
      /\ seen \in [Workspaces -> Statuses \cup {"none"}]
      /\ next > 0 => \E x \in Workspaces : seen[x] # "none"
      /\ \A x \in Workspaces : /\ seen[x] \in {ws[x], sweep.seen[x]}
                               /\ sweep.seen[x] # "none" => seen[x] # "none"
      /\ SeenExactly(seen) =>
            \A x \in Listing \cap Sure :
                        Rank(Listing, x) <= next => seen[x] # "none"
      /\ SeenExactly(seen) /\ ~(next < Cardinality(Listing)) =>
            \A x \in Listing \cap Sure : seen[x] # "none"
  BY <1>1, PageSees
<1>3. Builds(items) \in [Workspaces -> BuildOutcomes]
  BY BuildsType
<1>4. kept \subseteq Present
  BY <1>1 DEF SweepInv, Targets, Present, Deleting
<1>5. IsFiniteSet(Listing) /\ Cardinality(Listing) \in Nat
  BY <1>2, FS_Subset, FS_CardinalityType
<1> HIDE DEF items, next, seen
<1>6. \/ sweep' = Fresh("failed", mode)
      \/ /\ next >= Cardinality(Listing)
         /\ sweep' = Listed(seen, Builds(items))
      \/ sweep' = Sweep("page", mode, 1, next, Cardinality(Listing),
                        seen, Builds(items), {}, {}, {})
  BY Zenon DEF PageOfAll, items, next, seen
<1>7. CASE sweep' = Fresh("failed", mode)
  <2>1. /\ mode \in LoopNames
        /\ kept' \subseteq Targets(mode, ws)
    BY <1>1 DEF SweepInv, SweepTypes
  <2> QED BY <1>1, <1>7, <2>1, Restarted
<1>8. CASE /\ next >= Cardinality(Listing)
           /\ sweep' = Listed(seen, Builds(items))
  <2>1. SeenExactly(seen) => \A x \in Sure : seen[x] # "none"
    BY <1>1, <1>2, <1>4, <1>5, <1>8 DEF Sure
  <2> QED BY <1>1, <1>2, <1>3, <1>8, <2>1, ListedStep
<1>9. CASE sweep' = Sweep("page", mode, 1, next, Cardinality(Listing),
                          seen, Builds(items), {}, {}, {})
  <2>1. Listing' = Listing
    <3>1. Deleting'
      BY <1>1, <1>9 DEF Deleting, mode, Sweep
    <3>2. Present' = Present
      BY <1>1 DEF Present
    <3> QED BY <1>1, <3>1, <3>2 DEF Listing
  <2>2. 1 \in 1..3
    OBVIOUS
  <2> QED BY <1>1, <1>2, <1>3, <1>9, <2>1, <2>2, ListingGoesOn
<1> QED BY <1>6, <1>7, <1>8, <1>9

\* A page of the listing of one status.
LEMMA PageOfStatusStep ==
    ASSUME SweepInv, IsFiniteSet(Workspaces), PageOfStatus
    PROVE  SweepInv'
<1> DEFINE items == Page(Listing)
           next  == sweep.offset + Cardinality(items)
           seen  == Seen(items)
           more  == next < Cardinality(Listing)
<1>1. /\ ws' = ws /\ kept' = kept /\ slipped' = slipped /\ sweep.at = "page" /\ ~Deleting
      /\ Listing = {x \in Workspaces : ws[x] = ObservedStatuses[sweep.filter]}
  BY DEF PageOfStatus, Stay, Listing
<1>2. /\ items \subseteq Listing /\ Listing \subseteq Workspaces
      /\ next \in Nat
      /\ seen \in [Workspaces -> Statuses \cup {"none"}]
      /\ next > 0 => \E x \in Workspaces : seen[x] # "none"
      /\ \A x \in Workspaces : /\ seen[x] \in {ws[x], sweep.seen[x]}
                               /\ sweep.seen[x] # "none" => seen[x] # "none"
      /\ SeenExactly(seen) => Exact
      /\ SeenExactly(seen) =>
            \A x \in Listing \cap Sure :
                        Rank(Listing, x) <= next => seen[x] # "none"
      /\ SeenExactly(seen) /\ ~(next < Cardinality(Listing)) =>
            \A x \in Listing \cap Sure : seen[x] # "none"
  BY <1>1, PageSees
<1>3. Builds(items) \in [Workspaces -> BuildOutcomes]
  BY BuildsType
<1>4. /\ kept \subseteq Workspaces
      /\ \A x \in kept : ws[x] \in {"running", "starting"}
  <2>1. mode \in {"stop", "daily"}
    BY <1>1 DEF SweepInv, SweepTypes, LoopNames, Deleting
  <2> QED BY <2>1 DEF SweepInv, Targets
<1>5. sweep.filter \in 1..3 /\ Len(ObservedStatuses) = 3
  BY DEF SweepInv, SweepTypes, ObservedStatuses
<1>6. /\ sweep.filter = 1 => ObservedStatuses[sweep.filter] = "running"
      /\ sweep.filter = 2 => ObservedStatuses[sweep.filter] = "starting"
  BY DEF ObservedStatuses
<1>7. /\ Exact /\ sweep.filter >= 2 =>
            \A x \in Sure : ws[x] = "running" => sweep.seen[x] # "none"
      /\ Exact /\ sweep.filter = 3 => \A x \in Sure : sweep.seen[x] # "none"
  BY <1>1 DEF SweepInv, ListingIsExact, Unseen
<1>8. ASSUME SeenExactly(seen)
      PROVE  /\ sweep.filter >= 2 =>
                   \A x \in Sure : ws[x] = "running" => seen[x] # "none"
             /\ sweep.filter = 3 => \A x \in Sure : seen[x] # "none"
             /\ ~more /\ sweep.filter = 1 =>
                   \A x \in Sure : ws[x] = "running" => seen[x] # "none"
             /\ ~more /\ sweep.filter = 2 => \A x \in Sure : seen[x] # "none"
  <2> HIDE DEF items, next, seen
  <2> QED BY <1>1, <1>2, <1>4, <1>6, <1>7, <1>8 DEF Sure
<1> HIDE DEF items, next, seen, more
<1>9. \/ /\ ~more /\ sweep.filter = 3
         /\ sweep' = Listed(seen, Builds(items))
      \/ /\ more
         /\ sweep' = Sweep("page", mode, sweep.filter, next, -1,
                           seen, Builds(items), {}, {}, {})
      \/ /\ ~more /\ sweep.filter # 3
         /\ sweep' = Sweep("page", mode, sweep.filter + 1, 0, -1,
                           seen, Builds(items), {}, {}, {})
  BY <1>5, Zenon DEF PageOfStatus, items, next, seen, more
<1>10. CASE ~more /\ sweep.filter = 3 /\ sweep' = Listed(seen, Builds(items))
  BY <1>1, <1>2, <1>3, <1>8, <1>10, ListedStep
<1>11. CASE /\ more
            /\ sweep' = Sweep("page", mode, sweep.filter, next, -1,
                              seen, Builds(items), {}, {}, {})
  <2>1. Listing' = Listing
    <3>1. Deleting' = Deleting /\ sweep'.filter = sweep.filter
      BY <1>11 DEF Deleting, mode, Sweep
    <3> QED BY <1>1, <3>1 DEF Listing
  <2> QED BY <1>1, <1>2, <1>3, <1>5, <1>8, <1>11, <2>1, ListingGoesOn
<1>12. CASE /\ ~more /\ sweep.filter # 3
            /\ sweep' = Sweep("page", mode, sweep.filter + 1, 0, -1,
                              seen, Builds(items), {}, {}, {})
  <2>1. \A x \in Listing' : ~(Rank(Listing', x) <= 0)
    <3>1. Listing' \subseteq Workspaces
      BY DEF Listing, Present
    <3>2. Listing' \in SUBSET Int /\ IsFiniteSet(Listing')
      BY <3>1, SweepAssumption, FS_Subset
    <3>3. \A x \in Listing' : Rank(Listing', x) \in Nat /\ 1 <= Rank(Listing', x)
      BY <3>2, RankBounds
    <3> QED BY <3>3
  <2>2. sweep.filter + 1 \in 1..3 /\ 0 \in Nat
    BY <1>5, <1>12
  <2>3. SeenExactly(seen) =>
          /\ sweep.filter + 1 >= 2 =>
                \A x \in Sure : ws[x] = "running" => seen[x] # "none"
          /\ sweep.filter + 1 = 3 => \A x \in Sure : seen[x] # "none"
    BY <1>5, <1>8, <1>12
  <2> QED BY <1>1, <1>2, <1>3, <1>12, <2>1, <2>2, <2>3, ListingGoesOn
<1> QED BY <1>9, <1>10, <1>11, <1>12

\* The next workspace of the listing is dealt with.  Only the daily stop ends
\* here, when nothing was refused.
LEMMA HandledStep ==
    ASSUME SweepInv, sweep.at = "act", NEW x \in Workspaces,
           NEW builds \in [Workspaces -> BuildOutcomes],
           NEW waiting, NEW blocking,
           sweep' = Handled(x, builds, waiting, blocking),
           ws' \in [Workspaces -> Statuses],
           kept' \subseteq kept, slipped' = slipped, kept' \subseteq Targets(mode, ws'),
           mode = "daily" /\ x \in kept' => builds[x] = "refused",
           \A y \in Workspaces : y # x /\ sweep.builds[y] = "refused" =>
                                    builds[y] = "refused"
    PROVE  SweepInv'
<1> DEFINE todo == sweep.todo \ {x}
<1>1. /\ sweep'.at = IF todo # {} THEN "act" ELSE IF Looping THEN "wait"
                     ELSE IF \E y \in Workspaces : builds[y] = "refused"
                     THEN "failed" ELSE "done"
      /\ sweep'.mode = mode /\ sweep'.offset = 0 /\ sweep'.filter = 1
      /\ sweep'.seen = sweep.seen /\ sweep'.builds = builds /\ sweep'.todo = todo
  BY DEF Handled, Sweep
<1>2. mode' = mode
  BY <1>1 DEF mode
<1>3. Targets(mode, ws)' = Targets(mode, ws')
  BY <1>2 DEF Targets
<1>5. SweepTypes'
  BY <1>1, <1>2 DEF SweepInv, SweepTypes
<1>6. kept \subseteq Workspaces
  BY DEF SweepInv, Targets
<1>7. ASSUME mode = "daily"
      PROVE  \A y \in Sure' : y \in todo \/ builds[y] = "refused"
  <2>1. \A y \in Sure : y \in sweep.todo \/ sweep.builds[y] = "refused"
    BY <1>7 DEF SweepInv, DailyIsComplete
  <2> QED BY <1>6, <1>7, <2>1 DEF Sure
<1>8. ASSUME mode = "daily" PROVE DailyIsComplete'
  <2>1. \A y \in kept : sweep.seen[y] \in {"none", "running", "starting"}
    BY <1>8 DEF SweepInv, DailyIsComplete
  <2> HIDE DEF todo
  <2> QED BY <1>1, <1>7, <1>8, <2>1 DEF DailyIsComplete
<1>9. ASSUME sweep'.at = "done" PROVE mode = "daily" /\ kept' \subseteq slipped'
  <2>1. /\ todo = {} /\ ~Looping
        /\ ~\E y \in Workspaces : builds[y] = "refused"
    <3> HIDE DEF todo
    <3> QED BY <1>1, <1>9
  <2>2. mode = "daily"
    BY <2>1 DEF Looping
  <2> QED BY <1>6, <1>7, <2>1, <2>2 DEF Sure
<1>10. sweep'.at # "page"
  <2> HIDE DEF todo
  <2> QED BY <1>1
<1> HIDE DEF todo
<1> QED
  BY <1>1, <1>2, <1>3, <1>5, <1>8, <1>9, <1>10
     DEF SweepInv, BuildOutcomes, NothingIsMissed

\* One workspace of the listing: observed, submitted or refused.
LEMMA ActStep ==
    ASSUME SweepInv, NEW x \in Workspaces,
           Observe(x) \/ SubmitBuild(x) \/ Refused(x)
    PROVE  SweepInv'
<1>1. sweep.at = "act"
  BY DEF Observe, SubmitBuild, Refused, NeedsBuild
<1>2. /\ ws \in [Workspaces -> Statuses]
      /\ sweep.builds \in [Workspaces -> BuildOutcomes]
      /\ kept \subseteq Targets(mode, ws)
      /\ mode \in LoopNames
  BY <1>1 DEF SweepInv, SweepTypes, BuildOutcomes
<1>3. CASE Observe(x)
  <2>1. ws' = ws /\ kept' = kept /\ slipped' = slipped
    BY <1>3 DEF Observe, Stay
  <2>2. mode = "daily" => x \notin kept
    BY <1>1, <1>3 DEF Observe, SweepInv, DailyIsComplete, Deleting
  <2>3. \E waiting, blocking : sweep' = Handled(x, sweep.builds, waiting, blocking)
    BY <1>3, Zenon DEF Observe
  <2> QED BY <1>1, <1>2, <2>1, <2>2, <2>3, HandledStep
<1>4. CASE SubmitBuild(x)
  <2> DEFINE to == IF Deleting THEN "deleting" ELSE "stopping"
             builds == [sweep.builds EXCEPT ![x] = "active"]
  <2>1. /\ ws' = [ws EXCEPT ![x] = to]
        /\ kept' = kept \cap Targets(mode, ws')
        /\ slipped' = slipped
        /\ sweep' = Handled(x, builds, sweep.waiting \cup {x}, sweep.blocking)
    BY <1>1, <1>4 DEF SubmitBuild, Become, Slips
  <2>2. ws' \in [Workspaces -> Statuses]
    BY <1>2, <2>1 DEF Statuses
  <2>3. mode = "daily" => x \notin kept'
    BY <1>2, <2>1 DEF Deleting, Targets
  <2>4. /\ builds \in [Workspaces -> BuildOutcomes]
        /\ \A y \in Workspaces : y # x => builds[y] = sweep.builds[y]
    BY <1>2 DEF BuildOutcomes
  <2> HIDE DEF builds, to
  <2>5. /\ kept' \subseteq kept /\ kept' \subseteq Targets(mode, ws')
        /\ mode = "daily" /\ x \in kept' => builds[x] = "refused"
        /\ \A y \in Workspaces : y # x /\ sweep.builds[y] = "refused" =>
                                   builds[y] = "refused"
    BY <2>1, <2>3, <2>4
  <2>6. sweep' = Handled(x, builds, sweep.waiting \cup {x}, sweep.blocking)
    BY <2>1
  <2>7. slipped' = slipped
    BY <2>1
  <2> QED BY <1>1, <2>2, <2>4, <2>5, <2>6, <2>7, HandledStep
<1>5. CASE Refused(x)
  <2>1. ws' = ws /\ kept' = kept /\ slipped' = slipped
    BY <1>5 DEF Refused, Stay
  <2>2. CASE Looping
    <3>1. sweep' = Fresh("failed", mode)
      BY <1>5, <2>2, Zenon DEF Refused
    <3> QED BY <1>2, <2>1, <3>1, Restarted
  <2>3. CASE ~Looping
    <3> DEFINE builds == [sweep.builds EXCEPT ![x] = "refused"]
    <3>1. sweep' = Handled(x, builds, sweep.waiting, sweep.blocking)
      BY <1>5, <2>3 DEF Refused
    <3>2. /\ builds \in [Workspaces -> BuildOutcomes]
          /\ builds[x] = "refused"
          /\ \A y \in Workspaces : y # x => builds[y] = sweep.builds[y]
      BY <1>2 DEF BuildOutcomes
    <3> HIDE DEF builds
    <3> QED BY <1>1, <1>2, <2>1, <3>1, <3>2, HandledStep
  <2> QED BY <2>2, <2>3
<1> QED BY <1>3, <1>4, <1>5

-----------------------------------------------------------------------------
(***************************************************************************)
(* Coder and the users of the workspaces.                                  *)
(***************************************************************************)

\* A workspace changes while the loop runs.  What it takes behind the listing
\* has slipped, or the listing has found something and will be repeated.
LEMMA ChangeStep ==
    ASSUME SweepInv, IsFiniteSet(Workspaces), NEW x \in Workspaces,
           BuildOk(x) \/ BuildFails(x) \/ OwnerBuilds(x)
    PROVE  SweepInv'
<1>1. /\ ws \in [Workspaces -> Statuses]
      /\ sweep.builds \in [Workspaces -> BuildOutcomes]
      /\ sweep.offset \in Nat
      /\ kept \subseteq Workspaces
      /\ mode \in LoopNames
  BY DEF SweepInv, SweepTypes, BuildOutcomes, Targets
<1>2. /\ ws' \in [Workspaces -> Statuses]
      /\ kept' = kept \cap Targets(mode, ws')
      /\ \A y \in Workspaces : y # x => ws'[y] = ws[y]
      /\ slipped' = slipped \cup Slips(x, ws'[x])
      /\ ws[x] \in {"running", "starting"} /\ ws'[x] \in {"running", "starting"}
            => ws[x] = "starting" /\ ws'[x] = "running"
  BY <1>1 DEF BuildOk, BuildFails, OwnerBuilds, EndBuild, Become, Statuses, Active
<1>3. kept' \subseteq kept /\ Sure' \subseteq Sure
  BY <1>2 DEF Sure
<1>4. /\ sweep'.at = sweep.at /\ sweep'.mode = mode
      /\ sweep'.offset = sweep.offset /\ sweep'.filter = sweep.filter
      /\ sweep'.seen = sweep.seen /\ sweep'.todo = sweep.todo
      /\ sweep'.builds \in [Workspaces -> BuildOutcomes]
      /\ \A y \in Workspaces : sweep.builds[y] = "refused" =>
                                  sweep'.builds[y] = "refused"
  <2>1. CASE OwnerBuilds(x)
    BY <1>1, <2>1 DEF OwnerBuilds, mode
  <2>2. ASSUME NEW status, NEW outcome \in {"ok", "failed"},
               EndBuild(x, status, outcome)
        PROVE  /\ sweep'.at = sweep.at /\ sweep'.mode = mode
               /\ sweep'.offset = sweep.offset /\ sweep'.filter = sweep.filter
               /\ sweep'.seen = sweep.seen /\ sweep'.todo = sweep.todo
               /\ sweep'.builds \in [Workspaces -> BuildOutcomes]
               /\ \A y \in Workspaces : sweep.builds[y] = "refused" =>
                                           sweep'.builds[y] = "refused"
    <3> DEFINE builds == [sweep.builds EXCEPT ![x] =
                             IF @ = "active" THEN outcome ELSE @]
    <3>1. /\ builds \in [Workspaces -> BuildOutcomes]
          /\ \A y \in Workspaces : sweep.builds[y] = "refused" =>
                                      builds[y] = "refused"
      BY <1>1 DEF BuildOutcomes
    <3>2. sweep' = Sweep(sweep.at, mode, sweep.filter, sweep.offset, sweep.count,
                         sweep.seen, builds, sweep.todo, sweep.waiting,
                         sweep.blocking)
      BY <2>2 DEF EndBuild
    <3> HIDE DEF builds
    <3> QED BY <3>1, <3>2 DEF Sweep
  <2>3. CASE BuildOk(x)
    <3>1. \E status : EndBuild(x, status, "ok")
      BY <2>3 DEF BuildOk
    <3> QED BY <2>2, <3>1
  <2>4. CASE BuildFails(x)
    BY <2>2, <2>4 DEF BuildFails
  <2> QED BY <2>1, <2>3, <2>4
<1>5. mode' = mode /\ Deleting' = Deleting
  BY <1>4 DEF mode, Deleting
<1>6. Targets(mode, ws)' = Targets(mode, ws')
  BY <1>5 DEF Targets
<1>7. kept \subseteq Targets(mode, ws)
  BY DEF SweepInv
<1>8. SweepTypes'
  BY <1>2, <1>4, <1>5 DEF SweepInv, SweepTypes
<1>9. ASSUME mode = "daily" PROVE DailyIsComplete'
  <2>1. DailyIsComplete
    BY <1>9 DEF SweepInv
  <2> QED BY <1>1, <1>3, <1>4, <2>1 DEF DailyIsComplete, Sure
<1>10. ASSUME sweep.at = "page" PROVE ListingIsExact'
  <2>1. ListingIsExact
    BY <1>10 DEF SweepInv
  <2>2. Exact' = Exact /\ \A y : Unseen(y)' = Unseen(y)
    BY <1>4, <1>5 DEF Exact, Unseen
  <2>3. ~Deleting => x \notin Sure'
    <3>1. ASSUME ~Deleting, x \in kept'
          PROVE  ws[x] = "starting" /\ ws'[x] = "running"
      <4>1. mode \in {"stop", "daily"}
        BY <1>1, <3>1 DEF LoopNames, Deleting
      <4> QED BY <1>2, <1>3, <1>7, <3>1, <4>1 DEF Targets
    <3>2. ASSUME ~Deleting, x \in kept' PROVE x \in slipped'
      BY <1>2, <1>10, <3>1, <3>2 DEF Slips
    <3> QED BY <3>2 DEF Sure
  <2>4. ASSUME Exact, NEW y \in (Listing \cap Sure)',
               Rank(Listing, y)' <= sweep'.offset
        PROVE  ~Unseen(y)
    <3>1. Listing \subseteq Workspaces /\ Listing' \subseteq Workspaces
      BY DEF Listing, Present
    <3>2. /\ Listing \in SUBSET Int /\ IsFiniteSet(Listing)
          /\ Listing' \in SUBSET Int /\ IsFiniteSet(Listing')
      BY <3>1, SweepAssumption, FS_Subset
    <3>3. \A z \in Workspaces : z # x => (z \in Listing <=> z \in Listing')
      BY <1>2, <1>4, <1>5 DEF Listing, Present
    <3>4. Rank(Listing', y) \in Nat /\ 1 <= Rank(Listing', y)
      <4> HIDE DEF Listing
      <4> QED BY <2>4, <3>2, RankBounds
    <3>5. Rank(Listing', y) <= sweep.offset
      BY <1>4, <2>4 DEF Rank
    <3>6. sweep.offset > 0
      BY <1>1, <3>4, <3>5
    <3>7. y \in Listing
      <4>1. CASE y # x
        BY <2>4, <3>1, <3>3, <4>1
      <4>2. CASE y = x
        <5>1. Deleting /\ x \in kept
          BY <1>3, <2>3, <2>4, <4>2 DEF Sure
        <5>2. ws[x] # "absent"
          BY <1>7, <5>1 DEF Targets, Deleting
        <5> QED BY <4>2, <5>1, <5>2 DEF Listing, Present
      <4> QED BY <4>1, <4>2
    <3>8. ASSUME NEW z \in Listing, z <= y PROVE z \in Listing'
      <4>1. CASE z # x
        BY <3>1, <3>3, <4>1
      <4>2. CASE z = x
        <5> SUFFICES ASSUME x \notin Listing' PROVE FALSE
          BY <4>2
        <5>1. x # y /\ x \in Int /\ y \in Int /\ y \in Workspaces
          BY <2>4, <3>1, <3>2, <3>7, <3>8, <4>2
        <5>2. y > x
          BY <3>8, <4>2, <5>1
        <5>3. ~Deleting \/ ws'[x] = "absent"
          BY <1>2, <1>5 DEF Listing, Present
        <5>4. y \in Slips(x, ws'[x])
          BY <1>10, <3>6, <3>8, <4>2, <5>1, <5>2, <5>3 DEF Slips
        <5> QED BY <1>2, <2>4, <5>4 DEF Sure
      <4> QED BY <4>1, <4>2
    <3>9. Rank(Listing, y) <= Rank(Listing', y)
      <4> DEFINE A == {z \in Listing : z <= y}
                 B == {z \in Listing' : z <= y}
      <4>1. A \subseteq B
        BY <3>8
      <4>2. IsFiniteSet(B)
        BY <3>2, FS_Subset
      <4>3. Cardinality(A) <= Cardinality(B)
        <5> HIDE DEF A, B
        <5> QED BY <4>1, <4>2, FS_Subset
      <4> QED BY <4>3 DEF Rank
    <3>10. Rank(Listing, y) \in Nat
      BY <3>2, <3>7, RankBounds
    <3>11. Rank(Listing, y) <= sweep.offset
      <4> HIDE DEF Listing
      <4> QED BY <1>1, <3>4, <3>5, <3>9, <3>10
    <3>12. y \in Sure
      BY <1>3, <2>4
    <3> QED BY <2>1, <2>4, <3>7, <3>11, <3>12 DEF ListingIsExact
  <2>5. ASSUME ~Deleting PROVE \A y \in Sure' : y \in Sure /\ ws'[y] = ws[y]
    <3>1. Sure \subseteq Workspaces
      BY <1>1 DEF Sure
    <3> QED BY <1>2, <1>3, <2>3, <2>5, <3>1
  <2>6. Exact' /\ ~Deleting' =>
          /\ sweep'.filter >= 2 =>
                \A y \in Sure' : ws'[y] = "running" => ~Unseen(y)'
          /\ sweep'.filter = 3 => \A y \in Sure' : ~Unseen(y)'
    BY <1>4, <1>5, <2>1, <2>2, <2>5 DEF ListingIsExact
  <2>7. sweep'.offset > 0 => \E y \in Workspaces : ~Unseen(y)'
    BY <1>4, <2>1, <2>2 DEF ListingIsExact
  <2>8. ASSUME Exact, mode = "delete_all" PROVE slipped' = {}
    <3>1. ~(sweep.offset > 0)
      BY <2>1, <2>8 DEF ListingIsExact, Exact
    <3>2. Slips(x, ws'[x]) = {}
      BY <2>8, <3>1 DEF Slips, Deleting
    <3> QED BY <1>2, <2>1, <2>8, <3>2 DEF ListingIsExact
  <2> QED BY <1>5, <2>2, <2>4, <2>6, <2>7, <2>8 DEF ListingIsExact
<1>11. NothingIsMissed'
  <2>1. NothingIsMissed
    BY DEF SweepInv
  <2> QED BY <1>2, <1>3, <1>4, <1>5, <2>1 DEF NothingIsMissed
<1> QED
  BY <1>2, <1>4, <1>5, <1>6, <1>8, <1>9, <1>10, <1>11
     DEF SweepInv, BuildOutcomes

-----------------------------------------------------------------------------
(***************************************************************************)
(* The theorems.                                                           *)
(***************************************************************************)

\* Every step keeps the invariant.
LEMMA SweepStep ==
    ASSUME IsFiniteSet(Workspaces)
    PROVE  SweepInv /\ [SNext]_svars => SweepInv'
<1> SUFFICES ASSUME SweepInv, [SNext]_svars PROVE SweepInv'
  OBVIOUS
<1>0. mode \in LoopNames /\ kept \subseteq Targets(mode, ws)
  BY DEF SweepInv, SweepTypes
<1>1. ASSUME NEW m \in Modes, Start(m) PROVE SweepInv'
  <2>1. m \in LoopNames
    BY SweepAssumption DEF LoopNames
  <2>2. /\ \E at \in {"connect", "head"} : sweep' = Fresh(at, m)
        /\ ws' = ws /\ kept' = {}
    BY <1>1, Zenon DEF Start
  <2>3. kept' \subseteq Targets(m, ws)
    BY <2>2
  <2> QED BY <2>1, <2>2, <2>3, Restarted
<1>2. CASE Connect \/ TimeOut \/ Raise \/ EndWait \/ WaitFails
  <2>1. \E at \in {"head", "failed"} : sweep' = Fresh(at, mode)
    BY <1>2, Zenon DEF Connect, TimeOut, Raise, EndWait, WaitFails, AfterWait
  <2>2. ws' = ws /\ kept' = kept
    BY <1>2 DEF Connect, TimeOut, Raise, EndWait, WaitFails, Stay
  <2> QED BY <1>0, <2>1, <2>2, Restarted
<1>3. CASE BeginScan
  BY <1>3, ScanStep
<1>4. CASE PageOfStatus
  BY <1>4, PageOfStatusStep
<1>5. CASE PageOfAll
  BY <1>5, PageOfAllStep
<1>6. ASSUME NEW x \in Workspaces, Observe(x) \/ SubmitBuild(x) \/ Refused(x)
      PROVE  SweepInv'
  BY <1>6, ActStep
<1>7. ASSUME NEW x \in Workspaces, BuildOk(x) \/ BuildFails(x) \/ OwnerBuilds(x)
      PROVE  SweepInv'
  BY <1>7, ChangeStep
<1>8. CASE TimePasses \/ UNCHANGED svars
  <2>1. UNCHANGED <<ws, sweep, kept, slipped>>
    BY <1>8 DEF TimePasses, svars
  <2>2. mode' = mode
    BY <2>1 DEF mode
  <2> QED
    BY <2>1, <2>2
       DEF SweepInv, SweepTypes, Targets, ListingIsExact, Listing, Rank,
           Exact, Unseen, Deleting, Present, DailyIsComplete, Sure,
           NothingIsMissed
<1> QED BY <1>1, <1>2, <1>3, <1>4, <1>5, <1>6, <1>7, <1>8 DEF SNext, LoopStep

\* stop_active_workspaces, delete_template_workspaces and the daily stop never
\* return while a workspace that was to be stopped or deleted during the whole
\* of the last listing still is, unless it slipped behind that listing; and
\* delete_all_workspaces never returns while a workspace that was there during
\* the whole of its last listing is still there.  Whatever Coder, the owners
\* and the clock do, and whichever loops are run.
THEOREM LoopsMissNothing ==
    ASSUME IsFiniteSet(Workspaces)
    PROVE  SSpec => []NothingIsMissed
<1>1. SweepInv => NothingIsMissed
  BY DEF SweepInv
<1>2. SweepInv /\ [SNext]_svars => SweepInv'
  BY SweepStep
<1> QED BY <1>1, <1>2, SweepInit, PTL DEF SSpec
=============================================================================
