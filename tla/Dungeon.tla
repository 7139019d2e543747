--------------------------------- MODULE Dungeon ---------------------------------
(***************************************************************************)
(* The dungeon generator (master/internal/dungeon).  Levels are dug out of *)
(* rock from a frontier of expansion points; every roll of the dice is a   *)
(* choice here, and one grow is one step.  A level is a function from the  *)
(* cells that were dug to their tiles, all of which can be walked on;      *)
(* features are left out.                                                  *)
(***************************************************************************)
EXTENDS Integers, Sequences, FiniteSets

CONSTANTS
  Width, Height,     \* of every level
  MaxLevels,
  GrowthBudget,
  SoftCap,           \* frontierSoftCap; three times as many is the most
  CorridorLengths,   \* passageLength
  RoomSides,         \* bound: the widths and heights of rooms
  VaultSides,        \* bound: those of secret rooms
  ExitCounts         \* bound: how many exits a room has

ASSUME SizeAssumption == Width \in Nat \ {0} /\ Height \in Nat \ {0} /\ MaxLevels \in Nat \ {0}
ASSUME RollsAssumption ==
  CorridorLengths \subseteq Nat \ {0} /\ RoomSides \subseteq Nat \ {0} /\ VaultSides \subseteq Nat \ {0}
ASSUME CapAssumption == GrowthBudget \in Nat /\ SoftCap \in Nat /\ ExitCounts \subseteq 0..3

VARIABLES
  levels,     \* sequence of levels
  stairs,     \* sequence of [from, to, down, up]: the pairs of stairs
  frontier,   \* queue of expansion points
  budget

dungeonVars == <<levels, stairs, frontier, budget>>

Dirs == {"north", "east", "south", "west"}
Clockwise == <<"north", "east", "south", "west">>
Turn(d, quarters) == Clockwise[1 + (((CHOOSE i \in 1..4 : Clockwise[i] = d) + quarters - 1) % 4)]
Left(d) == Turn(d, 3)
Right(d) == Turn(d, 1)
Around(d) == Turn(d, 2)

Delta(d) == CASE d = "north" -> <<0, -1>> [] d = "east" -> <<1, 0>> [] d = "south" -> <<0, 1>> [] d = "west" -> <<-1, 0>>

\* The cell n steps from c.
Ahead(c, d, n) == <<c[1] + n * Delta(d)[1], c[2] + n * Delta(d)[2]>>

InBounds(c) == c[1] \in 0..(Width - 1) /\ c[2] \in 0..(Height - 1)
Carvable(c) == c[1] \in 1..(Width - 2) /\ c[2] \in 1..(Height - 2)

Dug(level, c) == c \in DOMAIN level

\* The cells of a set become tiles of a kind; what is out of bounds does not.
Carve(level, cells, tile) ==
  LET dug == {c \in cells : InBounds(c)}
  IN [c \in dug \cup DOMAIN level |-> IF c \in dug THEN tile ELSE level[c]]

Block(minX, maxX, minY, maxY) == {<<x, y>> : x \in minX..maxX, y \in minY..maxY}

--------------------------------------------------------------------------------

Clamp(v, lo, hi) == IF v < lo THEN lo ELSE IF v > hi THEN hi ELSE v

Arrival == <<Clamp(Width \div 2, 2, Width - 3), Clamp(Height \div 2, 2, Height - 3)>>

\* carveLanding: the room of an arrival, and the expansion points out of it.
Around3x3 == Block(Arrival[1] - 1, Arrival[1] + 1, Arrival[2] - 1, Arrival[2] + 1)
Landing == [c \in {x \in Around3x3 : InBounds(x)} |-> "floor"]
Exit(queue, l, d) ==
  IF Carvable(Ahead(Arrival, d, 2)) THEN Append(queue, [level |-> l, at |-> Ahead(Arrival, d, 1), dir |-> d])
  ELSE queue
Exits(queue, l) == Exit(Exit(Exit(Exit(queue, l, "north"), l, "east"), l, "south"), l, "west")

DungeonInit ==
  /\ levels = <<Landing>>
  /\ stairs = <<>>
  /\ frontier = Exits(<<>>, 1)
  /\ budget = GrowthBudget

\* enqueue: what the queue has no room for, or cannot be dug, is dropped.
Enqueue(queue, l, c, d) ==
  IF Len(queue) < 3 * SoftCap /\ Carvable(c) THEN Append(queue, [level |-> l, at |-> c, dir |-> d]) ELSE queue

Crowded(queue) == Len(queue) >= SoftCap

\* How far carveCorridor digs: to the edge, or to the first cell that is dug.
CorridorEnd(level, c, d, length) ==
  LET Stops(n) == n = length \/ ~Carvable(Ahead(c, d, n + 1)) \/ (n > 0 /\ Dug(level, Ahead(c, d, n)))
  IN CHOOSE n \in 0..length : Stops(n) /\ \A m \in 0..(n - 1) : ~Stops(m)

\* Mutant: the first cell is left out.
CorridorBeyond(level, c, d, n) == Carve(level, {Ahead(c, d, i) : i \in 2..n} \ DOMAIN level, "floor")

\* The cells up to there; the one it ends on may have been dug before.
Corridor(level, c, d, n) == Carve(level, {Ahead(c, d, i) : i \in 1..n} \ DOMAIN level, "floor")

\* growPassage: a corridor and where it goes on.
GrowPassage(p, rest) ==
  LET level == levels[p.level] IN
  \E length \in CorridorLengths :
    LET n == CorridorEnd(level, p.at, p.dir, length)
        end == Ahead(p.at, p.dir, n)
        Go(queue, d) == Enqueue(queue, p.level, end, d)
    IN IF n = 0 THEN frontier' = rest /\ UNCHANGED <<levels, stairs>>
       ELSE /\ levels' = [levels EXCEPT ![p.level] = Corridor(@, p.at, p.dir, n)]
            /\ \/ frontier' = Go(rest, p.dir)
               \/ \E side \in {Left(p.dir), Right(p.dir)} :
                    frontier' \in {Go(rest, side), Go(Go(rest, p.dir), side)}
               \/ frontier' = Go(Go(rest, Left(p.dir)), Right(p.dir))
            /\ UNCHANGED stairs

\* placeableRect: a room of w * h cells behind a door, the door somewhere along
\* its wall.
Rect(p, w, h, off) ==
  LET door == Ahead(p.at, p.dir, 1)
      first == Ahead(door, p.dir, 1)
      far == Ahead(door, p.dir, IF p.dir \in {"east", "west"} THEN w ELSE h)
      Between(a, b) == IF a < b THEN <<a, b>> ELSE <<b, a>>
  IN IF p.dir \in {"east", "west"}
       THEN [x |-> Between(first[1], far[1]), y |-> <<door[2] - off, door[2] - off + h - 1>>]
       ELSE [x |-> <<door[1] - off, door[1] - off + w - 1>>, y |-> Between(first[2], far[2])]

Along(p, w, h) == IF p.dir \in {"east", "west"} THEN h ELSE w

Rects(p, sides) ==
  UNION {{Rect(p, w, h, off) : off \in 0..(Along(p, w, h) - 1)} : w \in sides, h \in sides}

Floor(r) == Block(r.x[1], r.x[2], r.y[1], r.y[2])
Ring(r) == Block(r.x[1] - 1, r.x[2] + 1, r.y[1] - 1, r.y[2] + 1)

Placeable(level, r) == \A c \in Ring(r) : Carvable(c) /\ ~Dug(level, c)

\* The room is dug behind its door.
Room(level, p, r, door) == Carve(Carve(level, Floor(r), "floor"), {Ahead(p.at, p.dir, 1)}, door)

\* The cells of a wall.
Wall(r, d) ==
  CASE d = "north" -> Block(r.x[1], r.x[2], r.y[1] - 1, r.y[1] - 1)
    [] d = "south" -> Block(r.x[1], r.x[2], r.y[2] + 1, r.y[2] + 1)
    [] d = "west" -> Block(r.x[1] - 1, r.x[1] - 1, r.y[1], r.y[2])
    [] d = "east" -> Block(r.x[2] + 1, r.x[2] + 1, r.y[1], r.y[2])

\* chamberExits: up to three doors, in walls other than the one of the entry;
\* the first one is not a secret door.
Doors(level, r, entry) ==
  LET Free(d) == {c \in Wall(r, d) : Carvable(c) /\ ~Dug(level, c) /\
                    InBounds(Ahead(c, d, 1)) /\ ~Dug(level, Ahead(c, d, 1))}
      Ways == UNION {{[at |-> c, dir |-> d, tile |-> k] : c \in Free(d), k \in {"door", "secret"}} :
                       d \in Dirs \ {entry}}
  IN {q \in UNION {[1..n -> Ways] : n \in ExitCounts} :
        /\ 1 \in DOMAIN q => q[1].tile = "door"
        /\ \A i, j \in DOMAIN q : i # j => q[i].dir # q[j].dir}

Opened(level, doors) ==
  LET at == {doors[i].at : i \in DOMAIN doors}
  IN [c \in at \cup DOMAIN level |->
        IF c \in at THEN doors[CHOOSE i \in DOMAIN doors : doors[i].at = c].tile ELSE level[c]]

Beyond(queue, l, doors, i) ==
  IF i \in DOMAIN doors THEN Enqueue(queue, l, doors[i].at, doors[i].dir) ELSE queue

GrowChamber(p, rest, r) ==
  /\ Placeable(levels[p.level], r)
  /\ LET room == Room(levels[p.level], p, r, "door") IN
     \E doors \in Doors(room, r, Around(p.dir)) :
       /\ levels' = [levels EXCEPT ![p.level] = Opened(room, doors)]
       /\ frontier' = Beyond(Beyond(Beyond(rest, p.level, doors, 1), p.level, doors, 2), p.level, doors, 3)
  /\ UNCHANGED stairs

\* A vault behind a secret door.
GrowSecretRoom(p, rest, r) ==
  /\ Placeable(levels[p.level], r)
  /\ levels' = [levels EXCEPT ![p.level] = Room(@, p, r, "secret")]
  /\ frontier' = rest /\ UNCHANGED stairs

\* growStairs: a new level with its landing, unless there are enough.
GrowStairs(p, rest) ==
  LET down == Ahead(p.at, p.dir, 1)
      deeper == Len(levels) + 1
  IN IF Len(levels) >= MaxLevels \/ ~Carvable(down)
       THEN frontier' = rest /\ UNCHANGED <<levels, stairs>>
       ELSE /\ levels' = Append([levels EXCEPT ![p.level] = Carve(@, {down}, "down")],
                                Carve(Landing, {Arrival}, "up"))
            /\ stairs' = Append(stairs, [from |-> p.level, to |-> deeper, down |-> down, up |-> Arrival])
            /\ frontier' = Exits(rest, deeper)

DeadEnd(rest) == frontier' = rest /\ UNCHANGED <<levels, stairs>>

\* grow: a point that was opened meanwhile is spent.  A crowded frontier opens
\* no room and no stairs.
Grow ==
  LET p == Head(frontier)
      rest == Tail(frontier)
      level == levels[p.level]
  IN /\ frontier # <<>> /\ budget > 0
     /\ budget' = budget - 1
     /\ IF ~InBounds(p.at) \/ Dug(level, Ahead(p.at, p.dir, 1)) THEN DeadEnd(rest)
        ELSE \/ GrowPassage(p, rest)
             \/ ~Crowded(rest) /\ DeadEnd(rest)
             \/ ~Crowded(rest) /\ \E r \in Rects(p, VaultSides) : GrowSecretRoom(p, rest, r)
             \/ ~Crowded(rest) /\ \E r \in Rects(p, RoomSides) : GrowChamber(p, rest, r)
             \/ ~Crowded(rest) /\ GrowStairs(p, rest)

DungeonNext == Grow

DungeonSpec == DungeonInit /\ [][DungeonNext]_dungeonVars

--------------------------------------------------------------------------------
(* Properties.                                                             *)

Tiles == {"floor", "door", "secret", "up", "down"}

DungeonTypeOK ==
  /\ budget \in 0..GrowthBudget
  /\ \A i \in DOMAIN levels : \A c \in DOMAIN levels[i] : InBounds(c) /\ levels[i][c] \in Tiles
  /\ \A i \in DOMAIN frontier : frontier[i].level \in DOMAIN levels /\ frontier[i].dir \in Dirs

Beside(c) == {Ahead(c, d, 1) : d \in Dirs}

\* The cells of D in a set or beside it.
Nearby(near) == UNION {Beside(c) : c \in near}
Wider(D, near) == near \cup (Nearby(near) \cap D)

\* The cells of a level that can be reached from its arrival.
Reached(level) ==
  LET Spread[near \in SUBSET DOMAIN level] ==
        IF Wider(DOMAIN level, near) = near THEN near ELSE Spread[Wider(DOMAIN level, near)]
  IN Spread[{Arrival} \cap DOMAIN level]

\* The guarantees of Generate and of Stair (generator.go:99-105,
\* dungeon.go:111-113): every cell that was dug can be reached from where its
\* level is entered, and the stairs come in pairs that are still there.
DungeonConnected ==
  /\ \A i \in DOMAIN levels : Reached(levels[i]) = DOMAIN levels[i]
  /\ \A i \in DOMAIN stairs :
       levels[stairs[i].from][stairs[i].down] = "down" /\ levels[stairs[i].to][stairs[i].up] = "up"
  /\ \A i \in DOMAIN levels : \A c \in DOMAIN levels[i] :
       /\ levels[i][c] = "down" => \E k \in DOMAIN stairs : stairs[k].from = i /\ stairs[k].down = c
       /\ i > 1 => \E k \in DOMAIN stairs : stairs[k].to = i
================================================================================
