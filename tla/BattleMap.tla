------------------------------- MODULE BattleMap -------------------------------
(***************************************************************************)
(* The map of a fight (master/internal/combatmap, server/combat_map.go):   *)
(* rooms and corridors dug into rock, a token for each combatant, moves    *)
(* that a player asks for his own token, and how far a token sees.  When a *)
(* map is created and discarded is in TurnOrder; here another may replace  *)
(* it, or the fight end, while a move waits for the store.  Walls block    *)
(* movement and sight alike, and a map is the set of its open cells.       *)
(***************************************************************************)
EXTENDS Integers, FiniteSets, Sequences, SequencesExt

CONSTANTS
  MapWidth, MapHeight,
  RoomSizes,      \* from MinRoomSize to MaxRoomSize
  RoomAttempts,
  VisionRadius,
  Reach,          \* speedFeet \div FeetPerCell
  Roster,         \* the combatants in turn order
  FirstTeam,      \* those on the team of the first
  Movers,         \* the players' connections
  OwnsToken,      \* which token each of them may move
  MaxMaps         \* bound: maps drawn

ASSUME MapAssumption == MapWidth \in Nat \ {0} /\ MapHeight \in Nat \ {0} /\ RoomSizes \subseteq Nat \ {0}
ASSUME RosterAssumption == Len(Roster) \in Nat /\ DOMAIN Roster = 1..Len(Roster)
ASSUME RadiusAssumption == VisionRadius \in Nat \ {0} /\ Reach \in Nat /\ RoomAttempts \in Nat /\ MaxMaps \in Nat

VARIABLES
  drawn,     \* how many maps were made; the last one is the campaign's
  open,      \* its open cells; none when the fight has no map
  token,     \* where each combatant stands
  mover      \* what each connection's handler is doing

mapVars == <<drawn, open, token, mover>>

Combatants == Range(Roster)
Grid == {<<x, y>> : x \in 0..(MapWidth - 1), y \in 0..(MapHeight - 1)}
NoMove == [pc |-> "idle"]

MapInit ==
  /\ drawn = 0 /\ open = {}
  /\ token = <<>>
  /\ mover = [m \in Movers |-> NoMove]

--------------------------------------------------------------------------------
(* GenerateRoomsAndCorridors.                                              *)

\* A room is its corner and its size.  What a roll can be: a room too large for
\* the map is no candidate.
Candidates ==
  UNION {[x : 1..(MapWidth - w - 1), y : 1..(MapHeight - h - 1), w : {w}, h : {h}] :
           w \in {s \in RoomSizes : s < MapWidth - 1}, h \in {s \in RoomSizes : s < MapHeight - 1}}

Center(r) == <<r.x + r.w \div 2, r.y + r.h \div 2>>

Overlaps(r, o) ==
  /\ r.x - 1 < o.x + o.w /\ r.x + r.w + 1 > o.x
  /\ r.y - 1 < o.y + o.h /\ r.y + r.h + 1 > o.y

CarveRoom(r) == (r.x..(r.x + r.w - 1)) \X (r.y..(r.y + r.h - 1))

Span(a, b) == IF a < b THEN a..b ELSE b..a

\* An L from center to center; across: the horizontal leg first.
CarveLegs(from, to, across) ==
  IF across THEN (Span(from[1], to[1]) \X {from[2]}) \cup ({to[1]} \X Span(from[2], to[2]))
            ELSE ({from[1]} \X Span(from[2], to[2])) \cup (Span(from[1], to[1]) \X {to[2]})

\* A candidate too near to a room is dropped; a room is joined to the last one.
TryRoom(map, try) ==
  IF \E r \in Range(map.rooms) : Overlaps(try.room, r) THEN map
  ELSE [rooms |-> Append(map.rooms, try.room),
        open |-> map.open \cup CarveRoom(try.room)
                   \cup (IF map.rooms = <<>> THEN {} ELSE CarveLegs(Center(Last(map.rooms)), Center(try.room), try.across))]

NoRooms == [rooms |-> <<>>, open |-> {}]

GenerateRoomsAndCorridors(tries) ==
  LET Built[i \in 0..RoomAttempts] == IF i = 0 THEN NoRooms ELSE TryRoom(Built[i - 1], tries[i])
  IN Built[RoomAttempts].open

\* The maps there can be, with any floor at all.
Maps == {GenerateRoomsAndCorridors(tries) : tries \in [1..RoomAttempts -> [room : Candidates, across : BOOLEAN]]} \ {{}}

--------------------------------------------------------------------------------
(* dmGenerateCombatMap.                                                    *)

\* The cells before c, row by row.
ScanOpenCells(cells, c) == {e \in cells : e[2] < c[2] \/ (e[2] = c[2] /\ e[1] < c[1])}

\* The first team from the front, everybody else from the back.
ClusterPosition(cells, i) ==
  LET n == Cardinality(cells)
      index == IF Roster[i] \in FirstTeam THEN (i - 1) % n ELSE (n - i) % n
  IN CHOOSE c \in cells : Cardinality(ScanOpenCells(cells, c)) = index

\* A combatant has one token: the last that was placed.
PlaceTokens(cells) ==
  [c \in Combatants |->
     ClusterPosition(cells, CHOOSE i \in DOMAIN Roster : Roster[i] = c /\ \A j \in DOMAIN Roster : Roster[j] = c => j <= i)]

\* The whole map is made before it is anybody else's.  A combatant that cannot
\* be looked up, or no floor at all, leaves the map that was there.
DmGenerateCombatMap ==
  /\ drawn < MaxMaps
  /\ open' \in Maps
  /\ token' = PlaceTokens(open')
  /\ drawn' = drawn + 1
  /\ UNCHANGED mover

\* end_combat.
DiscardMap == open # {} /\ open' = {} /\ token' = <<>> /\ UNCHANGED <<drawn, mover>>

--------------------------------------------------------------------------------
(* handleMapTokenMoveRequest.                                              *)

\* ValidateMove: breadth first over the eight neighbours.
Neighbours(c) == ((c[1] - 1)..(c[1] + 1)) \X ((c[2] - 1)..(c[2] + 1))

Neighbourhood(near) == UNION {Neighbours(c) : c \in near}
StepOn(cells, near) == near \cup (Neighbourhood(near) \cap cells)

Within(steps, cells, from) ==
  LET Near[n \in 0..steps] == IF n = 0 THEN {from} ELSE StepOn(cells, Near[n - 1])
  IN Near[steps]

ValidateMove(cells, from, to) == to \in cells /\ to \in Within(Reach, cells, from)

\* The map is looked up under its lock, the token in it without; then the
\* handler waits for the character's row.
RequestMove(m) ==
  /\ mover[m].pc = "idle" /\ OwnsToken[m] \in DOMAIN token
  /\ mover' = [mover EXCEPT ![m] = [pc |-> "check", map |-> drawn, cells |-> open, from |-> token[OwnsToken[m]]]]
  /\ UNCHANGED <<drawn, open, token>>

\* Mutant: the token is moved on the map the campaign has by now.
SameMapNow(m) == open # {}

\* A map that was discarded or replaced goes on living for this request alone.
SameMap(m) == open # {} /\ mover[m].map = drawn

\* Not the owner's, not approved, out of range, blocked: refused.
MoveToken(m) ==
  /\ mover[m].pc = "check"
  /\ \/ UNCHANGED token
     \/ \E to \in mover[m].cells :
          /\ ValidateMove(mover[m].cells, mover[m].from, to)
          /\ token' = IF SameMap(m) THEN [token EXCEPT ![OwnsToken[m]] = to] ELSE token
  /\ mover' = [mover EXCEPT ![m] = NoMove]
  /\ UNCHANGED <<drawn, open>>

MapNext ==
  \/ DmGenerateCombatMap \/ DiscardMap
  \/ \E m \in Movers : RequestMove(m) \/ MoveToken(m)

MapSpec == MapInit /\ [][MapNext]_mapVars

--------------------------------------------------------------------------------
(* Visible: shadows are cast octant by octant.  A slope is a fraction with a *)
(* positive denominator; those of the code are quotients of small halves,    *)
(* which a float64 tells apart.                                              *)

Octants ==
  {<<1, 0, 0, 1>>, <<0, 1, 1, 0>>, <<0, -1, 1, 0>>, <<-1, 0, 0, 1>>,
   <<-1, 0, 0, -1>>, <<0, -1, -1, 0>>, <<0, 1, -1, 0>>, <<1, 0, 0, -1>>}

\* A gap is what lies between two slopes.
Slope == Int \X (Nat \ {0})
Gap == Slope \X Slope

Below(a, b) == a[1] * b[2] < b[1] * a[2]

\* Mutant: the near corner of a cell for its far one.
LeftSlopeNear(dx, d) == <<1 - 2 * dx, 2 * d + 1>>

LeftSlope(dx, d) == <<1 - 2 * dx, 2 * d - 1>>
RightSlope(dx, d) == <<-1 - 2 * dx, 2 * d + 1>>

\* The cell dx aside in row d of an octant.
Place(at, t, dx, d) == <<at[1] + dx * t[1] - d * t[2], at[2] + dx * t[3] - d * t[4]>>
InRadius(dx, d) == dx * dx + d * d < VisionRadius * VisionRadius

\* What is lit through a gap; lit beyond: by the rows further out.
Through(beyond, start, end) == IF Below(start, end) THEN {} ELSE beyond[<<start, end>>]

\* A look at one cell.  s: the row so far, with the slope that light starts at
\* and the one it will start at after the wall that blocks it.
Look(cells, at, t, d, end, beyond, s, dx) ==
  LET c == Place(at, t, dx, d)
      opaque == c \notin cells
      lit == IF InRadius(dx, d) THEN s.lit \cup {c} ELSE s.lit
  IN IF s.left \/ c \notin Grid \/ Below(s.start, RightSlope(dx, d)) THEN s
     ELSE IF Below(LeftSlope(dx, d), end) THEN [s EXCEPT !.left = TRUE]
     ELSE IF s.blocked /\ opaque THEN [s EXCEPT !.lit = lit, !.next = RightSlope(dx, d)]
     ELSE IF s.blocked THEN [s EXCEPT !.lit = lit, !.blocked = FALSE, !.start = s.next]
     ELSE IF opaque /\ d < VisionRadius
       THEN [s EXCEPT !.lit = lit \cup Through(beyond, s.start, LeftSlope(dx, d)), !.blocked = TRUE, !.next = RightSlope(dx, d)]
     ELSE [s EXCEPT !.lit = lit]

Unlit(start) == [start |-> start, next |-> <<0, 1>>, blocked |-> FALSE, lit |-> {}, left |-> FALSE]

\* Row d, its cells from dx = -d to 0 in turn.
ScanRow(cells, at, t, d, start, end, beyond) ==
  LET Row[i \in 0..(d + 1)] ==
        IF i = 0 THEN Unlit(start) ELSE Look(cells, at, t, d, end, beyond, Row[i - 1], i - d - 1)
  IN Row[d + 1]

\* Row d and the rows beyond it, which a wall at the end of the row hides.
LightRow(cells, at, t, d, start, end, beyond) ==
  LET row == ScanRow(cells, at, t, d, start, end, beyond)
  IN row.lit \cup (IF row.blocked THEN {} ELSE beyond[<<row.start, end>>])

\* An octant; Lit: the n outermost rows.
CastLight(cells, at, t) ==
  LET Lit[n \in 0..VisionRadius] ==
        [gap \in Gap |-> IF n = 0 THEN {} ELSE LightRow(cells, at, t, VisionRadius + 1 - n, gap[1], gap[2], Lit[n - 1])]
  IN Lit[VisionRadius][<< <<1, 1>>, <<0, 1>> >>]

Visible(cells, at) == {at} \cup UNION {CastLight(cells, at, t) : t \in Octants}

--------------------------------------------------------------------------------
(* Properties.                                                             *)

MapTypeOK ==
  /\ drawn \in 0..MaxMaps /\ open \subseteq Grid
  /\ token \in [Combatants -> Grid] \/ token = <<>>
  /\ \A m \in Movers :
       mover[m] = NoMove \/ mover[m] \in [pc : {"check"}, map : 1..MaxMaps, cells : SUBSET Grid, from : Grid]

\* Whoever is placed or moves, and whatever map replaces the one a move was
\* checked on, the combatants stand on open floor and each can walk to every
\* other: the rooms are one connected whole (generator.go:47-53).
FightersCanMeet ==
  \A c, d \in DOMAIN token : token[c] \in open /\ token[d] \in Within(Cardinality(open), open, token[c])

Sign(n) == IF n > 0 THEN 1 ELSE IF n < 0 THEN -1 ELSE 0

Between(a, b) ==
  LET n == IF a[1] = b[1] THEN b[2] - a[2] ELSE b[1] - a[1]
      length == IF n < 0 THEN -n ELSE n
  IN {<<a[1] + i * Sign(b[1] - a[1]), a[2] + i * Sign(b[2] - a[2])>> : i \in 1..(length - 1)}

InLine(a, b) ==
  /\ a # b
  /\ a[1] = b[1] \/ a[2] = b[2] \/ b[1] - a[1] = b[2] - a[2] \/ b[1] - a[1] = a[2] - b[2]

\* Along rows, columns and diagonals the shadows are exact: a combatant sees a
\* cell within the radius when no wall is in between, and none behind a wall.
SightIsStraight ==
  \A c \in DOMAIN token :
    LET seen == Visible(open, token[c])
        Near(b) == (b[1] - token[c][1]) * (b[1] - token[c][1]) + (b[2] - token[c][2]) * (b[2] - token[c][2]) < VisionRadius * VisionRadius
    IN \A b \in Grid : InLine(token[c], b) => (b \in seen <=> Near(b) /\ Between(token[c], b) \subseteq open)
================================================================================
