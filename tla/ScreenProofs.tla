---------------------------- MODULE ScreenProofs ----------------------------
(***************************************************************************)
(* What makes the picture, for every size of the palettes, every tree of   *)
(* files, every clock, every number of sprites and whatever VRAM holds:    *)
(* rows are drawn with the colours the game has written (Palettes), the    *)
(* menu shows what it will load (Menu), frames take their time             *)
(* (FramePacing), the sprites are a sorted ring that implements a queue    *)
(* (SpritePriorities, SpriteOrder), and a row shows tiles and sprites      *)
(* where they belong (Renderer).                                           *)
(***************************************************************************)
EXTENDS
    Palettes, Menu, FramePacing, SpritePriorities, Renderer,
    SequenceTheorems, FiniteSetTheorems, WellFoundedInduction, TLAPS

-----------------------------------------------------------------------------
(* Palettes                                                                *)

LEMMA Division ==
    ASSUME NEW n \in Nat, NEW d \in Nat \ {0}
    PROVE  n \div d \in Nat /\ n % d \in 0 .. d - 1 /\ n = (n \div d) * d + (n % d)
OBVIOUS

LEMMA DivisionUnique ==
    ASSUME NEW q \in Nat, NEW d \in Nat \ {0}, NEW r \in 0 .. d - 1
    PROVE  (q * d + r) % d = r /\ (q * d + r) \div d = q
OBVIOUS

\* Places on a ring of m.
LEMMA RingPlace ==
    ASSUME NEW m \in Nat \ {0}, NEW a \in 0 .. m - 1, NEW k \in 0 .. m
    PROVE  (a + k) % m = IF a + k < m THEN a + k ELSE a + k - m
<1>1. CASE a + k < m
  <2>1. (0 * m + (a + k)) % m = a + k
    BY <1>1, DivisionUnique
  <2>2. 0 * m + (a + k) = a + k
    OBVIOUS
  <2> QED
    BY <1>1, <2>1, <2>2
<1>2. CASE ~(a + k < m)
  <2>1. a + k - m \in 0 .. m - 1
    BY <1>2
  <2>2. (1 * m + (a + k - m)) % m = a + k - m
    BY <2>1, DivisionUnique
  <2>3. 1 * m + (a + k - m) = a + k
    OBVIOUS
  <2> QED
    BY <1>2, <2>2, <2>3
<1> QED
  BY <1>1, <1>2

Memory == [Bytes -> 0 .. 255]

\* While the index goes on by itself it is as far from where it was set as there are data.
Followed(w) == increment[w] => index[w] = (start[w] + Len(since[w])) % PaletteBytes

PaletteInv ==
    /\ palette_mem \in [Which -> Memory] /\ palette_dirty \in [Which -> BOOLEAN]
    /\ DOMAIN rendered = Which
    /\ index \in [Which -> Bytes] /\ increment \in [Which -> BOOLEAN]
    /\ start \in [Which -> Bytes] /\ since \in [Which -> Seq(0 .. 255)]
    /\ \A w \in Which : Len(since[w]) <= PaletteBytes /\ Followed(w)
    /\ ColoursCurrent /\ FillsInOrder

\* What a palette holds at the kth place after i.
Place(i, k) == (i + k - 1) % PaletteBytes

LEMMA Ring ==
    \A a \in Bytes, k \in 0 .. PaletteBytes :
        (a + k) % PaletteBytes = IF a + k < PaletteBytes THEN a + k ELSE a + k - PaletteBytes
BY RingPlace, PalettesAssumption DEF Bytes

LEMMA Places ==
    ASSUME NEW i \in Bytes, NEW k \in 1 .. PaletteBytes
    PROVE  Place(i, k) = IF i + k - 1 < PaletteBytes THEN i + k - 1 ELSE i + k - 1 - PaletteBytes
<1>1. i \in 0 .. PaletteBytes - 1 /\ k - 1 \in 0 .. PaletteBytes /\ PaletteBytes \in Nat \ {0}
  BY PalettesAssumption DEF Bytes
<1>2. (i + (k - 1)) % PaletteBytes
        = IF i + (k - 1) < PaletteBytes THEN i + (k - 1) ELSE i + (k - 1) - PaletteBytes
  BY <1>1, RingPlace
<1>3. i + (k - 1) = i + k - 1
  BY <1>1
<1> QED
  BY <1>2, <1>3 DEF Place

\* A byte that is written where the data have come to, behind at most all but one of
\* them, leaves the others.
LEMMA WritesBehind ==
    \A m \in Memory, i \in Bytes, d \in Seq(0 .. 255), v \in 0 .. 255 :
        Len(d) < PaletteBytes /\ (\A k \in 1 .. Len(d) : m[Place(i, k)] = d[k]) =>
        \A k \in 1 .. Len(d) + 1 :
            [m EXCEPT ![(i + Len(d)) % PaletteBytes] = v][Place(i, k)] = Append(d, v)[k]
<1> SUFFICES ASSUME NEW m \in Memory, NEW i \in Bytes, NEW d \in Seq(0 .. 255), NEW v \in 0 .. 255,
                    Len(d) < PaletteBytes, \A k \in 1 .. Len(d) : m[Place(i, k)] = d[k]
             PROVE  \A k \in 1 .. Len(d) + 1 :
                        [m EXCEPT ![(i + Len(d)) % PaletteBytes] = v][Place(i, k)] = Append(d, v)[k]
  BY ZenonT(40)
<1> DEFINE at == (i + Len(d)) % PaletteBytes
<1>1. PaletteBytes \in Nat \ {0} /\ i \in 0 .. PaletteBytes - 1 /\ Len(d) \in 0 .. PaletteBytes
  BY PalettesAssumption, LenProperties DEF Bytes
<1>2. at = IF i + Len(d) < PaletteBytes THEN i + Len(d) ELSE i + Len(d) - PaletteBytes
  BY <1>1, RingPlace
<1>3. at \in Bytes
  BY <1>1, <1>2 DEF Bytes
<1> SUFFICES ASSUME NEW k \in 1 .. Len(d) + 1
             PROVE  [m EXCEPT ![at] = v][Place(i, k)] = Append(d, v)[k]
  OBVIOUS
<1>4. Place(i, k) = IF i + k - 1 < PaletteBytes THEN i + k - 1 ELSE i + k - 1 - PaletteBytes
  BY <1>1, Places
<1> HIDE DEF at
<1>5. CASE k = Len(d) + 1
  <2>1. Place(i, k) = at
    BY <1>1, <1>2, <1>4, <1>5
  <2>2. Append(d, v)[k] = v
    BY <1>5
  <2> QED
    BY <1>3, <2>1, <2>2 DEF Memory
<1>6. CASE k # Len(d) + 1
  <2>1. k \in 1 .. Len(d)
    BY <1>1, <1>6
  <2>2. Place(i, k) # at /\ Place(i, k) \in Bytes
    BY <1>1, <1>2, <1>4, <2>1 DEF Bytes
  <2>3. Append(d, v)[k] = d[k]
    BY <2>1
  <2> QED
    BY <2>1, <2>2, <2>3 DEF Memory
<1> QED
  BY <1>5, <1>6

LEMMA WriteDataInv ==
    ASSUME PaletteInv, NEW w \in Which, NEW v \in PaletteData, WriteData(w, v)
    PROVE  PaletteInv'
<1> DEFINE n == Len(since[w])
           m == PaletteBytes
<1>0. v \in 0 .. 255 /\ m \in Nat \ {0} /\ Bytes = 0 .. m - 1
  BY PalettesAssumption DEF Bytes
<1>1. /\ since[w] \in Seq(0 .. 255) /\ n \in 0 .. m /\ index[w] \in Bytes /\ start[w] \in Bytes
      /\ palette_mem[w] \in Memory /\ Followed(w)
  BY LenProperties DEF PaletteInv
<1>2. IndexNext(w) = IF index[w] + 1 < m THEN index[w] + 1 ELSE 0
  <2>1. 1 \in 0 .. m
    BY <1>0
  <2>2. (index[w] + 1) % m = IF index[w] + 1 < m THEN index[w] + 1 ELSE index[w] + 1 - m
    BY <1>1, <2>1, Ring, Zenon
  <2> QED
    BY <1>0, <1>1, <2>2 DEF IndexNext
<1>3. (start[w] + 1) % m = IF start[w] + 1 < m THEN start[w] + 1 ELSE 0
  <2>1. 1 \in 0 .. m
    BY <1>0
  <2>2. (start[w] + 1) % m = IF start[w] + 1 < m THEN start[w] + 1 ELSE start[w] + 1 - m
    BY <1>1, <2>1, Ring, Zenon
  <2> QED
    BY <1>0, <1>1, <2>2
<1>4. n = m => Tail(since[w]) \in Seq(0 .. 255) /\ Len(Tail(since[w])) = m - 1
  BY <1>0, <1>1
<1> DEFINE kept == IF n = m THEN Tail(since[w]) ELSE since[w]
           from == IF n = m /\ increment[w] THEN (start[w] + 1) % m ELSE start[w]
<1>5. /\ kept \in Seq(0 .. 255) /\ Len(kept) < m /\ Len(kept) \in Nat
      /\ Len(kept) = IF n = m THEN m - 1 ELSE n
  BY <1>0, <1>1, <1>4
<1>6. from \in Bytes
  BY <1>0, <1>1, <1>3
<1>7. /\ palette_mem' = [palette_mem EXCEPT ![w] = [palette_mem[w] EXCEPT ![index[w]] = v]]
      /\ since' = [since EXCEPT ![w] = Append(kept, v)]
      /\ start' = [start EXCEPT ![w] = from]
      /\ index' = [index EXCEPT ![w] = IF increment[w] THEN IndexNext(w) ELSE index[w]]
      /\ palette_dirty' = [palette_dirty EXCEPT ![w] = Dirty(w, v)]
      /\ rendered' = rendered /\ increment' = increment
  BY DEF WriteData, PaletteInv
<1>8. Append(kept, v) \in Seq(0 .. 255) /\ Len(Append(kept, v)) = Len(kept) + 1
  BY <1>0, <1>5, AppendProperties
<1>9. increment[w] => index[w] = (from + Len(kept)) % m
  <2> SUFFICES ASSUME increment[w] PROVE index[w] = (from + Len(kept)) % m
    OBVIOUS
  <2>1. CASE n # m
    BY <1>1, <2>1 DEF Followed
  <2>2. CASE n = m
    <3>1. index[w] = (start[w] + m) % m
      BY <1>1, <2>2 DEF Followed
    <3>2. index[w] = start[w]
      BY <3>1, <1>0, <1>1, RingPlace, SMT
    <3>3. from = (start[w] + 1) % m /\ Len(kept) = m - 1
      BY <2>2, <1>5
    <3>4. (from + (m - 1)) % m = IF from + (m - 1) < m THEN from + (m - 1) ELSE from + (m - 1) - m
      <4>1. m - 1 \in 0 .. m
        BY <1>0
      <4> QED
        BY <1>6, <4>1, Ring, Zenon
    <3>5. from = IF start[w] + 1 < m THEN start[w] + 1 ELSE 0
      BY <1>3, <3>3
    <3>6. (from + Len(kept)) % m = (from + (m - 1)) % m
      BY <3>3
    <3> HIDE DEF from, kept
    <3>7. start[w] = IF from + (m - 1) < m THEN from + (m - 1) ELSE from + (m - 1) - m
      BY <1>0, <1>1, <3>5
    <3> QED
      BY <3>2, <3>4, <3>6, <3>7, Zenon
  <2> QED
    BY <2>1, <2>2
<1>10. increment[w] => \A k \in 1 .. Len(kept) : palette_mem[w][Place(from, k)] = kept[k]
  <2> SUFFICES ASSUME increment[w], NEW k \in 1 .. Len(kept)
               PROVE  palette_mem[w][Place(from, k)] = kept[k]
    OBVIOUS
  <2>1. \A j \in 1 .. n : palette_mem[w][Place(start[w], j)] = since[w][j]
    BY DEF PaletteInv, FillsInOrder, Place
  <2>2. CASE n # m
    BY <2>1, <2>2
  <2>3. CASE n = m
    <3>1. kept[k] = since[w][k + 1] /\ k + 1 \in 1 .. n
      BY <1>0, <1>1, <1>5, <2>3
    <3>2. Place(start[w], k + 1) = IF start[w] + (k + 1) - 1 < m THEN start[w] + (k + 1) - 1
                                   ELSE start[w] + (k + 1) - 1 - m
      <4>1. k + 1 \in 1 .. m
        BY <1>0, <1>1, <3>1
      <4> QED
        BY <1>1, <4>1, Places, Zenon
    <3>3. Place(from, k) = IF from + k - 1 < m THEN from + k - 1 ELSE from + k - 1 - m
      BY <1>0, <1>5, <1>6, Places
    <3>4. from = IF start[w] + 1 < m THEN start[w] + 1 ELSE 0
      BY <1>3, <2>3
    <3>5. k \in 1 .. m - 1
      BY <1>0, <1>5
    <3>6. Place(from, k) = Place(start[w], k + 1)
      <4> HIDE DEF from, kept
      <4> QED
        BY <1>0, <1>1, <3>2, <3>3, <3>4, <3>5
    <3> QED
      BY <2>1, <3>1, <3>6
  <2> QED
    BY <2>2, <2>3
<1> HIDE DEF kept, from
<1>11. increment[w] => \A k \in 1 .. Len(kept) + 1 :
         [palette_mem[w] EXCEPT ![index[w]] = v][Place(from, k)] = Append(kept, v)[k]
  <2> SUFFICES ASSUME increment[w]
               PROVE  \A k \in 1 .. Len(kept) + 1 :
                        [palette_mem[w] EXCEPT ![index[w]] = v][Place(from, k)] = Append(kept, v)[k]
    OBVIOUS
  <2>1. \A k \in 1 .. Len(kept) + 1 :
          [palette_mem[w] EXCEPT ![(from + Len(kept)) % PaletteBytes] = v][Place(from, k)]
             = Append(kept, v)[k]
    <3>1. \A k \in 1 .. Len(kept) : palette_mem[w][Place(from, k)] = kept[k]
      BY <1>10
    <3>2. palette_mem[w] \in Memory /\ kept \in Seq(0 .. 255) /\ Len(kept) < PaletteBytes
      BY <1>1, <1>5
    <3>3. v \in 0 .. 255
      BY <1>0
    <3> HIDE DEF m, n
    <3> QED
      BY <1>6, <3>1, <3>2, <3>3, WritesBehind, ZenonT(40)
  <2>2. index[w] = (from + Len(kept)) % PaletteBytes
    BY <1>9
  <2> QED
    BY <2>1, <2>2, Zenon
<1>12. increment[w] => IndexNext(w) = (from + Len(Append(kept, v))) % m
  <2> SUFFICES ASSUME increment[w] PROVE IndexNext(w) = (from + Len(Append(kept, v))) % m
    OBVIOUS
  <2>1. /\ index[w] = IF from + Len(kept) < m THEN from + Len(kept) ELSE from + Len(kept) - m
        /\ (from + (Len(kept) + 1)) % m
             = IF from + (Len(kept) + 1) < m THEN from + (Len(kept) + 1) ELSE from + (Len(kept) + 1) - m
    <3>1. Len(kept) \in 0 .. m /\ Len(kept) + 1 \in 0 .. m
      BY <1>0, <1>5
    <3>2. (from + Len(kept)) % m = IF from + Len(kept) < m THEN from + Len(kept) ELSE from + Len(kept) - m
      BY <1>6, <3>1, Ring, Zenon
    <3>3. (from + (Len(kept) + 1)) % m
             = IF from + (Len(kept) + 1) < m THEN from + (Len(kept) + 1) ELSE from + (Len(kept) + 1) - m
      BY <1>6, <3>1, Ring, Zenon
    <3> QED
      BY <1>9, <3>2, <3>3
  <2>2. from \in 0 .. m - 1 /\ Len(kept) \in Nat
    BY <1>0, <1>5, <1>6
  <2>3. IndexNext(w) = IF from + (Len(kept) + 1) < m THEN from + (Len(kept) + 1)
                       ELSE from + (Len(kept) + 1) - m
    BY <1>0, <1>1, <1>2, <1>5, <2>1, <2>2
  <2> QED
    BY <1>8, <2>1, <2>3, Zenon
<1>13. palette_mem'[w] = [palette_mem[w] EXCEPT ![index[w]] = v] /\ palette_mem' \in [Which -> Memory]
  BY <1>0, <1>1, <1>7 DEF PaletteInv, Memory
<1>14. /\ palette_dirty' \in [Which -> BOOLEAN] /\ DOMAIN rendered' = Which
       /\ increment' \in [Which -> BOOLEAN]
  BY <1>7, Zenon DEF PaletteInv, Dirty
<1>15. /\ index' \in [Which -> Bytes] /\ start' \in [Which -> Bytes]
       /\ since' \in [Which -> Seq(0 .. 255)]
  BY <1>0, <1>1, <1>2, <1>6, <1>7, <1>8 DEF PaletteInv
<1>16. \A u \in Which : Len(since'[u]) <= m /\ Followed(u)'
  <2> SUFFICES ASSUME NEW u \in Which PROVE Len(since'[u]) <= m /\ Followed(u)'
    OBVIOUS
  <2>1. CASE u = w
    BY <1>0, <1>1, <1>5, <1>7, <1>8, <1>12, <2>1 DEF PaletteInv, Followed
  <2>2. CASE u # w
    BY <1>7, <2>2 DEF PaletteInv, Followed
  <2> QED
    BY <2>1, <2>2
<1>17. ColoursCurrent'
  <2> SUFFICES ASSUME NEW u \in Which PROVE palette_dirty'[u] \/ rendered'[u] = Converted(palette_mem'[u])
    BY DEF ColoursCurrent, Converted
  <2>1. CASE u # w
    BY <1>7, <2>1 DEF PaletteInv, ColoursCurrent
  <2>2. CASE u = w
    <3>1. palette_dirty'[u] = Dirty(w, v)
      BY <1>7, <2>2, Zenon DEF PaletteInv
    <3>2. ~Dirty(w, v) => palette_mem'[w] = palette_mem[w]
      BY <1>1, <1>13 DEF Dirty, Memory
    <3>3. ~Dirty(w, v) => rendered[w] = Converted(palette_mem[w])
      BY DEF Dirty, PaletteInv, ColoursCurrent
    <3> QED
      BY <1>7, <2>2, <3>1, <3>2, <3>3, Zenon
  <2> QED
    BY <2>1, <2>2
<1>18. FillsInOrder'
  <2> SUFFICES ASSUME NEW u \in Which, increment'[u], NEW k \in 1 .. Len(since'[u])
               PROVE  palette_mem'[u][Place(start'[u], k)] = since'[u][k]
    BY DEF FillsInOrder, Place
  <2>1. CASE u = w
    BY <1>1, <1>7, <1>8, <1>11, <1>13, <2>1 DEF PaletteInv
  <2>2. CASE u # w
    BY <1>7, <2>2 DEF PaletteInv, FillsInOrder, Place
  <2> QED
    BY <2>1, <2>2
<1> QED
  BY <1>13, <1>14, <1>15, <1>16, <1>17, <1>18 DEF PaletteInv

LEMMA WriteIndexInv ==
    ASSUME PaletteInv, NEW w \in Which, NEW i \in Bytes, NEW auto \in BOOLEAN, WriteIndex(w, i, auto)
    PROVE  PaletteInv'
<1>1. /\ index' \in [Which -> Bytes] /\ start' \in [Which -> Bytes]
      /\ since' \in [Which -> Seq(0 .. 255)]
  BY EmptySeq DEF WriteIndex, PaletteInv
<1>2. increment' \in [Which -> BOOLEAN]
  BY Zenon DEF WriteIndex, PaletteInv
<1>3. \A u \in Which : Len(since'[u]) <= PaletteBytes /\ Followed(u)'
  <2> SUFFICES ASSUME NEW u \in Which PROVE Len(since'[u]) <= PaletteBytes /\ Followed(u)'
    OBVIOUS
  <2>1. CASE u # w
    BY <2>1 DEF WriteIndex, PaletteInv, Followed
  <2>2. CASE u = w
    <3>1. index'[u] = i /\ start'[u] = i /\ since'[u] = << >>
      BY <2>2 DEF WriteIndex, PaletteInv
    <3>2. PaletteBytes \in Nat \ {0} /\ i \in 0 .. PaletteBytes - 1
      BY PalettesAssumption DEF Bytes
    <3>3. (i + 0) % PaletteBytes = i
      BY <3>2, Ring, SMT
    <3> QED
      BY <3>1, <3>2, <3>3 DEF Followed
  <2> QED
    BY <2>1, <2>2
<1>4. ColoursCurrent'
  BY DEF WriteIndex, PaletteInv, ColoursCurrent, Converted
<1>5. FillsInOrder'
  BY DEF WriteIndex, PaletteInv, FillsInOrder
<1> QED
  BY <1>1, <1>2, <1>3, <1>4, <1>5 DEF WriteIndex, PaletteInv

LEMMA RefreshInv ==
    ASSUME PaletteInv, NEW w \in Which, Refresh(w)
    PROVE  PaletteInv'
<1>1. palette_dirty' \in [Which -> BOOLEAN] /\ DOMAIN rendered' = Which
  BY Zenon DEF Refresh, PaletteInv
<1>2. ColoursCurrent'
  <2> SUFFICES ASSUME NEW u \in Which
               PROVE  palette_dirty'[u] \/ rendered'[u] = Converted(palette_mem'[u])
    BY DEF ColoursCurrent, Converted
  <2>1. /\ palette_mem' = palette_mem
        /\ palette_dirty[u] \/ rendered[u] = Converted(palette_mem[u])
    BY DEF Refresh, PaletteInv, ColoursCurrent
  <2>2. CASE u # w
    <3>1. palette_dirty'[u] = palette_dirty[u] /\ rendered'[u] = rendered[u]
      BY <2>2, Zenon DEF Refresh, PaletteInv
    <3> QED
      BY <2>1, <3>1, Zenon
  <2>3. CASE u = w
    <3>1. rendered'[w] = IF palette_dirty[w] THEN Converted(palette_mem[w]) ELSE rendered[w]
      BY Zenon DEF Refresh, PaletteInv
    <3> QED
      BY <2>1, <2>3, <3>1, Zenon
  <2> QED
    BY <2>2, <2>3
<1>3. FillsInOrder' /\ \A u \in Which : Len(since'[u]) <= PaletteBytes /\ Followed(u)'
  BY DEF Refresh, PaletteInv, FillsInOrder, Followed
<1> QED
  BY <1>1, <1>2, <1>3 DEF Refresh, PaletteInv

\* The game's bytes are in the palette one after the other, and rows are drawn with them.
THEOREM ColoursAreWritten == PaletteSpec => []PaletteExact
<1>1. PaletteInit => PaletteInv
  <2> SUFFICES ASSUME PaletteInit PROVE PaletteInv
    OBVIOUS
  <2>1. PaletteBytes \in Nat \ {0} /\ 0 \in Bytes
    BY PalettesAssumption DEF Bytes
  <2>2. palette_mem \in [Which -> Memory]
    BY DEF PaletteInit, Memory
  <2>3. palette_dirty \in [Which -> BOOLEAN] /\ increment \in [Which -> BOOLEAN] /\ DOMAIN rendered = Which
    BY Zenon DEF PaletteInit
  <2>4. index \in [Which -> Bytes] /\ start \in [Which -> Bytes] /\ since \in [Which -> Seq(0 .. 255)]
    BY <2>1, EmptySeq DEF PaletteInit
  <2>5. \A w \in Which : Len(since[w]) <= PaletteBytes /\ Followed(w)
    BY <2>1 DEF PaletteInit, Followed
  <2>6. ColoursCurrent /\ FillsInOrder
    BY DEF PaletteInit, ColoursCurrent, FillsInOrder
  <2> QED
    BY <2>2, <2>3, <2>4, <2>5, <2>6 DEF PaletteInv
<1>2. PaletteInv /\ [PaletteNext]_paletteVars => PaletteInv'
  <2> SUFFICES ASSUME PaletteInv, [PaletteNext]_paletteVars PROVE PaletteInv'
    OBVIOUS
  <2>1. CASE PaletteNext
    BY <2>1, WriteIndexInv, WriteDataInv, RefreshInv DEF PaletteNext
  <2>2. CASE UNCHANGED paletteVars
    BY <2>2 DEF paletteVars, PaletteInv, ColoursCurrent, FillsInOrder, Followed, Converted
  <2> QED
    BY <2>1, <2>2
<1>3. PaletteInv => PaletteExact
  BY DEF PaletteInv, PaletteExact
<1> QED
  BY <1>1, <1>2, <1>3, PTL DEF PaletteSpec

-----------------------------------------------------------------------------
(* The pace of frames                                                      *)

\* What holds between any two steps: the end of the spinning is the end of the frame.
PacingInv ==
    /\ clock \in 0 .. MaxClock /\ last_ticks \in 0 .. MaxClock
    /\ framerate_times_ten \in Rates /\ asked \in Nat
    /\ stage \in {"sleep", "spin"} => estimated_ticks = last_ticks + Period
    /\ DelayFits

\* The same constants one by one.
LEMMA PacingSizes ==
    /\ Second \in Nat \ {0} /\ Tick \in Nat \ {0} /\ Word \in Nat \ {0}
    /\ SleepFrom \in Nat /\ Spare \in Nat /\ MaxClock \in Nat /\ MaxFrame \in Nat
BY PacingAssumption

LEMMA Products ==
    \A a, b, n \in Nat : a <= b => a * n <= b * n /\ a * n \in Nat /\ b * n \in Nat
<1>1. \A a, d, n \in Nat : (a + d) * n = a * n + d * n /\ a * n \in Nat /\ d * n \in Nat
  OBVIOUS
<1> SUFFICES ASSUME NEW a \in Nat, NEW b \in Nat, NEW n \in Nat, a <= b
             PROVE  a * n <= b * n /\ a * n \in Nat /\ b * n \in Nat
  OBVIOUS
<1>2. PICK d \in Nat : b = a + d
  <2>1. b - a \in Nat /\ b = a + (b - a)
    OBVIOUS
  <2> QED
    BY <2>1
<1>3. b * n = a * n + d * n /\ a * n \in Nat /\ d * n \in Nat
  BY <1>1, <1>2
<1> QED
  BY <1>3

LEMMA Shares ==
    ASSUME framerate_times_ten \in Rates
    PROVE  /\ framerate_times_ten \in Nat \ {0} /\ Period \in Nat /\ Period <= 10 * Second
           /\ \A e \in Nat : e * framerate_times_ten < 10 * Second => e <= Period
           /\ \A e \in Nat : e * framerate_times_ten >= 10 * Second => e >= Period
<1> DEFINE r == framerate_times_ten
           q == (10 * Second) \div r
           t == 10 * Second
           rest == t % r
<1>1. r \in Nat \ {0} /\ t \in Nat
  BY PacingAssumption, PacingSizes
<1>2. q \in Nat /\ rest \in 0 .. r - 1 /\ t = q * r + rest
  BY <1>1, Division
<1>3. Period = q
  BY DEF Period
<1> HIDE DEF r, q, t, rest
<1>4. \A e \in Nat : e * r < t => e <= q
  <2> SUFFICES ASSUME NEW e \in Nat, e * r < t, q + 1 <= e PROVE FALSE
    BY <1>2
  <2>1. (q + 1) * r <= e * r /\ (q + 1) * r \in Nat /\ e * r \in Nat
    BY <1>1, <1>2, Products
  <2>2. (q + 1) * r = q * r + r
    BY <1>1, <1>2
  <2>3. q * r \in Nat
    BY <1>1, <1>2
  <2> QED
    BY <1>1, <1>2, <2>1, <2>2, <2>3
<1>5. \A e \in Nat : e * r >= t => e >= q
  <2> SUFFICES ASSUME NEW e \in Nat, e * r >= t, e + 1 <= q PROVE FALSE
    BY <1>2
  <2>1. (e + 1) * r <= q * r /\ (e + 1) * r \in Nat /\ q * r \in Nat
    BY <1>1, <1>2, Products
  <2>2. (e + 1) * r = e * r + r /\ e * r \in Nat
    BY <1>1
  <2> QED
    BY <1>1, <1>2, <2>1, <2>2
<1>6. q <= t
  <2>1. q * 1 <= q * r
    <3>1. 1 * q <= r * q
      BY <1>1, <1>2, Products
    <3> QED
      BY <1>1, <1>2, <3>1
  <2>2. q * r \in Nat
    BY <1>1, <1>2
  <2> QED
    BY <1>1, <1>2, <2>1, <2>2
<1> QED
  BY <1>1, <1>2, <1>3, <1>4, <1>5, <1>6 DEF r, t

\* A clock that was set back makes the difference, which is unsigned, too large for a
\* frame that ended early; otherwise it is the time the frame took.
LEMMA Elapsed ==
    ASSUME PacingInv
    PROVE  /\ Minus(clock, last_ticks) \in Nat
           /\ clock < last_ticks => ~TooFast(Minus(clock, last_ticks))
           /\ clock >= last_ticks =>
                 /\ Minus(clock, last_ticks) = clock - last_ticks
                 /\ TooFast(clock - last_ticks) <=> (clock - last_ticks) * framerate_times_ten < 10 * Second
<1> DEFINE r == framerate_times_ten
           W == Word
           e == clock - last_ticks
           k == last_ticks - clock
<1>1. /\ r \in Nat \ {0} /\ W \in Nat \ {0} /\ clock \in 0 .. MaxClock /\ last_ticks \in 0 .. MaxClock
      /\ MaxClock \in Nat /\ Second \in Nat \ {0}
  BY PacingSizes, Shares DEF PacingInv
<1>2. MaxClock * r + 10 * Second < W
  BY PacingAssumption DEF PacingInv
<1>3. MaxClock * r \in Nat /\ MaxClock * 1 <= MaxClock * r
  <2>1. 1 * MaxClock <= r * MaxClock
    BY <1>1, Products
  <2> QED
    BY <1>1, <2>1
<1>4. MaxClock < W
  BY <1>1, <1>2, <1>3
<1>5. ASSUME e >= 0
      PROVE  Minus(clock, last_ticks) = e /\ (TooFast(e) <=> e * r < 10 * Second)
  <2>1. e \in Nat /\ e <= MaxClock
    BY <1>1, <1>5
  <2>2. e * r \in Nat /\ e * r <= MaxClock * r
    BY <1>1, <2>1, Products
  <2>3. e * r < W
    BY <1>1, <1>2, <1>3, <2>2
  <2> HIDE DEF e, r, W
  <2>4. e % W = e /\ (e * r) % W = e * r
    <3>1. \A n \in 0 .. W - 1 : n % W = n
      BY <1>1
    <3>2. e \in 0 .. W - 1 /\ e * r \in 0 .. W - 1
      BY <1>1, <1>4, <2>1, <2>2, <2>3
    <3> QED
      BY <3>1, <3>2
  <2>5. TooFast(e) <=> (e * r) \div 10 < Second
    BY <2>4 DEF TooFast, r, W
  <2>6. (e * r) \div 10 < Second <=> e * r < 10 * Second
    <3>1. \A n \in Nat, s \in Nat : n \div 10 < s <=> n < 10 * s
      OBVIOUS
    <3> QED
      BY <1>1, <2>2, <3>1
  <2> QED
    BY <2>4, <2>5, <2>6 DEF Minus, e, r, W
<1>6. ASSUME e < 0
      PROVE  Minus(clock, last_ticks) = W - k /\ W - k \in Nat /\ ~TooFast(W - k)
  <2>1. k \in Nat \ {0} /\ k <= MaxClock
    BY <1>1, <1>6
  <2>2. k * r \in Nat /\ k * r <= MaxClock * r /\ 1 * r <= k * r
    BY <1>1, <2>1, Products
  <2>3. k * r + 10 * Second < W /\ k < W
    BY <1>1, <1>2, <1>3, <1>4, <2>1, <2>2
  <2>4. e = -k
    BY <1>1
  <2> HIDE DEF e, k, r, W
  <2>5. (-k) % W = W - k
    <3>1. \A n \in 1 .. W - 1 : (-n) % W = W - n
      BY <1>1
    <3>2. k \in 1 .. W - 1
      BY <1>1, <2>1, <2>3
    <3> QED
      BY <3>1, <3>2
  <2>6. (W - k) * r = (r - 1) * W + (W - k * r)
    <3>1. (W - k) * r = W * r - k * r
      BY <1>1, <2>1
    <3>2. (r - 1) * W = r * W - W
      BY <1>1
    <3>3. W * r = r * W /\ r * W \in Nat
      BY <1>1
    <3> QED
      BY <1>1, <2>2, <3>1, <3>2, <3>3
  <2>7. ((W - k) * r) % W = W - k * r
    <3>1. r - 1 \in Nat /\ W - k * r \in 0 .. W - 1
      BY <1>1, <2>2, <2>3
    <3> DEFINE x == W - k * r
    <3>2. ((r - 1) * W + x) % W = x
      <4> HIDE DEF x
      <4> QED
        BY <1>1, <3>1, DivisionUnique DEF x
    <3> QED
      BY <2>6, <3>2
  <2>8. (W - k * r) \div 10 >= Second
    <3>1. \A n \in Nat, s \in Nat : n >= 10 * s => n \div 10 >= s
      OBVIOUS
    <3>2. W - k * r \in Nat /\ W - k * r >= 10 * Second
      BY <1>1, <2>2, <2>3
    <3> QED
      BY <1>1, <3>1, <3>2
  <2>9. ~TooFast(W - k)
    <3>1. TooFast(W - k) <=> (W - k * r) \div 10 < Second
      BY <2>7 DEF TooFast, r, W
    <3>2. (W - k * r) \div 10 \in Int
      BY <1>1, <2>2, <2>3
    <3> QED
      BY <1>1, <2>8, <3>1, <3>2
  <2>10. Minus(clock, last_ticks) = W - k
    BY <2>4, <2>5 DEF Minus, e, W
  <2> QED
    BY <1>1, <2>1, <2>3, <2>9, <2>10
<1> QED
  BY <1>1, <1>5, <1>6

LEMMA AdjustInv ==
    ASSUME PacingInv, adjust_to_framerate
    PROVE  /\ PacingInv'
           /\ stage' = "frame" => last_ticks' >= last_ticks + Period \/ last_ticks' < last_ticks
<1> DEFINE e == Minus(clock, last_ticks)
           d == Minus(Period, e)
<1>1. /\ Period \in Nat /\ Period <= 10 * Second /\ Period' = Period
      /\ clock \in Nat /\ last_ticks \in Nat
  BY PacingSizes, Shares DEF PacingInv, adjust_to_framerate, Period
<1>2. CASE TooFast(e)
  <2>1. clock >= last_ticks /\ e = clock - last_ticks /\ e \in Nat /\ e <= Period
    <3>1. clock >= last_ticks
      BY <1>1, <1>2, Elapsed
    <3>2. e = clock - last_ticks /\ e \in Nat
      BY <1>1, <3>1, Elapsed
    <3>3. e * framerate_times_ten < 10 * Second
      BY <1>2, <3>1, <3>2, Elapsed
    <3> HIDE DEF e
    <3> QED
      BY <3>1, <3>2, <3>3, Shares DEF PacingInv
  <2>2. Minus(Period, e) = Period - e
    <3>1. 10 * Second < Word
      <4>1. MaxClock * framerate_times_ten \in Nat
        BY PacingSizes, Shares DEF PacingInv
      <4>2. MaxClock * framerate_times_ten + 10 * Second < Word
        BY PacingAssumption DEF PacingInv
      <4> QED
        BY <4>1, <4>2, PacingSizes
    <3>2. \A n \in 0 .. Word - 1 : n % Word = n
      BY PacingSizes
    <3> HIDE DEF e
    <3>3. Period - e \in 0 .. Word - 1
      BY <1>1, <2>1, <3>1, PacingSizes
    <3> QED
      BY <3>2, <3>3 DEF Minus
  <2>3. /\ estimated_ticks' = last_ticks + Period /\ last_ticks' = last_ticks
        /\ stage' = IF d >= SleepFrom THEN "sleep" ELSE "spin"
        /\ asked' = IF d >= SleepFrom THEN (d - Spare) \div Tick ELSE asked
        /\ clock' = clock /\ framerate_times_ten' = framerate_times_ten
    BY <1>2 DEF adjust_to_framerate
  <2>4. asked' \in Nat /\ asked' * Tick <= Period
    <3>1. CASE d >= SleepFrom
      <4> DEFINE n == d - Spare
                 k == n \div Tick
      <4> HIDE DEF e
      <4>1. n \in Nat /\ n <= Period
        BY <1>1, <2>1, <2>2, <3>1, PacingSizes, PacingAssumption
      <4> HIDE DEF n, d
      <4>2. k \in Nat /\ n = k * Tick + (n % Tick) /\ n % Tick \in 0 .. Tick - 1
        BY <4>1, Division, PacingSizes
      <4>3. k * Tick \in Nat /\ n % Tick \in Nat
        BY <4>2, PacingSizes
      <4>4. asked' = k
        BY <2>3, <3>1 DEF n
      <4> HIDE DEF k
      <4> QED
        BY <1>1, <4>1, <4>2, <4>3, <4>4
    <3>2. CASE ~(d >= SleepFrom)
      BY <2>3, <3>2 DEF PacingInv, DelayFits
    <3> QED
      BY <3>1, <3>2
  <2> HIDE DEF e, d
  <2> QED
    BY <1>1, <2>3, <2>4 DEF PacingInv, DelayFits
<1>3. CASE ~TooFast(e)
  <2>1. /\ stage' = "frame" /\ last_ticks' = clock /\ clock' = clock
        /\ framerate_times_ten' = framerate_times_ten /\ asked' = asked
    BY <1>3 DEF adjust_to_framerate
  <2>2. clock >= last_ticks => clock >= last_ticks + Period
    <3> SUFFICES ASSUME clock >= last_ticks PROVE clock - last_ticks >= Period
      BY <1>1
    <3>1. clock - last_ticks \in Nat /\ e = clock - last_ticks
      BY <1>1, Elapsed
    <3>2. (clock - last_ticks) * framerate_times_ten \in Nat
      BY <3>1, Shares DEF PacingInv
    <3>3. (clock - last_ticks) * framerate_times_ten >= 10 * Second
      BY <1>3, <3>1, <3>2, Elapsed, PacingSizes
    <3> QED
      BY <3>1, <3>3, Shares DEF PacingInv
  <2>3. PacingInv'
    BY <1>1, <2>1 DEF PacingInv, DelayFits
  <2> QED
    BY <1>1, <2>1, <2>2, <2>3
<1> QED
  BY <1>2, <1>3

LEMMA PacingStep ==
    ASSUME PacingInv, [PacingNext]_pacingVars
    PROVE  /\ PacingInv'
           /\ stage' = "frame" /\ stage # "frame"
                => last_ticks' >= last_ticks + Period \/ last_ticks' < last_ticks
<1> USE PacingSizes
<1>1. Period \in Nat
  BY Shares DEF PacingInv
<1>2. framerate_times_ten' = framerate_times_ten => Period' = Period
  BY DEF Period
<1>3. CASE Emulate
  BY <1>2, <1>3 DEF Emulate, PacingInv, DelayFits
<1>4. CASE SetClock
  BY <1>2, <1>4 DEF SetClock, PacingInv, DelayFits
<1>5. CASE adjust_to_framerate
  BY <1>5, AdjustInv
<1>6. CASE Sleep
  <2>1. asked * Tick \in Nat
    BY DEF PacingInv
  <2> QED
    BY <1>2, <1>6, <2>1 DEF Sleep, PacingInv, DelayFits
<1>7. CASE Spin
  BY <1>1, <1>2, <1>7 DEF Spin, SpinEnds, PacingInv, DelayFits
<1>8. CASE UNCHANGED pacingVars
  BY <1>2, <1>8 DEF pacingVars, PacingInv, DelayFits
<1> QED
  BY <1>3, <1>4, <1>5, <1>6, <1>7, <1>8 DEF PacingNext

\* No frame ends early and no wait is longer than a frame, though the clock may be set.
THEOREM FramesTakeTheirTime == PacingSpec => PacingExact
<1>1. start_framerate => PacingInv
  BY PacingSizes, PacingAssumption, Shares DEF start_framerate, PacingInv, DelayFits
<1>2. PacingInv /\ [PacingNext]_pacingVars => PacingInv'
  BY PacingStep
<1>3. PacingInv => DelayFits
  BY DEF PacingInv
<1>4. PacingInv /\ [PacingNext]_pacingVars =>
        [stage' = "frame" /\ stage # "frame" =>
           last_ticks' >= last_ticks + Period \/ last_ticks' < last_ticks]_pacingVars
  BY PacingStep
<1> QED
  BY <1>1, <1>2, <1>3, <1>4, PTL DEF PacingSpec, PacingExact, NeverEarly

-----------------------------------------------------------------------------
(* The menu: paths                                                         *)

LEMMA FrontLast ==
    ASSUME NEW S, NEW s \in Seq(S), s # <<>>
    PROVE  /\ Front(s) \in Seq(S) /\ Len(Front(s)) = Len(s) - 1 /\ Last(s) = s[Len(s)]
           /\ \A i \in 1 .. Len(s) - 1 : Front(s)[i] = s[i]
<1>1. Len(s) \in Nat \ {0}
  BY EmptySeq
<1>2. \A i \in 1 .. Len(s) - 1 : s[i] \in S
  BY <1>1, ElementOfSeq
<1> DEFINE n == Len(s) - 1
<1>3. n \in Nat
  BY <1>1
<1> HIDE DEF n
<1>4. /\ SubSeq(s, 1, n) \in Seq(S)
      /\ Len(SubSeq(s, 1, n)) = IF 1 <= n THEN n - 1 + 1 ELSE 0
      /\ \A i \in 1 .. (n - 1 + 1) : SubSeq(s, 1, n)[i] = s[1 + i - 1]
  BY <1>2, <1>3, SubSeqProperties DEF n
<1>5. (IF 1 <= n THEN n - 1 + 1 ELSE 0) = n /\ n - 1 + 1 = n /\ \A i \in 1 .. n : 1 + i - 1 = i
  BY <1>3
<1>6. Len(SubSeq(s, 1, n)) = n /\ \A i \in 1 .. n : SubSeq(s, 1, n)[i] = s[i]
  BY <1>4, <1>5
<1>7. Front(s) = SubSeq(s, 1, n)
  BY DEF Front, n
<1> QED
  BY <1>4, <1>6, <1>7 DEF Last, n

LEMMA Dropped ==
    ASSUME NEW S, NEW s \in Seq(S), NEW e \in S
    PROVE  Front(Append(s, e)) = s /\ Last(Append(s, e)) = e
<1> DEFINE t == Append(s, e)
<1>1. /\ t \in Seq(S) /\ t # <<>> /\ Len(t) = Len(s) + 1 /\ Len(s) \in Nat
      /\ t[Len(s) + 1] = e /\ \A i \in 1 .. Len(s) : t[i] = s[i]
  BY AppendProperties, LenProperties
<1> HIDE DEF t
<1>2. /\ Front(t) \in Seq(S) /\ Len(Front(t)) = Len(s) /\ Last(t) = e
      /\ \A i \in 1 .. Len(s) : Front(t)[i] = t[i]
  <2>1. /\ Front(t) \in Seq(S) /\ Len(Front(t)) = Len(t) - 1 /\ Last(t) = t[Len(t)]
        /\ \A i \in 1 .. Len(t) - 1 : Front(t)[i] = t[i]
    BY <1>1, FrontLast, Zenon
  <2>2. Len(t) - 1 = Len(s)
    BY <1>1
  <2> QED
    BY <1>1, <2>1, <2>2
<1>3. Front(t) = s
  BY <1>1, <1>2, SeqEqual
<1> QED
  BY <1>2, <1>3 DEF t

LEMMA OneName == \A x \in Names : <<x>> \in Seq(Names) /\ Len(<<x>>) = 1 /\ <<x>>[1] = x
OBVIOUS

LEMMA NotRoot == <<".">> # <<Root>>
<1>1. "." # Root
  BY Zenon DEF Root
<1> QED
  BY <1>1

\* Paths the menu lists.  Where it reduces them itself the root alone is not one.
Valid(path) ==
    path \in Seq(Names) /\ path # <<>> /\ (platform # "touch" => path # <<Root>>)

\* Where a name leads to from a path.
TopLength(path) == IF platform = "touch" THEN 1 ELSE IF path[1] = Root THEN 2 ELSE 1
Leads(path, name) ==
    CASE name = "." -> path
      [] name = ".." -> IF Len(path) = TopLength(path) THEN path ELSE Front(path)
      [] OTHER -> Append(path, name)

LEMMA Walks ==
    ASSUME NEW path, Valid(path), NEW name \in Names
    PROVE  FullPath(Append(path, name)) = Leads(path, name) /\ Valid(Leads(path, name))
<1> DEFINE long == Append(path, name)
<1>1. /\ path \in Seq(Names) /\ path # <<>> /\ Len(path) \in Nat \ {0}
      /\ long \in Seq(Names) /\ long # <<>> /\ Len(long) = Len(path) + 1 /\ long[1] = path[1]
  <2>1. path \in Seq(Names) /\ path # <<>>
    BY DEF Valid
  <2>2. Len(path) \in Nat \ {0}
    BY <2>1, EmptySeq, Zenon
  <2>3. /\ long \in Seq(Names) /\ long # <<>> /\ Len(long) = Len(path) + 1
        /\ \A i \in 1 .. Len(path) : long[i] = path[i]
    BY <2>1, AppendProperties
  <2>4. 1 \in 1 .. Len(path)
    BY <2>2
  <2> QED
    BY <2>1, <2>2, <2>3, <2>4
<1>2. Front(long) = path /\ Last(long) = name
  BY <1>1, Dropped
<1>3. Front(path) \in Seq(Names) /\ Len(Front(path)) = Len(path) - 1
      /\ \A i \in 1 .. Len(path) - 1 : Front(path)[i] = path[i]
  BY <1>1, FrontLast
<1>4. Len(path) = 1 /\ path[1] = Root => path = <<Root>>
  <2> SUFFICES ASSUME Len(path) = 1, path[1] = Root PROVE path = <<Root>>
    OBVIOUS
  <2>1. Root \in Names
    BY <1>1, ElementOfSeq
  <2>2. <<Root>> \in Seq(Names) /\ Len(<<Root>>) = 1 /\ <<Root>>[1] = Root
    BY <2>1, OneName
  <2>3. \A i \in 1 .. Len(path) : path[i] = <<Root>>[i]
    BY <1>1
  <2> QED
    BY <1>1, <2>2, <2>3, SeqEqual
<1>5. Len(path) > 1 => Front(path) # <<>> /\ (Front(path) = <<Root>> => Len(path) = 2 /\ path[1] = Root)
  <2>1. Len(<<Root>>) = 1 /\ <<Root>>[1] = Root /\ Len(<<>>) = 0
    OBVIOUS
  <2>2. Len(path) > 1 => Len(Front(path)) # 0 /\ (Len(Front(path)) = 1 => Len(path) = 2)
                      /\ Front(path)[1] = path[1]
    BY <1>1, <1>3
  <2> QED
    BY <2>1, <2>2
<1> HIDE DEF long
<1>6. CASE platform = "touch"
  <2>1. FullPath(long) = RealPath(long)
    BY <1>6 DEF FullPath
  <2>2. long # <<".">>
    BY <1>1
  <2>3. CASE name = "."
    BY <1>1, <1>2, <1>6, <2>1, <2>2, <2>3 DEF RealPath, Leads, Valid, long
  <2>4. CASE name = ".."
    <3>1. RealPath(long) = IF Len(long) = 2 THEN Front(long) ELSE Front(Front(long))
      BY <1>2, <2>4 DEF RealPath
    <3>2. Leads(path, name) = IF Len(path) = 1 THEN path ELSE Front(path)
      BY <1>6, <2>4 DEF Leads, TopLength
    <3> QED
      BY <1>1, <1>2, <1>3, <1>5, <1>6, <2>1, <3>1, <3>2 DEF Valid, long
  <2>5. CASE name \notin {".", ".."}
    BY <1>1, <1>2, <1>6, <2>1, <2>5 DEF RealPath, Leads, Valid, long
  <2> QED
    BY <2>3, <2>4, <2>5
<1>7. CASE platform # "touch"
  <2>1. FullPath(long) = Reduced(long)
    BY <1>7 DEF FullPath
  <2>2. path # <<Root>>
    BY <1>7 DEF Valid
  <2>3. ~AtTop(long)
    <3>1. Len(long) # 1 /\ (Len(long) = 2 => Len(path) = 1)
      <4>1. Len(path) \in Nat \ {0} /\ Len(long) = Len(path) + 1
        BY <1>1, Zenon
      <4>2. \A n \in Nat \ {0} : n + 1 # 1 /\ (n + 1 = 2 => n = 1)
        OBVIOUS
      <4> QED
        BY <4>1, <4>2, Zenon
    <3> QED
      BY <1>1, <1>4, <2>2, <3>1, Zenon DEF AtTop
  <2>4. AtTop(path) <=> Len(path) = TopLength(path)
    <3>1. 1 # 2
      OBVIOUS
    <3> QED
      BY <1>4, <1>7, <2>2, <3>1, Zenon DEF AtTop, TopLength
  <2>5. CASE name = "."
    <3>1. Reduced(long) = path
      BY <1>2, <2>3, <2>5 DEF Reduced
    <3> QED
      BY <1>1, <2>1, <2>2, <2>5, <3>1 DEF Leads, Valid, long
  <2>6. CASE name = ".."
    <3>1. Reduced(long) = IF AtTop(path) THEN path ELSE Front(path)
      BY <1>2, <2>3, <2>6 DEF Reduced
    <3>2. Leads(path, name) = IF AtTop(path) THEN path ELSE Front(path)
      BY <2>4, <2>6 DEF Leads
    <3>3. ~AtTop(path) => Len(path) > 1 /\ ~(Len(path) = 2 /\ path[1] = Root)
      <4>1. Len(path) \in Nat \ {0}
        BY <1>1, Zenon
      <4>2. Len(path) # 1 => Len(path) > 1
        <5>1. \A n \in Nat \ {0} : n # 1 => n > 1
          OBVIOUS
        <5> QED
          BY <4>1, <5>1, Zenon
      <4> QED
        BY <4>2, Zenon DEF AtTop
    <3> QED
      BY <1>1, <1>3, <1>5, <2>1, <2>2, <3>1, <3>2, <3>3 DEF Valid, long
  <2>7. CASE name \notin {".", ".."}
    <3>1. Reduced(long) = long
      BY <1>2, <2>7 DEF Reduced
    <3>2. long # <<Root>>
      BY <1>1
    <3> QED
      BY <1>1, <2>1, <2>7, <3>1, <3>2 DEF Leads, Valid, long
  <2> QED
    BY <2>5, <2>6, <2>7
<1> QED
  BY <1>6, <1>7 DEF long

\* The directories tried at the start.
LEMMA HomesValid ==
    ASSUME platform \in Platforms, NEW i \in DOMAIN Homes[platform]
    PROVE  Valid(FullPath(Homes[platform][i]))
<1> DEFINE home == Homes[platform][i]
<1>1. /\ Homes[platform] \in Seq(Seq(Names)) /\ Homes[platform] # <<>>
      /\ \A j \in DOMAIN Homes[platform] :
            \/ Homes[platform][j] = <<".">>
            \/ Homes[platform][j] \notin {<<>>, <<Root>>} /\ Last(Homes[platform][j]) \notin {".", ".."}
  BY MenuAssumption, Zenon
<1>2. \A j \in DOMAIN Homes[platform] : Homes[platform][j] \in Seq(Names) /\ Homes[platform][j] # <<>>
  <2> TAKE j \in DOMAIN Homes[platform]
  <2>1. Homes[platform][j] \in Seq(Names)
    <3>1. Homes[platform] \in [1 .. Len(Homes[platform]) -> Seq(Names)]
          /\ DOMAIN Homes[platform] = 1 .. Len(Homes[platform])
      BY <1>1, LenProperties, Zenon
    <3> QED
      BY <3>1, Zenon
  <2>2. <<".">> # <<>>
    OBVIOUS
  <2> QED
    BY <1>1, <2>1, <2>2
<1>3. 1 \in DOMAIN Homes[platform]
  <2>1. Len(Homes[platform]) \in Nat \ {0}
    BY <1>1, EmptySeq, Zenon
  <2>2. DOMAIN Homes[platform] = 1 .. Len(Homes[platform])
    BY <1>1, LenProperties, Zenon
  <2> QED
    BY <2>1, <2>2
<1>4. CASE platform = "touch"
  <2>1. FullPath(home) = RealPath(home)
    BY <1>4 DEF FullPath
  <2>2. CASE home = <<".">>
    <3>1. Last(home) = "."
      BY <2>2 DEF Last
    <3>2. RealPath(home) = Homes[platform][1]
      BY <1>4, <2>2, <3>1 DEF RealPath
    <3> QED
      BY <1>2, <1>3, <1>4, <2>1, <3>2 DEF Valid
  <2>3. CASE home # <<".">>
    <3>1. RealPath(home) = home
      BY <1>1, <2>3 DEF RealPath
    <3> QED
      BY <1>2, <1>4, <2>1, <3>1 DEF Valid
  <2> QED
    BY <2>2, <2>3
<1>5. CASE platform # "touch"
  <2>1. FullPath(home) = Reduced(home)
    BY <1>5 DEF FullPath
  <2>2. Reduced(home) = home /\ home # <<Root>>
    <3>1. CASE home = <<".">>
      BY <3>1, NotRoot DEF Reduced, AtTop
    <3>2. CASE home # <<".">>
      BY <1>1, <3>2 DEF Reduced
    <3> QED
      BY <3>1, <3>2
  <2> QED
    BY <1>2, <2>1, <2>2 DEF Valid
<1> QED
  BY <1>4, <1>5

-----------------------------------------------------------------------------
(* The menu: directories, drawing and navigation                           *)

\* What get_dir returns.
Dirs == [path : Seq(Names), entries : Seq(Entries), slots : Nat]
Listing(dir) ==
    /\ dir \in Dirs
    /\ Valid(dir.path) /\ Len(dir.entries) \in 1 .. dir.slots

Arts == [x : Int, y : Int, w : Int, h : Int]
Drawings == [rows : SUBSET Int, first : Int, highlight : Int, art : Arts]
ListStates == [dir : Dirs, fname_textures : Nat, current_highlighted : Nat, scroll_offset : Nat,
          selected_rom_path : Seq(Names), drawn : Drawings, dirs : Int, lists : Int]

RowFits(line) ==
    text_y_start + text_y_spacing * line + TextHeight < screen_height - banner_height

\* The highlighted entry exists and its row is drawn below the banner.
Placed(s) ==
    /\ Listing(s.dir) /\ s.fname_textures = Len(s.dir.entries)
    /\ s.current_highlighted < s.fname_textures /\ s.scroll_offset <= s.current_highlighted
    /\ RowFits(s.current_highlighted - s.scroll_offset)

ArtFits(art) ==
    /\ art.x + art.w <= screen_width - screen_width \div 20
    /\ art.y >= banner_height /\ art.y + art.h <= screen_height - banner_height

\* The screen shows it.
Shown(s) ==
    /\ s.drawn.rows = redraw_filenames(s)
    /\ s.drawn.highlight # -1 =>
         /\ s.drawn.highlight = s.current_highlighted - s.scroll_offset
         /\ s.drawn.first = s.scroll_offset /\ ArtFits(s.drawn.art)

Menus == {s \in ListStates : Placed(s) /\ Shown(s) /\ s.dirs = 1 /\ s.lists = 1}

\* What every button keeps the buttons at a place keep.
LEMMA Pressed ==
    ASSUME NEW M, NEW S \in SUBSET M, NEW point,
           \A T, button : T \subseteq M => PressButton(T, button) \subseteq M
    PROVE  Press(S, point) \subseteq M
<1> DEFINE Next1(i, T) == IF ButtonOrder[i] \in Hits(point) THEN PressButton(T, ButtonOrder[i])
                          ELSE T
           Is(f) == f = [i \in 0 .. 8 |-> IF i = 0 THEN S ELSE Next1(i, f[i - 1])]
           v1 == Next1(1, S)
           v2 == Next1(2, v1)
           v3 == Next1(3, v2)
           v4 == Next1(4, v3)
           v5 == Next1(5, v4)
           v6 == Next1(6, v5)
           v7 == Next1(7, v6)
           v8 == Next1(8, v7)
           g == [i \in 0 .. 8 |-> IF i = 0 THEN S ELSE IF i = 1 THEN v1 ELSE IF i = 2 THEN v2
                  ELSE IF i = 3 THEN v3 ELSE IF i = 4 THEN v4 ELSE IF i = 5 THEN v5
                  ELSE IF i = 6 THEN v6 ELSE IF i = 7 THEN v7 ELSE v8]
           a == CHOOSE f : Is(f)
<1>1. \A i, T : T \subseteq M => Next1(i, T) \subseteq M
  BY Zenon
<1>2. Press(S, point) = a[8]
  BY Zenon DEF Press
<1> HIDE DEF Next1
<1>3. Is(g)
  OBVIOUS
<1> HIDE DEF g
<1>4. Is(a)
  BY <1>3, Zenon
<1> HIDE DEF a
<1>5. /\ a[0] = S /\ a[1] = Next1(1, a[0]) /\ a[2] = Next1(2, a[1]) /\ a[3] = Next1(3, a[2])
      /\ a[4] = Next1(4, a[3]) /\ a[5] = Next1(5, a[4]) /\ a[6] = Next1(6, a[5])
      /\ a[7] = Next1(7, a[6]) /\ a[8] = Next1(8, a[7])
  BY <1>4
<1> HIDE DEF Is
<1>6. a[1] \subseteq M /\ a[2] \subseteq M
  BY <1>1, <1>5, Zenon
<1>7. a[3] \subseteq M /\ a[4] \subseteq M
  BY <1>1, <1>5, <1>6, ZenonT(40)
<1>8. a[5] \subseteq M /\ a[6] \subseteq M
  BY <1>1, <1>5, <1>7, Zenon
<1>9. a[7] \subseteq M /\ a[8] \subseteq M
  BY <1>1, <1>5, <1>8, ZenonT(40)
<1> QED
  BY <1>2, <1>9, Zenon

LEMMA Geometry ==
    ASSUME platform \in Platforms
    PROVE  /\ screen_width \in Nat \ {0} /\ screen_height \in Nat \ {0} /\ TextHeight \in Nat
           /\ banner_height \in Nat /\ 10 * banner_height <= screen_height
           /\ RowFits(0)
           /\ \A line \in Nat :
                /\ RowFits(line + 1) => RowFits(line)
                /\ text_y_start + line * (text_y_spacing + 1) <= screen_height - banner_height
                     => RowFits(line)
<1> DEFINE h == screen_height
           bottom == h - h \div 10
           last == (bottom - 100) \div 21
<1>1. /\ Screens[platform] \in (Nat \ {0}) \X (Nat \ {0})
      /\ bottom >= 100 /\ 100 + 20 * last + TextHeight < bottom /\ TextHeight \in Nat
  <2> DEFINE end == (bottom - text_y_start) \div (text_y_spacing + 1)
  <2>1. /\ Screens[platform] \in (Nat \ {0}) \X (Nat \ {0}) /\ TextHeight \in Nat
        /\ bottom >= text_y_start
        /\ text_y_start + text_y_spacing * end + TextHeight < bottom
    BY MenuAssumption, Zenon DEF screen_height
  <2> HIDE DEF bottom
  <2>2. /\ bottom >= 100 /\ 100 + 20 * end + TextHeight < bottom
        /\ end = (bottom - 100) \div (20 + 1)
    BY <2>1, Zenon DEF text_y_start, text_y_spacing
  <2>3. 20 + 1 = 21
    OBVIOUS
  <2> QED
    BY <2>1, <2>2, <2>3, Zenon
<1>2. screen_width \in Nat \ {0} /\ h \in Nat \ {0}
  BY <1>1 DEF screen_width, screen_height
<1>3. h \div 10 \in Nat /\ 10 * (h \div 10) <= h
  BY <1>2
<1>4. bottom \in Nat
  BY <1>2, <1>3
<1>5. \A line \in Nat : 100 + line * 21 <= bottom => line <= last
  BY <1>1, <1>4
<1>6. last \in Nat
  BY <1>1, <1>4
<1>7. banner_height = h \div 10 /\ screen_height = h
  BY DEF banner_height
<1> HIDE DEF h
<1>8. \A line : RowFits(line) <=> 100 + 20 * line + TextHeight < bottom
  BY <1>7 DEF RowFits, text_y_start, text_y_spacing
<1>9. 20 + 1 = 21
  OBVIOUS
<1>10. \A line \in Nat : text_y_start + line * (text_y_spacing + 1) <= screen_height - banner_height
                         => 100 + line * 21 <= bottom
  BY <1>7 DEF text_y_start, text_y_spacing
<1> HIDE DEF bottom, last
<1>11. \A line \in Nat : /\ RowFits(line + 1) => RowFits(line)
                         /\ line <= last => RowFits(line)
  BY <1>1, <1>4, <1>6, <1>8
<1>12. RowFits(0)
  BY <1>6, <1>11
<1> QED
  BY <1>1, <1>2, <1>3, <1>5, <1>7, <1>10, <1>11, <1>12

\* The picture is scaled into its place.
LEMMA ArtPlaced ==
    ASSUME platform \in Platforms, NEW image \in Nat \X Nat
    PROVE  draw_box_art(image) \in Arts /\ ArtFits(draw_box_art(image))
<1> DEFINE W == screen_width
           H == screen_height
           b == banner_height
           x == (W * 5) \div 8
           max == W - x - W \div 20
           width == IF image = <<0, 0>> THEN W ELSE image[1]
           height == IF image = <<0, 0>> THEN H ELSE image[2]
           scaled == IF width > max THEN height * (width \div max) ELSE height
           top == H - 3 * b
           sh == IF scaled > top THEN top ELSE scaled
           w == IF width > max THEN max ELSE width
<1>1. W \in Nat \ {0} /\ H \in Nat \ {0} /\ b \in Nat /\ 10 * b <= H
  BY Geometry
<1>2. draw_box_art(image) = [x |-> x, y |-> (H - sh) \div 2, w |-> w, h |-> sh]
  BY DEF draw_box_art, max_art_height
<1> HIDE DEF W, H, b
<1>3. x \in Nat /\ W \div 20 \in Nat /\ max \in Nat \ {0} /\ x + max = W - W \div 20
  BY <1>1
<1>4. width \in Nat /\ height \in Nat
  BY <1>1
<1> HIDE DEF x, max, width, height
<1>5. scaled \in Int
  <2>1. width \div max \in Nat
    BY <1>3, <1>4
  <2>2. height * (width \div max) \in Nat
    BY <1>4, <2>1
  <2> QED
    BY <1>4, <2>2
<1>6. top \in Nat /\ sh \in Int /\ sh <= top /\ w \in Int /\ w <= max
  BY <1>1, <1>3, <1>4, <1>5
<1> HIDE DEF scaled, sh, w
<1>7. (H - sh) \div 2 \in Int /\ (H - sh) \div 2 >= b /\ (H - sh) \div 2 + sh <= H - b
  BY <1>1, <1>6
<1>8. x + w <= W - W \div 20
  BY <1>1, <1>3, <1>6
<1> HIDE DEF top
<1> DEFINE y == (H - sh) \div 2
<1>9. y \in Int /\ y >= b /\ y + sh <= H - b
  BY <1>7
<1> HIDE DEF y
<1>10. draw_box_art(image) = [x |-> x, y |-> y, w |-> w, h |-> sh]
  BY <1>2 DEF y
<1> QED
  BY <1>3, <1>6, <1>8, <1>9, <1>10 DEF Arts, ArtFits, W, H, b

\* A menu that is placed is shown by drawing it.
LEMMA Redrawn ==
    ASSUME platform \in Platforms, NEW s \in ListStates, Placed(s), s.dirs \in Int
    PROVE  /\ redraw_screen(s) \in ListStates /\ Placed(redraw_screen(s)) /\ Shown(redraw_screen(s))
           /\ redraw_screen(s).dirs = s.dirs /\ redraw_screen(s).lists = s.lists
<1> DEFINE image == s.dir.entries[s.current_highlighted + 1].image
           d == [rows |-> redraw_filenames(s), first |-> s.scroll_offset,
                 highlight |-> s.current_highlighted - s.scroll_offset,
                 art |-> draw_box_art(image)]
           t == [s EXCEPT !.drawn = d]
<1>1. redraw_screen(s) = t
  BY DEF redraw_screen
<1>2. image \in Nat \X Nat
  <2>1. /\ s.dir.entries \in Seq(Entries) /\ s.current_highlighted + 1 \in 1 .. Len(s.dir.entries)
    BY DEF ListStates, Dirs, Placed
  <2>2. s.dir.entries[s.current_highlighted + 1] \in Entries
    BY <2>1, ElementOfSeq
  <2> QED
    BY <2>2 DEF Entries
<1>3. draw_box_art(image) \in Arts /\ ArtFits(draw_box_art(image))
  BY <1>2, ArtPlaced
<1>4. d \in Drawings
  <2>1. redraw_filenames(s) \in SUBSET Int
    BY DEF redraw_filenames, ListStates
  <2> QED
    BY <1>3, <2>1 DEF Drawings, ListStates
<1> HIDE DEF image
<1>5. /\ d.rows = redraw_filenames(s) /\ d.first = s.scroll_offset
      /\ d.highlight = s.current_highlighted - s.scroll_offset /\ ArtFits(d.art)
  BY <1>3
<1> HIDE DEF d
<1>6. /\ t \in ListStates /\ t.dir = s.dir /\ t.fname_textures = s.fname_textures
      /\ t.current_highlighted = s.current_highlighted /\ t.scroll_offset = s.scroll_offset
      /\ t.drawn = d /\ t.dirs = s.dirs /\ t.lists = s.lists
  BY <1>4 DEF ListStates
<1> HIDE DEF t
<1>7. redraw_filenames(t) = redraw_filenames(s)
  BY <1>6 DEF redraw_filenames
<1> QED
  BY <1>1, <1>5, <1>6, <1>7 DEF Placed, Shown

LEMMA NavUpKeeps ==
    ASSUME platform \in Platforms, NEW s \in Menus
    PROVE  NavUp(s) \in Menus
<1>1. s \in ListStates /\ Placed(s) /\ s.dirs = 1 /\ s.lists = 1
  BY DEF Menus
<1>2. CASE s.current_highlighted = 0
  BY <1>2 DEF NavUp
<1>3. CASE s.current_highlighted # 0
  <2> DEFINE h == s.current_highlighted - 1
             o == IF h < s.scroll_offset THEN s.scroll_offset - 1 ELSE s.scroll_offset
             t == [s EXCEPT !.current_highlighted = h, !.scroll_offset = o]
  <2>1. NavUp(s) = redraw_screen(t)
    BY <1>3 DEF NavUp
  <2>2. /\ s.current_highlighted \in Nat /\ s.scroll_offset \in Nat
        /\ s.scroll_offset <= s.current_highlighted
        /\ s.current_highlighted < s.fname_textures /\ s.fname_textures \in Nat
        /\ RowFits(s.current_highlighted - s.scroll_offset)
    BY <1>1 DEF ListStates, Placed
  <2>3. /\ h \in Nat /\ o \in Nat /\ o <= h /\ h < s.fname_textures
        /\ \/ h - o = s.current_highlighted - s.scroll_offset
           \/ h - o \in Nat /\ h - o + 1 = s.current_highlighted - s.scroll_offset
           \/ h - o = 0
    BY <1>3, <2>2
  <2> HIDE DEF h, o
  <2>4. RowFits(h - o)
    BY <2>2, <2>3, Geometry
  <2>5. /\ t \in ListStates /\ t.dir = s.dir /\ t.fname_textures = s.fname_textures
        /\ t.current_highlighted = h /\ t.scroll_offset = o /\ t.dirs = s.dirs /\ t.lists = s.lists
    BY <1>1, <2>3 DEF ListStates
  <2> HIDE DEF t
  <2>6. Placed(t) /\ t.dirs \in Int
    BY <1>1, <2>3, <2>4, <2>5 DEF Placed
  <2> QED
    BY <1>1, <2>1, <2>5, <2>6, Redrawn DEF Menus
<1> QED
  BY <1>2, <1>3

LEMMA NavDownKeeps ==
    ASSUME platform \in Platforms, NEW s \in Menus
    PROVE  NavDown(s) \in Menus
<1>1. s \in ListStates /\ Placed(s) /\ s.dirs = 1 /\ s.lists = 1
  BY DEF Menus
<1>2. CASE s.current_highlighted + 1 >= Len(s.dir.entries)
  BY <1>2 DEF NavDown
<1>3. CASE ~(s.current_highlighted + 1 >= Len(s.dir.entries))
  <2> DEFINE h == s.current_highlighted + 1
             line == s.current_highlighted + 1 - s.scroll_offset
             below == text_y_start + line * (text_y_spacing + 1) > screen_height - banner_height
             o == IF below THEN s.scroll_offset + 1 ELSE s.scroll_offset
             t == [s EXCEPT !.current_highlighted = h, !.scroll_offset = o]
  <2>1. NavDown(s) = redraw_screen(t)
    BY <1>3, Zenon DEF NavDown
  <2>2. /\ s.current_highlighted \in Nat /\ s.scroll_offset \in Nat
        /\ s.scroll_offset <= s.current_highlighted
        /\ s.fname_textures \in Nat /\ s.fname_textures = Len(s.dir.entries)
        /\ RowFits(s.current_highlighted - s.scroll_offset)
    BY <1>1 DEF ListStates, Placed
  <2>3. /\ h \in Nat /\ line \in Nat /\ h < s.fname_textures
        /\ o \in Nat /\ o <= h
        /\ below => h - o = s.current_highlighted - s.scroll_offset
        /\ ~below => h - o = line
    <3> HIDE DEF below
    <3> QED
      BY <1>3, <2>2, SMTT(40)
  <2>4. ~below => RowFits(line)
    <3>1. /\ text_y_start + line * (text_y_spacing + 1) \in Int
          /\ screen_height - banner_height \in Int
      BY <2>3, Geometry DEF text_y_start, text_y_spacing
    <3>2. ~below => text_y_start + line * (text_y_spacing + 1) <= screen_height - banner_height
      BY <3>1
    <3> QED
      BY <2>3, <3>2, Geometry
  <2> HIDE DEF h, line, o, below
  <2>5. RowFits(h - o)
    BY <2>2, <2>3, <2>4
  <2>6. /\ t \in ListStates /\ t.dir = s.dir /\ t.fname_textures = s.fname_textures
        /\ t.current_highlighted = h /\ t.scroll_offset = o /\ t.dirs = s.dirs /\ t.lists = s.lists
    BY <1>1, <2>3 DEF ListStates
  <2> HIDE DEF t
  <2>7. Placed(t) /\ t.dirs \in Int
    BY <1>1, <2>2, <2>3, <2>5, <2>6 DEF Placed
  <2> QED
    BY <1>1, <2>1, <2>6, <2>7, Redrawn DEF Menus
<1> QED
  BY <1>2, <1>3

\* A directory that opens has an entry, and no more than were counted.
LEMMA DirListed ==
    ASSUME NEW raw, Valid(FullPath(raw)), NEW dir \in get_dir(raw) \ {NoDir}
    PROVE  Listing(dir)
<1> DEFINE path == FullPath(raw)
           all == Len(FoundIn(path))
<1>1. path \in DOMAIN Tree
  BY DEF get_dir
<1>2. PICK counted \in Passes(path), found \in Passes(path) : dir = ReadEntries(path, counted, found)
  BY <1>1 DEF get_dir
<1> DEFINE slots == counted + Len(Prepended)
           read == SubSeq(FoundIn(path), 1, found)
           entries == Prepended \o read
           n == IF Len(entries) < slots THEN Len(entries) ELSE slots
<1>3. /\ path \in Seq(Names) /\ Valid(path) /\ Tree[path] \in Seq(Entries)
      /\ path \in Busy => Len(Tree[path]) # 0
  <2>1. Tree[path] \in Seq(Entries) /\ (path \in Busy => Tree[path] # <<>>)
    BY <1>1, MenuAssumption, Zenon
  <2> QED
    BY <2>1, EmptySeq DEF Valid
<1> HIDE DEF path
<1>4. Dots \in Seq(Entries) /\ Len(Dots) = 2
  <2> DEFINE dot(name) == [name |-> name, is_dir |-> TRUE, image |-> <<0, 0>>]
  <2>1. \A name \in Names : dot(name) \in Entries
    BY DEF Entries
  <2>2. "." \in Names /\ ".." \in Names
    BY MenuAssumption, Zenon
  <2>3. dot(".") \in Entries /\ dot("..") \in Entries
    BY <2>1, <2>2, Zenon
  <2>4. Dots = <<dot("."), dot("..")>>
    BY DEF Dots
  <2> HIDE DEF dot
  <2> QED
    BY <2>3, <2>4
<1>5. /\ FoundIn(path) \in Seq(Entries) /\ Prepended \in Seq(Entries)
      /\ all \in Nat /\ Len(Prepended) \in Nat
      /\ path \in Busy => all # 0
      /\ \/ all >= 2 /\ (path \in Busy => all >= 3) /\ Len(Prepended) = 0
         \/ Len(Prepended) = 2
  <2>1. Len(Tree[path]) \in Nat
    BY <1>3
  <2>2. Dots \o Tree[path] \in Seq(Entries) /\ Len(Dots \o Tree[path]) = 2 + Len(Tree[path])
    <3>1. /\ Dots \o Tree[path] \in Seq(Entries)
          /\ Len(Dots \o Tree[path]) = Len(Dots) + Len(Tree[path])
      BY <1>3, <1>4, ConcatProperties, Zenon
    <3> QED
      BY <1>4, <3>1, Zenon
  <2>3. CASE platform = "touch"
    <3>1. FoundIn(path) = Dots \o Tree[path] /\ Prepended = <<>>
      BY <2>3 DEF FoundIn, Prepended
    <3> QED
      BY <1>3, <2>1, <2>2, <3>1
  <2>4. CASE platform # "touch"
    <3>1. FoundIn(path) = Tree[path] /\ Prepended = Dots
      BY <2>4 DEF FoundIn, Prepended
    <3> QED
      BY <1>3, <1>4, <2>1, <3>1
  <2> QED
    BY <2>3, <2>4
<1>6. /\ counted \in Nat /\ found \in 0 .. all
      /\ Len(Prepended) = 0 => counted >= 1 /\ found >= 1
  <2>1. /\ counted = all \/ (path \in Busy /\ counted = all - 1)
        /\ found = all \/ (path \in Busy /\ found = all - 1)
    BY <1>2 DEF Passes, path
  <2> HIDE DEF all
  <2>2. all \in Nat /\ (path \in Busy => all - 1 \in 0 .. all) /\ all \in 0 .. all
    BY <1>5
  <2>3. counted \in 0 .. all /\ found \in 0 .. all
    BY <2>1, <2>2, Zenon
  <2>4. Len(Prepended) = 0 => all >= 1 /\ (path \in Busy => all - 1 >= 1)
    BY <1>5
  <2>5. Len(Prepended) = 0 => counted >= 1 /\ found >= 1
    BY <2>1, <2>4, Zenon
  <2> QED
    BY <2>2, <2>3, <2>5
<1>7. read \in Seq(Entries) /\ Len(read) = found
  <2>1. \A i \in 1 .. found : FoundIn(path)[i] \in Entries
    BY <1>5, <1>6, ElementOfSeq
  <2>2. /\ read \in Seq(Entries)
        /\ Len(read) = IF 1 <= found THEN found - 1 + 1 ELSE 0
    BY <1>6, <2>1, SubSeqProperties
  <2> QED
    BY <1>6, <2>2
<1> HIDE DEF read
<1>8. entries \in Seq(Entries) /\ Len(entries) = Len(Prepended) + found
  BY <1>5, <1>7, ConcatProperties
<1> HIDE DEF entries
<1>9. slots \in Nat /\ n \in 1 .. slots /\ n <= Len(entries)
  BY <1>5, <1>6, <1>8
<1>10. SubSeq(entries, 1, n) \in Seq(Entries) /\ Len(SubSeq(entries, 1, n)) = n
  <2> HIDE DEF n, slots
  <2>1. \A i \in 1 .. n : entries[i] \in Entries
    BY <1>8, <1>9, ElementOfSeq
  <2>2. /\ SubSeq(entries, 1, n) \in Seq(Entries)
        /\ Len(SubSeq(entries, 1, n)) = IF 1 <= n THEN n - 1 + 1 ELSE 0
    BY <1>9, <2>1, SubSeqProperties
  <2> QED
    BY <1>9, <2>2
<1>11. dir = [path |-> path, slots |-> slots, entries |-> SubSeq(entries, 1, n)]
  BY <1>2 DEF ReadEntries, path, entries, read
<1> HIDE DEF slots, n
<1> QED
  BY <1>3, <1>9, <1>10, <1>11 DEF Listing, Dirs

\* Two menus that differ in what they hold only.
Alike(t, s) ==
    /\ t.dir = s.dir /\ t.fname_textures = s.fname_textures
    /\ t.current_highlighted = s.current_highlighted /\ t.scroll_offset = s.scroll_offset
    /\ t.drawn = s.drawn

LEMMA AlikeShown ==
    ASSUME NEW s, NEW t, Alike(t, s), Placed(s), Shown(s)
    PROVE  Placed(t) /\ Shown(t)
<1>1. redraw_filenames(t) = redraw_filenames(s)
  BY DEF redraw_filenames, Alike
<1> QED
  BY <1>1 DEF Alike, Placed, Shown

LEMMA Counted ==
    ASSUME NEW s \in ListStates
    PROVE  /\ AllocDir(s) \in ListStates /\ Alike(AllocDir(s), s)
           /\ AllocDir(s).dirs = s.dirs + 1 /\ AllocDir(s).lists = s.lists
           /\ AllocTextures(s) \in ListStates /\ Alike(AllocTextures(s), s)
           /\ AllocTextures(s).dirs = s.dirs /\ AllocTextures(s).lists = s.lists + 1
           /\ free_dir(s) \in ListStates /\ Alike(free_dir(s), s)
           /\ free_dir(s).dirs = s.dirs - 1 /\ free_dir(s).lists = s.lists
           /\ free_dir_fname_textures(s) \in ListStates /\ Alike(free_dir_fname_textures(s), s)
           /\ free_dir_fname_textures(s).dirs = s.dirs
           /\ free_dir_fname_textures(s).lists = s.lists - 1
<1>1. /\ AllocDir(s) \in ListStates /\ Alike(AllocDir(s), s)
      /\ AllocDir(s).dirs = s.dirs + 1 /\ AllocDir(s).lists = s.lists
  BY DEF ListStates, Alike, AllocDir
<1>2. /\ AllocTextures(s) \in ListStates /\ Alike(AllocTextures(s), s)
      /\ AllocTextures(s).dirs = s.dirs /\ AllocTextures(s).lists = s.lists + 1
  BY DEF ListStates, Alike, AllocTextures
<1>3. /\ free_dir(s) \in ListStates /\ Alike(free_dir(s), s)
      /\ free_dir(s).dirs = s.dirs - 1 /\ free_dir(s).lists = s.lists
  BY DEF ListStates, Alike, free_dir
<1>4. /\ free_dir_fname_textures(s) \in ListStates /\ Alike(free_dir_fname_textures(s), s)
      /\ free_dir_fname_textures(s).dirs = s.dirs
      /\ free_dir_fname_textures(s).lists = s.lists - 1
  BY DEF ListStates, Alike, free_dir_fname_textures
<1> QED
  BY <1>1, <1>2, <1>3, <1>4

\* A directory that is entered is placed.
LEMMA EnteredPlaced ==
    ASSUME platform \in Platforms, NEW s \in ListStates, NEW dir, Listing(dir)
    PROVE  /\ Entered(s, dir) \in ListStates /\ Placed(Entered(s, dir))
           /\ Entered(s, dir).dirs = s.dirs /\ Entered(s, dir).lists = s.lists
           /\ Entered(s, dir).drawn = s.drawn
<1> DEFINE t == Entered(s, dir)
<1>1. dir \in Dirs /\ Len(dir.entries) \in Nat \ {0}
  BY DEF Listing, Dirs
<1>2. /\ t \in ListStates /\ t.dir = dir /\ t.fname_textures = Len(dir.entries)
      /\ t.current_highlighted = 0 /\ t.scroll_offset = 0 /\ t.dirs = s.dirs /\ t.lists = s.lists
      /\ t.drawn = s.drawn
  BY <1>1 DEF Entered, ListStates
<1> HIDE DEF t
<1>3. Placed(t)
  <2>1. 0 - 0 = 0 /\ 0 <= 0 /\ Len(dir.entries) > 0
    BY <1>1
  <2> QED
    BY <1>2, <2>1, Geometry DEF Placed
<1> QED
  BY <1>2, <1>3 DEF t

LEMMA SelectKeeps ==
    ASSUME platform \in Platforms, NEW s \in Menus
    PROVE  NavSelect(s) \subseteq Menus
<1> DEFINE entry == s.dir.entries[s.current_highlighted + 1]
           long == Append(s.dir.path, entry.name)
<1>1. /\ s \in ListStates /\ Placed(s) /\ Shown(s) /\ s.dirs = 1 /\ s.lists = 1
      /\ Listing(s.dir)
  BY DEF Menus, Placed
<1>2. /\ Valid(s.dir.path) /\ s.dir.path \in Seq(Names)
      /\ entry \in Entries /\ entry.name \in Names
  <2>1. /\ s.dir.path \in Seq(Names) /\ s.dir.entries \in Seq(Entries) /\ Valid(s.dir.path)
        /\ s.current_highlighted + 1 \in 1 .. Len(s.dir.entries)
    BY <1>1 DEF ListStates, Dirs, Placed, Listing
  <2>2. entry \in Entries
    BY <2>1, ElementOfSeq
  <2> QED
    BY <2>1, <2>2 DEF Entries
<1> HIDE DEF entry
<1>3. CASE entry.is_dir
  <2>1. NavSelect(s) = SelectDir(s, long)
    BY <1>3 DEF NavSelect, entry
  <2>2. Valid(FullPath(long))
    BY <1>2, Walks
  <2>3. ASSUME NEW dir \in get_dir(long) \ {NoDir}
        PROVE  free_dir(free_dir_fname_textures(
                 redraw_screen(Entered(AllocTextures(AllocDir(s)), dir)))) \in Menus
    <3> DEFINE a == AllocTextures(AllocDir(s))
               e == Entered(a, dir)
               r == redraw_screen(e)
               f == free_dir(free_dir_fname_textures(r))
    <3>1. Listing(dir)
      BY <2>2, DirListed
    <3>2. a \in ListStates /\ a.dirs = 2 /\ a.lists = 2
      <4>1. AllocDir(s) \in ListStates /\ AllocDir(s).dirs = 2 /\ AllocDir(s).lists = 1
        BY <1>1, Counted
      <4> QED
        BY <4>1, Counted
    <3> HIDE DEF a
    <3>3. e \in ListStates /\ Placed(e) /\ e.dirs = 2 /\ e.lists = 2 /\ e.dirs \in Int
      BY <3>1, <3>2, EnteredPlaced
    <3> HIDE DEF e
    <3>4. r \in ListStates /\ Placed(r) /\ Shown(r) /\ r.dirs = 2 /\ r.lists = 2
      BY <3>3, Redrawn
    <3> HIDE DEF r
    <3>5. /\ f \in ListStates /\ f.dirs = 1 /\ f.lists = 1 /\ Placed(f) /\ Shown(f)
      <4> DEFINE g == free_dir_fname_textures(r)
      <4>1. g \in ListStates /\ Alike(g, r) /\ g.dirs = 2 /\ g.lists = 1
        BY <3>4, Counted
      <4>2. Placed(g) /\ Shown(g)
        BY <3>4, <4>1, AlikeShown
      <4> HIDE DEF g
      <4>3. free_dir(g) \in ListStates /\ Alike(free_dir(g), g) /\ free_dir(g).dirs = 1 /\ free_dir(g).lists = 1
        BY <4>1, Counted
      <4> QED
        BY <4>2, <4>3, AlikeShown DEF g
    <3> HIDE DEF f
    <3>7. f \in Menus
      BY <3>5 DEF Menus
    <3> QED
      BY <3>7 DEF f, r, e, a
  <2>4. free_dir(AllocDir(s)) \in Menus
    <3> DEFINE a == AllocDir(s)
    <3>1. a \in ListStates /\ Alike(a, s) /\ a.dirs = 2 /\ a.lists = 1
      BY <1>1, Counted
    <3>2. Placed(a) /\ Shown(a)
      BY <1>1, <3>1, AlikeShown
    <3> HIDE DEF a
    <3>3. free_dir(a) \in ListStates /\ Alike(free_dir(a), a) /\ free_dir(a).dirs = 1 /\ free_dir(a).lists = 1
      BY <3>1, Counted
    <3> QED
      BY <3>2, <3>3, AlikeShown DEF Menus, a
  <2> QED
    BY <2>1, <2>3, <2>4, Zenon DEF SelectDir
<1>4. CASE ~entry.is_dir
  <2> DEFINE t == [s EXCEPT !.selected_rom_path = long]
  <2>1. NavSelect(s) = {t}
    BY <1>4 DEF NavSelect, entry
  <2>2. long \in Seq(Names)
    BY <1>2, AppendProperties
  <2> HIDE DEF long
  <2>3. /\ t \in ListStates /\ t.dirs = 1 /\ t.lists = 1
        /\ Alike(t, s)
    BY <1>1, <2>2 DEF ListStates, Alike
  <2> HIDE DEF t
  <2>4. Placed(t) /\ Shown(t)
    BY <1>1, <2>3, AlikeShown
  <2> QED
    BY <2>1, <2>3, <2>4 DEF Menus
<1> QED
  BY <1>3, <1>4

LEMMA NavigationKeeps ==
    ASSUME platform \in Platforms
    PROVE  /\ \A T, option : T \subseteq Menus /\ option \in {"NAV_UP", "NAV_DOWN", "NAV_SELECT"}
                => Navigated(T, option) \subseteq Menus
           /\ \A s \in Menus : \A option \in {"NAV_UP", "NAV_DOWN", "NAV_SELECT"} :
                navigation(s, option) \subseteq Menus
           /\ \A T, point : T \subseteq Menus => Press(T, point) \subseteq Menus
<1>1. \A s \in Menus : /\ navigation(s, "NAV_UP") \subseteq Menus
                       /\ navigation(s, "NAV_DOWN") \subseteq Menus
                       /\ navigation(s, "NAV_SELECT") \subseteq Menus
  <2> TAKE s \in Menus
  <2>1. NavUp(s) \in Menus /\ NavDown(s) \in Menus /\ NavSelect(s) \subseteq Menus
    BY NavUpKeeps, NavDownKeeps, SelectKeeps
  <2>2. /\ navigation(s, "NAV_UP") = {NavUp(s)}
        /\ navigation(s, "NAV_DOWN") = {NavDown(s)}
        /\ navigation(s, "NAV_SELECT") = NavSelect(s)
    BY DEF navigation
  <2> QED
    BY <2>1, <2>2
<1>2. \A T, option : T \subseteq Menus /\ option \in {"NAV_UP", "NAV_DOWN", "NAV_SELECT"}
        => Navigated(T, option) \subseteq Menus
  BY <1>1 DEF Navigated
<1>3. \A T, button : T \subseteq Menus => PressButton(T, button) \subseteq Menus
  BY <1>2, Zenon DEF PressButton
<1>4. \A T, point : T \subseteq Menus => Press(T, point) \subseteq Menus
  BY <1>3, Pressed
<1> QED
  BY <1>1, <1>2, <1>4

-----------------------------------------------------------------------------
(* The menu: its invariant                                                 *)

Blank == [dir |-> NoDir, fname_textures |-> 0, current_highlighted |-> 0,
          scroll_offset |-> 0, selected_rom_path |-> NoFile,
          drawn |-> NotDrawn, dirs |-> 0, lists |-> 0]

\* The menu is that of its platform while it runs, and gives everything back.
MenuInv ==
    /\ platform \in Platforms
    /\ phase \in {"start", "failed"} => context = Blank
    /\ phase = "menu" => context \in Menus
    /\ phase = "done" => /\ context.dirs = 0 /\ context.lists = 0
                         /\ context.drawn.highlight # -1 => ArtFits(context.drawn.art)
    /\ phase \in {"start", "failed", "menu", "done"}

LEMMA SamePlatform ==
    ASSUME platform' = platform
    PROVE  Menus' = Menus /\ \A art : ArtFits(art)' <=> ArtFits(art)
<1>1. /\ screen_width' = screen_width /\ screen_height' = screen_height
      /\ banner_height' = banner_height /\ text_y_start' = text_y_start
      /\ text_y_spacing' = text_y_spacing
  BY DEF screen_width, screen_height, banner_height, text_y_start, text_y_spacing
<1>2. ListStates' = ListStates
  BY DEF ListStates, Dirs, Drawings, Arts, Names, Entries
<1>3. \A path : Valid(path)' <=> Valid(path)
  BY DEF Valid, Names, Root
<1>4. \A dir : Listing(dir)' <=> Listing(dir)
  BY <1>3 DEF Listing, Dirs, Names, Entries
<1>5. \A art : ArtFits(art)' <=> ArtFits(art)
  BY <1>1 DEF ArtFits
<1>6. \A line : RowFits(line)' <=> RowFits(line)
  BY <1>1 DEF RowFits
<1>7. \A s : Placed(s)' <=> Placed(s)
  BY <1>4, <1>6 DEF Placed
<1>8. \A s : redraw_filenames(s)' = redraw_filenames(s)
  BY <1>1 DEF redraw_filenames
<1>9. \A s : Shown(s)' <=> Shown(s)
  BY <1>5, <1>8 DEF Shown
<1> QED
  BY <1>2, <1>5, <1>7, <1>9 DEF Menus

LEMMA OpenHomeStep ==
    ASSUME MenuInv, OpenHome
    PROVE  \/ context' \in Menus /\ phase' = "menu"
           \/ context' = Blank /\ phase' = "failed"
<1>1. platform \in Platforms /\ context = Blank
  BY DEF MenuInv, OpenHome
<1>2. CASE phase' = "failed" /\ UNCHANGED context
  BY <1>1, <1>2
<1>3. ASSUME NEW i \in DOMAIN Homes[platform],
             NEW dir \in get_dir(Homes[platform][i]) \ {NoDir}
      PROVE  LET s == Entered(AllocTextures(AllocDir(context)), dir)
             IN [s EXCEPT !.drawn.rows = redraw_filenames(s)] \in Menus
  <2> DEFINE a == AllocTextures(AllocDir(context))
             s == Entered(a, dir)
             t == [s EXCEPT !.drawn.rows = redraw_filenames(s)]
  <2>1. Listing(dir)
    <3>1. Valid(FullPath(Homes[platform][i]))
      BY <1>1, HomesValid
    <3> QED
      BY <3>1, DirListed
  <2>2. a \in ListStates /\ a.dirs = 1 /\ a.lists = 1 /\ a.drawn = NotDrawn
    <3>1. NoDir \in Dirs
      BY DEF NoDir, Dirs
    <3>2. NoFile \in Seq(Names)
      <4>1. "none" \in Names
        BY MenuAssumption, Zenon
      <4> QED
        BY <4>1 DEF NoFile
    <3>3. NotDrawn \in Drawings
      BY DEF NotDrawn, Drawings, Arts
    <3>4. context \in ListStates /\ context.dirs = 0 /\ context.lists = 0 /\ context.drawn = NotDrawn
      BY <1>1, <3>1, <3>2, <3>3 DEF Blank, ListStates
    <3>5. AllocDir(context) \in ListStates /\ Alike(AllocDir(context), context)
          /\ AllocDir(context).dirs = 1 /\ AllocDir(context).lists = 0
      BY <3>4, Counted
    <3>6. a \in ListStates /\ Alike(a, AllocDir(context)) /\ a.dirs = 1 /\ a.lists = 1
      BY <3>5, Counted
    <3> QED
      BY <3>4, <3>5, <3>6, Zenon DEF Alike
  <2> HIDE DEF a
  <2>3. s \in ListStates /\ Placed(s) /\ s.dirs = 1 /\ s.lists = 1 /\ s.drawn = NotDrawn
    BY <1>1, <2>1, <2>2, EnteredPlaced
  <2> HIDE DEF s
  <2>4. redraw_filenames(s) \in SUBSET Int
    BY <2>3 DEF redraw_filenames, ListStates
  <2>5. /\ t \in ListStates /\ t.dirs = 1 /\ t.lists = 1
        /\ t.dir = s.dir /\ t.fname_textures = s.fname_textures
        /\ t.current_highlighted = s.current_highlighted /\ t.scroll_offset = s.scroll_offset
        /\ t.drawn.rows = redraw_filenames(s) /\ t.drawn.highlight = -1
    BY <2>3, <2>4 DEF ListStates, Drawings, NotDrawn
  <2> HIDE DEF t
  <2>6. redraw_filenames(t) = redraw_filenames(s)
    BY <2>5 DEF redraw_filenames
  <2>7. t \in Menus
    BY <2>3, <2>5, <2>6 DEF Menus, Placed, Shown
  <2> QED
    BY <2>7 DEF t, s, a
<1> QED
  BY <1>2, <1>3, Zenon DEF OpenHome

LEMMA MenuStep == MenuInv /\ [MenuNext]_menuVars => MenuInv'
<1> SUFFICES ASSUME MenuInv, [MenuNext]_menuVars PROVE MenuInv'
  OBVIOUS
<1>1. platform \in Platforms /\ platform' = platform
  BY DEF MenuInv, MenuNext, menuVars, OpenHome, Quit, KeyDown, FingerDown, FingerUp, FingerMotion,
         Leave
<1>2. Menus' = Menus /\ Platforms' = Platforms
  BY <1>1, SamePlatform DEF Platforms
<1>3. \A T, point : T \subseteq Menus => Press(T, point) \subseteq Menus
  BY <1>1, NavigationKeeps
<1>4. \A S, point, state :
        S \subseteq Menus /\ Finger(point, state, S) => context' \in Menus
  BY <1>3 DEF Finger
<1>5. CASE OpenHome
  BY <1>1, <1>2, <1>5, OpenHomeStep DEF MenuInv, Blank
<1>6. CASE Quit
  BY <1>1, <1>2, <1>6 DEF MenuInv, Quit
<1>7. CASE KeyDown
  <2>1. PICK key \in KeyActions :
          LET S == IF key = "other" THEN {context} ELSE navigation(context, key)
          IN IF platform = "vita" THEN context' \in S
             ELSE \E point \in Points : Finger(point, TRUE, S)
    BY <1>7, Zenon DEF KeyDown
  <2> DEFINE S == IF key = "other" THEN {context} ELSE navigation(context, key)
  <2>2. context \in Menus /\ phase' = "menu"
    BY <1>7 DEF KeyDown, MenuInv
  <2>3. S \subseteq Menus
    <3>1. key # "other" => key \in {"NAV_UP", "NAV_DOWN", "NAV_SELECT"}
      BY DEF KeyActions
    <3>2. key # "other" => navigation(context, key) \subseteq Menus
      BY <1>1, <2>2, <3>1, NavigationKeeps
    <3> QED
      BY <2>2, <3>2
  <2>4. IF platform = "vita" THEN context' \in S ELSE \E point \in Points : Finger(point, TRUE, S)
    BY <2>1
  <2> HIDE DEF S
  <2>5. ASSUME platform = "vita" PROVE context' \in Menus
    BY <2>3, <2>4, <2>5
  <2>6. ASSUME platform # "vita" PROVE context' \in Menus
    <3>1. PICK point \in Points : Finger(point, TRUE, S)
      BY <2>4, <2>6
    <3> QED
      BY <1>4, <2>3, <3>1, Zenon
  <2>7. context' \in Menus
    BY <2>5, <2>6
  <2> QED
    BY <1>1, <1>2, <2>2, <2>7 DEF MenuInv
<1>8. CASE FingerDown \/ FingerUp
  <2>1. phase = "menu" /\ phase' = "menu" /\ \E point, state : Finger(point, state, {context})
    BY <1>8, Zenon DEF FingerDown, FingerUp
  <2>2. {context} \subseteq Menus
    BY <2>1 DEF MenuInv
  <2>3. context' \in Menus
    BY <1>4, <2>1, <2>2
  <2> QED
    BY <1>1, <1>2, <2>1, <2>3 DEF MenuInv
<1>9. CASE FingerMotion
  BY <1>1, <1>2, <1>9 DEF MenuInv, FingerMotion
<1>10. CASE Leave
  <2>1. /\ context \in Menus /\ phase' = "done"
        /\ context' = free_dir(free_dir_fname_textures(context))
    BY <1>10 DEF MenuInv, Leave
  <2>2. context'.dirs = 0 /\ context'.lists = 0 /\ context'.drawn = context.drawn
    <3> DEFINE g == free_dir_fname_textures(context)
    <3>1. g \in ListStates /\ Alike(g, context) /\ g.dirs = 1 /\ g.lists = 0
      BY <2>1, Counted DEF Menus
    <3> HIDE DEF g
    <3>2. Alike(free_dir(g), g) /\ free_dir(g).dirs = 0 /\ free_dir(g).lists = 0
      BY <3>1, Counted
    <3> QED
      BY <2>1, <3>1, <3>2, Zenon DEF Alike, g
  <2>3. context.drawn.highlight # -1 => ArtFits(context.drawn.art)
    BY <2>1 DEF Menus, Shown
  <2>4. /\ screen_width' = screen_width /\ screen_height' = screen_height
        /\ banner_height' = banner_height
    BY <1>1 DEF screen_width, screen_height, banner_height
  <2>5. (context.drawn.highlight # -1 => ArtFits(context.drawn.art))'
    BY <2>2, <2>3, <2>4 DEF ArtFits
  <2> QED
    BY <1>1, <1>2, <2>1, <2>2, <2>5 DEF MenuInv
<1>11. CASE UNCHANGED menuVars
  <2>1. UNCHANGED <<phase, context, platform>>
    BY <1>11 DEF menuVars
  <2>2. /\ screen_width' = screen_width /\ screen_height' = screen_height
        /\ banner_height' = banner_height
    BY <2>1 DEF screen_width, screen_height, banner_height
  <2> QED
    BY <1>2, <2>1, <2>2 DEF MenuInv, Blank, ArtFits
<1> QED
  BY <1>5, <1>6, <1>7, <1>8, <1>9, <1>10, <1>11 DEF MenuNext

LEMMA MenuInvShows == MenuInv => MenuExact
<1> SUFFICES ASSUME MenuInv PROVE MenuExact
  OBVIOUS
<1>1. CASE phase = "menu"
  <2>1. /\ context \in ListStates /\ Placed(context) /\ Shown(context)
        /\ context.dirs = 1 /\ context.lists = 1 /\ Listing(context.dir)
    BY <1>1 DEF MenuInv, Menus, Placed
  <2>2. /\ context.current_highlighted \in Nat /\ context.scroll_offset \in Nat
        /\ context.fname_textures \in Nat /\ context.fname_textures = Len(context.dir.entries)
        /\ context.current_highlighted < context.fname_textures
        /\ context.scroll_offset <= context.current_highlighted
        /\ RowFits(context.current_highlighted - context.scroll_offset)
    BY <2>1 DEF ListStates, Placed
  <2>3. context.current_highlighted - context.scroll_offset \in context.drawn.rows
    BY <2>1, <2>2 DEF Shown, redraw_filenames, RowFits
  <2>4. HighlightShown
    BY <2>1, <2>2, <2>3 DEF HighlightShown, Shown
  <2>5. OneListing
    BY <1>1, <2>1, <2>2 DEF OneListing, Listing, Dirs
  <2>6. WalksTree
    <3> DEFINE entry == context.dir.entries[context.current_highlighted + 1]
    <3>1. /\ context.dir.entries \in Seq(Entries) /\ Valid(context.dir.path)
          /\ context.current_highlighted + 1 \in 1 .. Len(context.dir.entries)
      BY <2>1, <2>2 DEF ListStates, Dirs, Listing
    <3>2. entry \in Entries
      BY <3>1, ElementOfSeq
    <3>3. entry.name \in Names
      BY <3>2 DEF Entries
    <3> HIDE DEF entry
    <3>4. FullPath(Append(context.dir.path, entry.name)) = Leads(context.dir.path, entry.name)
      BY <3>1, <3>3, Walks
    <3> QED
      BY <3>4, Zenon DEF WalksTree, Leads, TopLength, entry
  <2>7. ArtBetweenBanners
    BY <2>1 DEF Shown, ArtFits, ArtBetweenBanners
  <2> QED
    BY <2>4, <2>5, <2>6, <2>7 DEF MenuExact
<1>2. CASE phase # "menu"
  <2>1. HighlightShown /\ WalksTree
    BY <1>2 DEF HighlightShown, WalksTree
  <2>2. OneListing
    BY <1>2 DEF MenuInv, OneListing
  <2>3. ArtBetweenBanners
    BY <1>2 DEF MenuInv, Blank, NotDrawn, ArtBetweenBanners, ArtFits
  <2> QED
    BY <2>1, <2>2, <2>3 DEF MenuExact
<1> QED
  BY <1>1, <1>2

\* The menu shows what it highlights, walks the tree as its names say, and holds one
\* listing, on every platform, for every tree, with any fingers.
THEOREM MenuHolds == MenuSpec => []MenuExact
<1>1. MenuInit => MenuInv
  BY DEF MenuInit, MenuInv, Blank
<1> QED
  BY <1>1, MenuStep, MenuInvShows, PTL DEF MenuSpec

-----------------------------------------------------------------------------
\* Induction on the natural numbers, for a set instead of a predicate.
LEMMA SetInduction ==
    ASSUME NEW S, 0 \in S, \A n \in Nat : n \in S => n + 1 \in S
    PROVE  Nat \subseteq S
<1> DEFINE T == Nat \ S
           R == OpToRel(<, Nat)
<1>1. IsWellFoundedOn(R, Nat)
  BY NatLessThanWellFounded, Zenon
<1>2. \A x, y \in Nat : <<x, y>> \in R <=> x < y
  BY DEF OpToRel
<1> HIDE DEF R
<1>3. ASSUME T # {} PROVE FALSE
  <2>1. PICK x \in T : \A y \in T : ~(<<y, x>> \in R)
    BY <1>1, <1>3, WFMin, Zenon
  <2>2. x \in Nat /\ x # 0 /\ x - 1 \in Nat /\ x = (x - 1) + 1
    BY <2>1
  <2>3. <<x - 1, x>> \in R
    BY <1>2, <2>2
  <2>4. x - 1 \notin T
    BY <2>1, <2>3
  <2> QED
    BY <2>1, <2>2, <2>4
<1> QED
  BY <1>3

-----------------------------------------------------------------------------
(* The order of the sprites: rings                                          *)

SpritePlaces == 1 .. MAX_SPRITES

\* The sprites in some order, and the nodes before, at and after them.
Orders == {q \in [SpritePlaces -> Sprites] :
              /\ \A i, j \in SpritePlaces : q[i] = q[j] => i = j
              /\ \A n \in Sprites : \E i \in SpritePlaces : q[i] = n}
NodeAt(q, i) == IF i \in SpritePlaces THEN q[i] ELSE sentinal

\* The nodes are linked in that order, with the sentinel between last and first.
Linked(q) ==
    \A i \in 0 .. MAX_SPRITES :
        next[NodeAt(q, i)] = NodeAt(q, i + 1) /\ prev[NodeAt(q, i + 1)] = NodeAt(q, i)

LEMMA SpriteSizes ==
    /\ MAX_SPRITES \in Nat /\ MAX_SPRITES > 1 /\ MAX_SPRITES <= 256 /\ Limit \in Nat
    /\ Xs \subseteq 0 .. 255 /\ Sprites \subseteq Nat /\ Sprites = 0 .. MAX_SPRITES - 1
    /\ Nodes = 0 .. MAX_SPRITES /\ sentinal \in Nodes /\ sentinal \notin Sprites
    /\ Sprites \subseteq Nodes
BY SpriteAssumption DEF Sprites, Nodes, sentinal

LEMMA NodesAt ==
    ASSUME NEW q \in Orders
    PROVE  /\ \A i \in SpritePlaces : NodeAt(q, i) = q[i] /\ q[i] \in Sprites /\ q[i] # sentinal
           /\ NodeAt(q, 0) = sentinal /\ NodeAt(q, MAX_SPRITES + 1) = sentinal
           /\ \A i \in Nat : NodeAt(q, i) \in Nodes
           /\ \A i, j \in 0 .. MAX_SPRITES : NodeAt(q, i) = NodeAt(q, j) => i = j
           /\ \A i, j \in 1 .. MAX_SPRITES + 1 : NodeAt(q, i) = NodeAt(q, j) => i = j
           /\ \A n \in Nodes : \E i \in 0 .. MAX_SPRITES : NodeAt(q, i) = n
           /\ \A n \in Nodes : \E i \in 1 .. MAX_SPRITES + 1 : NodeAt(q, i) = n
<1>1. \A i \in SpritePlaces : NodeAt(q, i) = q[i] /\ q[i] \in Sprites /\ q[i] # sentinal
  BY SpriteSizes DEF NodeAt, Orders
<1>2. NodeAt(q, 0) = sentinal /\ NodeAt(q, MAX_SPRITES + 1) = sentinal
  BY SpriteSizes DEF NodeAt, SpritePlaces
<1>3. \A i \in Nat : NodeAt(q, i) \in Nodes
  BY <1>1, SpriteSizes DEF NodeAt
<1>4. /\ \A i, j \in 0 .. MAX_SPRITES : NodeAt(q, i) = NodeAt(q, j) => i = j
      /\ \A i, j \in 1 .. MAX_SPRITES + 1 : NodeAt(q, i) = NodeAt(q, j) => i = j
  <2>1. \A i \in 0 .. MAX_SPRITES : i = 0 \/ i \in SpritePlaces
    BY SpriteSizes DEF SpritePlaces
  <2>2. \A i \in 1 .. MAX_SPRITES + 1 : i = MAX_SPRITES + 1 \/ i \in SpritePlaces
    BY SpriteSizes DEF SpritePlaces
  <2> QED
    BY <1>1, <1>2, <2>1, <2>2 DEF Orders
<1>5. ASSUME NEW n \in Nodes
      PROVE  /\ \E i \in 0 .. MAX_SPRITES : NodeAt(q, i) = n
             /\ \E i \in 1 .. MAX_SPRITES + 1 : NodeAt(q, i) = n
  <2>1. CASE n = sentinal
    BY <1>2, <2>1, SpriteSizes
  <2>2. CASE n \in Sprites
    <3>1. PICK i \in SpritePlaces : q[i] = n
      BY <2>2 DEF Orders
    <3>2. i \in 0 .. MAX_SPRITES /\ i \in 1 .. MAX_SPRITES + 1
      BY SpriteSizes DEF SpritePlaces
    <3> QED
      BY <1>1, <3>1, <3>2
  <2> QED
    BY <2>1, <2>2 DEF Nodes
<1> QED
  BY <1>1, <1>2, <1>3, <1>4, <1>5

\* Going round from a place, the sprites up to the sentinel are the rest of the order.
LEMMA ListedFrom ==
    ASSUME NEW q \in Orders, Linked(q), NEW h \in SpritePlaces
    PROVE  Listed(q[h]) = [i \in 1 .. MAX_SPRITES - h + 1 |-> q[h + i - 1]]
<1> DEFINE n == MAX_SPRITES - h + 1
           Is(g) == g = [i \in 1 .. MAX_SPRITES + 1 |-> IF i = 1 THEN q[h] ELSE next[g[i - 1]]]
           at == CHOOSE g : g = [i \in 1 .. MAX_SPRITES + 1 |-> IF i = 1 THEN q[h] ELSE next[g[i - 1]]]
           Round(i) == IF i <= n + 1 THEN NodeAt(q, h + i - 1) ELSE NodeAt(q, i - n - 1)
           round == [i \in 1 .. MAX_SPRITES + 1 |-> Round(i)]
           Ends(k) == /\ \A i \in 1 .. k : at[i] # sentinal
                      /\ at[k + 1] = sentinal \/ k = MAX_SPRITES
<1>1. h \in Nat /\ n \in 1 .. MAX_SPRITES /\ h = MAX_SPRITES - n + 1 /\ MAX_SPRITES \in Nat
  BY SpriteSizes DEF SpritePlaces
<1> HIDE DEF n
<1>2. Is(round)
  <2>1. ASSUME NEW i \in 1 .. MAX_SPRITES + 1
        PROVE  Round(i) = IF i = 1 THEN q[h] ELSE next[round[i - 1]]
    <3>1. CASE i = 1
      <4>1. i <= n + 1 /\ h + i - 1 = h
        BY <1>1, <3>1
      <4> QED
        BY <3>1, <4>1, NodesAt
    <3>2. CASE i # 1 /\ i <= n + 1
      <4>1. i - 1 \in 1 .. MAX_SPRITES + 1 /\ i - 1 <= n + 1 /\ h + (i - 1) - 1 \in 0 .. MAX_SPRITES
            /\ h + (i - 1) - 1 + 1 = h + i - 1
        BY <1>1, <3>2
      <4>2. round[i - 1] = NodeAt(q, h + (i - 1) - 1)
        BY <4>1
      <4>3. next[round[i - 1]] = NodeAt(q, h + i - 1)
        BY <4>1, <4>2 DEF Linked
      <4> QED
        BY <3>2, <4>3
    <3>3. CASE i = n + 2
      <4>1. i - 1 = n + 1 /\ i - 1 \in 1 .. MAX_SPRITES + 1 /\ h + (i - 1) - 1 = MAX_SPRITES + 1
            /\ i # 1 /\ ~(i <= n + 1) /\ i - n - 1 = 1 /\ 0 \in 0 .. MAX_SPRITES /\ 0 + 1 = 1
        BY <1>1, <3>3
      <4>2. round[i - 1] = NodeAt(q, 0)
        BY <4>1, NodesAt
      <4>3. next[round[i - 1]] = NodeAt(q, 1)
        BY <4>1, <4>2 DEF Linked
      <4> QED
        BY <4>1, <4>3
    <3>4. CASE i > n + 2
      <4>1. /\ i - 1 \in 1 .. MAX_SPRITES + 1 /\ ~(i - 1 <= n + 1) /\ ~(i <= n + 1) /\ i # 1
            /\ (i - 1) - n - 1 \in 0 .. MAX_SPRITES /\ (i - 1) - n - 1 + 1 = i - n - 1
        BY <1>1, <3>4
      <4>2. round[i - 1] = NodeAt(q, (i - 1) - n - 1)
        BY <4>1
      <4>3. next[round[i - 1]] = NodeAt(q, i - n - 1)
        BY <4>1, <4>2 DEF Linked
      <4> QED
        BY <4>1, <4>3
    <3> QED
      BY <1>1, <3>1, <3>2, <3>3, <3>4
  <2> HIDE DEF Round
  <2>2. round = [i \in 1 .. MAX_SPRITES + 1 |-> IF i = 1 THEN q[h] ELSE next[round[i - 1]]]
    BY <2>1
  <2> QED
    BY <2>2
<1>3. Is(at)
  BY <1>2
<1> HIDE DEF at
<1>4. ASSUME NEW i \in 1 .. MAX_SPRITES + 1 PROVE at[i] = round[i]
  <2> DEFINE S == {k \in Nat : k + 1 \in 1 .. MAX_SPRITES + 1 => at[k + 1] = round[k + 1]}
  <2> HIDE DEF round
  <2>1. 0 \in S
    <3>1. 1 \in 1 .. MAX_SPRITES + 1 /\ 0 + 1 = 1
      BY <1>1
    <3> QED
      BY <1>2, <1>3, <3>1
  <2>2. ASSUME NEW k \in Nat, k \in S PROVE k + 1 \in S
    <3> SUFFICES ASSUME k + 1 + 1 \in 1 .. MAX_SPRITES + 1 PROVE at[k + 1 + 1] = round[k + 1 + 1]
      OBVIOUS
    <3>1. k + 1 \in 1 .. MAX_SPRITES + 1 /\ k + 1 + 1 - 1 = k + 1 /\ k + 1 + 1 # 1
      BY <1>1
    <3>2. at[k + 1] = round[k + 1]
      BY <2>2, <3>1
    <3>3. at[k + 1 + 1] = next[at[k + 1]]
      BY <1>3, <3>1
    <3>4. round[k + 1 + 1] = next[round[k + 1]]
      BY <1>2, <3>1
    <3> QED
      BY <3>2, <3>3, <3>4
  <2> HIDE DEF S
  <2>3. Nat \subseteq S
    BY <2>1, <2>2, SetInduction
  <2>4. i - 1 \in Nat /\ i - 1 + 1 = i
    BY <1>1
  <2> QED
    BY <2>3, <2>4 DEF S
<1>5. \A i \in 1 .. n : at[i] = q[h + i - 1] /\ at[i] # sentinal
  <2> TAKE i \in 1 .. n
  <2>1. i \in 1 .. MAX_SPRITES + 1 /\ i <= n + 1 /\ h + i - 1 \in SpritePlaces
    BY <1>1 DEF SpritePlaces
  <2>2. at[i] = NodeAt(q, h + i - 1)
    BY <1>4, <2>1
  <2> QED
    BY <2>1, <2>2, NodesAt
<1>6. at[n + 1] = sentinal
  <2>1. n + 1 \in 1 .. MAX_SPRITES + 1 /\ h + (n + 1) - 1 = MAX_SPRITES + 1 /\ n + 1 <= n + 1
    BY <1>1
  <2> QED
    BY <1>4, <2>1, NodesAt
<1>7. n = CHOOSE k \in 0 .. MAX_SPRITES : Ends(k)
  <2>1. n \in 0 .. MAX_SPRITES /\ Ends(n)
    BY <1>1, <1>5, <1>6
  <2>2. ASSUME NEW k \in 0 .. MAX_SPRITES, Ends(k) PROVE k = n
    <3>1. ~(k < n)
      <4> SUFFICES ASSUME k < n PROVE FALSE
        OBVIOUS
      <4>1. k + 1 \in 1 .. n /\ k # MAX_SPRITES
        BY <1>1
      <4> QED
        BY <1>5, <2>2, <4>1
    <3>2. ~(k > n)
      <4> SUFFICES ASSUME k > n PROVE FALSE
        OBVIOUS
      <4>1. n + 1 \in 1 .. k
        BY <1>1
      <4> QED
        BY <1>6, <2>2, <4>1
    <3> QED
      BY <1>1, <3>1, <3>2
  <2> HIDE DEF Ends
  <2> QED
    BY <2>1, <2>2
<1>8. Listed(q[h]) = [i \in 1 .. n |-> at[i]]
  BY <1>7 DEF Listed, at
<1>9. Listed(q[h]) = [i \in 1 .. n |-> q[h + i - 1]]
  BY <1>5, <1>8
<1> QED
  BY <1>9 DEF n

\* The order from the first node on, and what it makes of the nodes.
LEMMA RingListed ==
    ASSUME NEW q \in Orders, Linked(q)
    PROVE  Listed(First) = q /\ OneRing
<1>1. First = q[1] /\ 1 \in SpritePlaces
  <2>1. 1 \in SpritePlaces /\ 0 \in 0 .. MAX_SPRITES /\ 0 + 1 = 1
    BY SpriteSizes DEF SpritePlaces
  <2> QED
    BY <2>1, NodesAt DEF First, Linked
<1>2. Listed(First) = [i \in SpritePlaces |-> q[i]]
  <2>1. MAX_SPRITES - 1 + 1 = MAX_SPRITES /\ \A i \in SpritePlaces : 1 + i - 1 = i
    BY SpriteSizes DEF SpritePlaces
  <2>2. Listed(First) = [i \in SpritePlaces |-> q[1 + i - 1]]
    BY <1>1, <2>1, ListedFrom, Zenon DEF SpritePlaces
  <2>3. [i \in SpritePlaces |-> q[1 + i - 1]] = [i \in SpritePlaces |-> q[i]]
    BY <2>1
  <2> QED
    BY <2>2, <2>3
<1>3. Listed(First) = q /\ Len(q) = MAX_SPRITES
  BY <1>2, SpriteSizes DEF Orders, SpritePlaces
<1>4. \A n \in Nodes : prev[next[n]] = n /\ next[prev[n]] = n
  <2> TAKE n \in Nodes
  <2>1. PICK i \in 0 .. MAX_SPRITES : NodeAt(q, i) = n
    BY NodesAt
  <2>2. PICK j \in 1 .. MAX_SPRITES + 1 : NodeAt(q, j) = n
    BY NodesAt
  <2>3. j - 1 \in 0 .. MAX_SPRITES /\ j - 1 + 1 = j
    BY SpriteSizes
  <2> QED
    BY <2>1, <2>2, <2>3 DEF Linked
<1> QED
  BY <1>3, <1>4 DEF OneRing, Orders, SpritePlaces

-----------------------------------------------------------------------------
(* The order of the sprites: a move                                        *)

\* Where the mth sprite was before the one at p moved to s.
From(p, s, m) ==
    IF m = s THEN p
    ELSE IF p <= m /\ m < s THEN m + 1 ELSE IF s < m /\ m <= p THEN m - 1 ELSE m

LEMMA MovedOrder ==
    ASSUME NEW q \in Orders, NEW p \in SpritePlaces, NEW s \in SpritePlaces
    PROVE  /\ Order!Moved(q, p, s) \in Orders
           /\ \A m \in SpritePlaces : From(p, s, m) \in SpritePlaces /\ Order!Moved(q, p, s)[m] = q[From(p, s, m)]
<1> DEFINE r == Order!Moved(q, p, s)
<1>1. /\ p \in Nat /\ s \in Nat /\ MAX_SPRITES \in Nat /\ SpritePlaces \subseteq Nat
      /\ \A m \in Nat : m \in SpritePlaces <=> 1 <= m /\ m <= MAX_SPRITES
  BY SpriteSizes DEF SpritePlaces
<1>2. \A m \in SpritePlaces : From(p, s, m) \in SpritePlaces
  BY <1>1 DEF From
<1>3. r = [m \in SpritePlaces |-> q[From(p, s, m)]]
  BY DEF Order!Moved, From, Orders
<1>4. r \in [SpritePlaces -> Sprites]
  BY <1>2, <1>3 DEF Orders
<1>5. \A i, j \in SpritePlaces : From(p, s, i) = From(p, s, j) => i = j
  BY <1>1 DEF From
<1>6. \A i, j \in SpritePlaces : r[i] = r[j] => i = j
  BY <1>2, <1>3, <1>5 DEF Orders
<1>7. \A k \in SpritePlaces : \E m \in SpritePlaces : From(p, s, m) = k
  <2> TAKE k \in SpritePlaces
  <2> DEFINE m == IF k = p THEN s
                  ELSE IF p < k /\ k <= s THEN k - 1 ELSE IF s <= k /\ k < p THEN k + 1 ELSE k
  <2>1. m \in SpritePlaces /\ From(p, s, m) = k
    BY <1>1 DEF From
  <2> QED
    BY <2>1
<1>8. \A n \in Sprites : \E i \in SpritePlaces : r[i] = n
  BY <1>3, <1>7 DEF Orders
<1> QED
  BY <1>2, <1>3, <1>4, <1>6, <1>8 DEF Orders

\* move_after in terms of places: the sprite at p comes after the node at d.
LEMMA Spliced ==
    ASSUME NEW q \in Orders, Linked(q), next \in [Nodes -> Nodes], prev \in [Nodes -> Nodes],
           NEW p \in SpritePlaces, NEW d \in 0 .. MAX_SPRITES, d # p, d # p - 1,
           MoveAfter(q[p], NodeAt(q, d))
    PROVE  /\ next' \in [Nodes -> Nodes] /\ prev' \in [Nodes -> Nodes]
           /\ \A k \in 0 .. MAX_SPRITES :
                 next'[NodeAt(q, k)] = NodeAt(q, IF k = d THEN p ELSE IF k = p THEN d + 1
                                                 ELSE IF k = p - 1 THEN p + 1 ELSE k + 1)
           /\ \A k \in 1 .. MAX_SPRITES + 1 :
                 prev'[NodeAt(q, k)] = NodeAt(q, IF k = d + 1 THEN p ELSE IF k = p THEN d
                                                 ELSE IF k = p + 1 THEN p - 1 ELSE k - 1)
<1> DEFINE o == NodeAt(q, p)
           a == NodeAt(q, p - 1)
           b == NodeAt(q, p + 1)
           e == NodeAt(q, d)
           f == NodeAt(q, d + 1)
           after == [next EXCEPT ![a] = b]
           before == [prev EXCEPT ![b] = a]
<1>1. /\ p \in 0 .. MAX_SPRITES /\ p - 1 \in 0 .. MAX_SPRITES /\ d \in Nat /\ p \in Nat
      /\ p \in 1 .. MAX_SPRITES + 1 /\ p + 1 \in 1 .. MAX_SPRITES + 1 /\ d + 1 \in 1 .. MAX_SPRITES + 1
      /\ p - 1 + 1 = p /\ p # p - 1
  BY SpriteSizes DEF SpritePlaces
<1>2. /\ o \in Nodes /\ a \in Nodes /\ b \in Nodes /\ e \in Nodes /\ f \in Nodes /\ q[p] = o
  BY <1>1, NodesAt
<1>3. next[o] = b /\ prev[o] = a /\ next[e] = f /\ prev[f] = e
  BY <1>1 DEF Linked
<1>4. e # a /\ e # o /\ f # o /\ f # b /\ o # a
  <2>1. d + 1 # p /\ d + 1 # p + 1
    BY <1>1
  <2> QED
    BY <1>1, <2>1, NodesAt
<1> HIDE DEF o, a, b, e, f
<1>5. next' = [after EXCEPT ![o] = after[e], ![e] = o] /\ prev' = [before EXCEPT ![o] = e, ![after[e]] = o]
  BY <1>2, <1>3 DEF MoveAfter, e
<1>6. after[e] = f
  BY <1>2, <1>3, <1>4
<1>7. next' \in [Nodes -> Nodes] /\ prev' \in [Nodes -> Nodes]
  BY <1>2, <1>5, <1>6
<1>8. ASSUME NEW n \in Nodes
      PROVE  /\ next'[n] = IF n = e THEN o ELSE IF n = o THEN f ELSE IF n = a THEN b ELSE next[n]
             /\ prev'[n] = IF n = f THEN o ELSE IF n = o THEN e ELSE IF n = b THEN a ELSE prev[n]
  BY <1>2, <1>5, <1>6
<1>9. ASSUME NEW k \in 0 .. MAX_SPRITES
      PROVE  next'[NodeAt(q, k)] = NodeAt(q, IF k = d THEN p ELSE IF k = p THEN d + 1
                                             ELSE IF k = p - 1 THEN p + 1 ELSE k + 1)
  <2>1. /\ NodeAt(q, k) \in Nodes /\ next[NodeAt(q, k)] = NodeAt(q, k + 1)
        /\ (NodeAt(q, k) = e <=> k = d) /\ (NodeAt(q, k) = o <=> k = p)
        /\ (NodeAt(q, k) = a <=> k = p - 1)
    BY <1>1, NodesAt DEF Linked, e, o, a
  <2> QED
    BY <1>8, <2>1 DEF o, f, b
<1>10. ASSUME NEW k \in 1 .. MAX_SPRITES + 1
      PROVE  prev'[NodeAt(q, k)] = NodeAt(q, IF k = d + 1 THEN p ELSE IF k = p THEN d
                                             ELSE IF k = p + 1 THEN p - 1 ELSE k - 1)
  <2>1. k - 1 \in 0 .. MAX_SPRITES /\ k - 1 + 1 = k
    BY SpriteSizes
  <2>2. /\ NodeAt(q, k) \in Nodes /\ prev[NodeAt(q, k)] = NodeAt(q, k - 1)
        /\ (NodeAt(q, k) = f <=> k = d + 1) /\ (NodeAt(q, k) = o <=> k = p)
        /\ (NodeAt(q, k) = b <=> k = p + 1)
    BY <1>1, <2>1, NodesAt DEF Linked, f, o, b
  <2> QED
    BY <1>8, <2>2 DEF o, e, a
<1> QED
  BY <1>7, <1>9, <1>10

\* The sprite at p goes to place s, up or down.
LEMMA MoveLinks ==
    ASSUME NEW q \in Orders, Linked(q), next \in [Nodes -> Nodes], prev \in [Nodes -> Nodes],
           NEW p \in SpritePlaces, NEW s \in SpritePlaces, s # p,
           MoveAfter(q[p], NodeAt(q, IF s < p THEN s - 1 ELSE s))
    PROVE  /\ next' \in [Nodes -> Nodes] /\ prev' \in [Nodes -> Nodes]
           /\ Linked(Order!Moved(q, p, s))'
<1> DEFINE d == IF s < p THEN s - 1 ELSE s
           r == Order!Moved(q, p, s)
           To(i) == IF i \in SpritePlaces THEN From(p, s, i) ELSE i
<1>1. /\ p \in Nat /\ s \in Nat /\ MAX_SPRITES \in Nat /\ SpritePlaces \subseteq Nat /\ d \in Nat
      /\ \A m \in Nat : m \in SpritePlaces <=> 1 <= m /\ m <= MAX_SPRITES
      /\ d \in 0 .. MAX_SPRITES /\ d # p /\ d # p - 1
  <2>1. /\ p \in Nat /\ s \in Nat /\ MAX_SPRITES \in Nat /\ SpritePlaces \subseteq Nat
        /\ \A m \in Nat : m \in SpritePlaces <=> (1 <= m /\ m <= MAX_SPRITES)
    BY SpriteSizes DEF SpritePlaces
  <2>2. s >= 1 /\ s <= MAX_SPRITES
    BY <2>1
  <2>3. d \in Nat /\ d \in 0 .. MAX_SPRITES /\ d # p /\ d # p - 1
    BY <2>1, <2>2
  <2> QED
    BY <2>1, <2>3
<1>2. r \in Orders /\ \A m \in SpritePlaces : From(p, s, m) \in SpritePlaces /\ r[m] = q[From(p, s, m)]
  BY MovedOrder
<1> HIDE DEF r
<1>3. \A i \in 0 .. MAX_SPRITES + 1 : NodeAt(r, i) = NodeAt(q, To(i))
  BY <1>2 DEF NodeAt
<1>4. /\ next' \in [Nodes -> Nodes] /\ prev' \in [Nodes -> Nodes]
      /\ \A k \in 0 .. MAX_SPRITES :
            next'[NodeAt(q, k)] = NodeAt(q, IF k = d THEN p ELSE IF k = p THEN d + 1
                                            ELSE IF k = p - 1 THEN p + 1 ELSE k + 1)
      /\ \A k \in 1 .. MAX_SPRITES + 1 :
            prev'[NodeAt(q, k)] = NodeAt(q, IF k = d + 1 THEN p ELSE IF k = p THEN d
                                            ELSE IF k = p + 1 THEN p - 1 ELSE k - 1)
  BY <1>1, Spliced
<1>5. ASSUME NEW i \in 0 .. MAX_SPRITES
      PROVE  next'[NodeAt(r, i)] = NodeAt(r, i + 1) /\ prev'[NodeAt(r, i + 1)] = NodeAt(r, i)
  <2> DEFINE k == To(i)
             l == To(i + 1)
  <2>1. i \in 0 .. MAX_SPRITES + 1 /\ i + 1 \in 0 .. MAX_SPRITES + 1
    BY <1>1
  <2>2. NodeAt(r, i) = NodeAt(q, k) /\ NodeAt(r, i + 1) = NodeAt(q, l)
    BY <1>3, <2>1
  <2>3. /\ k \in 0 .. MAX_SPRITES /\ l \in 1 .. MAX_SPRITES + 1
        /\ l = (IF k = d THEN p ELSE IF k = p THEN d + 1 ELSE IF k = p - 1 THEN p + 1 ELSE k + 1)
        /\ k = (IF l = d + 1 THEN p ELSE IF l = p THEN d ELSE IF l = p + 1 THEN p - 1 ELSE l - 1)
    BY <1>1 DEF From
  <2> HIDE DEF k, l
  <2> QED
    BY <1>4, <2>2, <2>3
<1>6. Linked(r)'
  BY <1>5 DEF Linked, NodeAt
<1> QED
  BY <1>4, <1>6 DEF r

-----------------------------------------------------------------------------
(* The order of the sprites: the invariant                                 *)

Moving(n) == pc # "idle" /\ n = current_node

\* All are in order but a sprite that is being moved.
InOrder(q) ==
    \A i, j \in SpritePlaces : i < j /\ ~Moving(q[i]) /\ ~Moving(q[j]) => x_pos[q[i]] <= x_pos[q[j]]

\* The loop has passed, from the place p of the sprite to s, those it belongs before, or
\* after, and that there is one told the loop from the other.
Scanned(q) ==
    /\ pc = "up" => \E p, s \in SpritePlaces :
          /\ q[p] = current_node /\ q[s] = swap_node /\ s <= p
          /\ p > 1 /\ val < x_pos[q[p - 1]]
          /\ \A k \in SpritePlaces : s <= k /\ k < p => val < x_pos[q[k]]
    /\ pc = "down" => \E p, s \in SpritePlaces :
          /\ q[p] = current_node /\ q[s] = swap_node /\ p <= s
          /\ p < MAX_SPRITES /\ val > x_pos[q[p + 1]]
          /\ \A k \in SpritePlaces : p < k /\ k <= s => val > x_pos[q[k]]

RingInv ==
    /\ TypeOK
    /\ pc # "idle" => val \in Keys
    /\ \A n \in Sprites : Moving(n) \/ settled[n] = x_pos[n]
    /\ \E q \in Orders : Linked(q) /\ InOrder(q) /\ Scanned(q)

LEMMA KeysFit ==
    ASSUME NEW n \in Sprites, NEW x \in Xs
    PROVE  Value(n, x) \in Keys /\ Value(n, x) \in uint16_t
<1>1. n \in 0 .. 255 /\ x \in 0 .. 255
  BY SpriteSizes
<1> QED
  <2>1. Value(n, x) \in Keys
    BY DEF Keys
  <2>2. 256 * x + n \in Nat /\ 256 * x + n <= Unwritten
    BY <1>1 DEF Unwritten
  <2>3. Unwritten \in Nat
    BY DEF Unwritten
  <2>4. Value(n, x) \in uint16_t
    BY <2>2, <2>3 DEF Value, uint16_t
  <2> QED
    BY <2>1, <2>4, Zenon

LEMMA KeysTyped == \A k \in Keys : k \in uint16_t
<1> TAKE k \in Keys
<1>1. PICK n \in Sprites, x \in Xs : k = Value(n, x)
  BY DEF Keys
<1> QED
  BY <1>1, KeysFit, Zenon

\* The neighbours of a sprite by its place.
LEMMA Neighbours ==
    ASSUME NEW q \in Orders, Linked(q), NEW i \in SpritePlaces
    PROVE  /\ prev[q[i]] = sentinal <=> i = 1
           /\ i > 1 => i - 1 \in SpritePlaces /\ prev[q[i]] = q[i - 1]
           /\ next[q[i]] = sentinal <=> i = MAX_SPRITES
           /\ i < MAX_SPRITES => i + 1 \in SpritePlaces /\ next[q[i]] = q[i + 1]
<1>1. /\ i \in Nat /\ i \in 0 .. MAX_SPRITES /\ i - 1 \in 0 .. MAX_SPRITES /\ i - 1 + 1 = i
      /\ i \in 1 .. MAX_SPRITES /\ MAX_SPRITES \in Nat
  BY SpriteSizes DEF SpritePlaces
<1>2. prev[q[i]] = NodeAt(q, i - 1) /\ next[q[i]] = NodeAt(q, i + 1)
  BY <1>1, NodesAt DEF Linked
<1>3. i = 1 \/ (i > 1 /\ i - 1 \in SpritePlaces)
  BY <1>1 DEF SpritePlaces
<1>4. i = MAX_SPRITES \/ (i < MAX_SPRITES /\ i + 1 \in SpritePlaces)
  BY <1>1 DEF SpritePlaces
<1>5. i = 1 => i - 1 = 0
  OBVIOUS
<1> QED
  BY <1>1, <1>2, <1>3, <1>4, <1>5, NodesAt

LEMMA RingStart == Init => RingInv /\ Order!Init
<1> SUFFICES ASSUME Init PROVE RingInv /\ Order!Init
  OBVIOUS
<1> DEFINE q == [i \in SpritePlaces |-> i - 1]
<1>1. q \in Orders
  <2>1. q \in [SpritePlaces -> Sprites]
    BY SpriteSizes DEF SpritePlaces
  <2>2. \A i, j \in SpritePlaces : q[i] = q[j] => i = j
    BY SpriteSizes DEF SpritePlaces
  <2>3. \A n \in Sprites : n + 1 \in SpritePlaces /\ q[n + 1] = n
    BY SpriteSizes DEF SpritePlaces
  <2> QED
    BY <2>1, <2>2, <2>3 DEF Orders
<1>2. \A i \in SpritePlaces : NodeAt(q, i) = i - 1
  BY DEF NodeAt
<1> HIDE DEF q
<1>3. Linked(q)
  <2> SUFFICES ASSUME NEW i \in 0 .. MAX_SPRITES
               PROVE  next[NodeAt(q, i)] = NodeAt(q, i + 1) /\ prev[NodeAt(q, i + 1)] = NodeAt(q, i)
    BY DEF Linked
  <2>1. CASE i = 0
    <3>1. NodeAt(q, 0) = sentinal /\ NodeAt(q, i + 1) = 0 /\ 0 # sentinal /\ 0 \in Nodes
      <4>1. 1 \in SpritePlaces /\ i + 1 = 1 /\ NodeAt(q, 1) = 0
        BY <1>2, <2>1, SpriteSizes DEF SpritePlaces
      <4>2. 0 # sentinal /\ 0 \in Nodes
        BY SpriteSizes DEF sentinal
      <4> QED
        BY <1>1, <4>1, <4>2, NodesAt
    <3> QED
      BY <2>1, <3>1, SpriteSizes DEF Init
  <2>2. CASE i \in 1 .. MAX_SPRITES - 1
    <3>1. /\ NodeAt(q, i) = i - 1 /\ NodeAt(q, i + 1) = i /\ i \in Nodes /\ i - 1 \in Nodes
          /\ i # 0 /\ i - 1 # sentinal /\ i # sentinal
      BY <1>2, <2>2, SpriteSizes DEF SpritePlaces, sentinal
    <3> QED
      BY <3>1, SpriteSizes DEF Init
  <2>3. CASE i = MAX_SPRITES
    <3>1. /\ NodeAt(q, i) = i - 1 /\ NodeAt(q, i + 1) = sentinal /\ i - 1 \in Nodes
          /\ i - 1 # sentinal /\ sentinal # 0 /\ sentinal - 1 = i - 1 /\ i - 1 + 1 = sentinal
      BY <1>1, <1>2, <2>3, NodesAt, SpriteSizes DEF SpritePlaces, sentinal
    <3> QED
      BY <3>1, SpriteSizes DEF Init
  <2> QED
    BY <2>1, <2>2, <2>3, SpriteSizes
<1>4. TypeOK
  <2>1. x_pos \in [Nodes -> uint16_t] /\ settled \in [Sprites -> uint16_t]
    BY DEF Init, Unwritten, uint16_t
  <2>2. next \in [Nodes -> Nodes] /\ prev \in [Nodes -> Nodes]
    BY SpriteSizes DEF Init, sentinal
  <2>3. drawn \in (SUBSET Sprites) \X Seq(Sprites)
    <3>1. <<>> \in Seq(Sprites)
      OBVIOUS
    <3> QED
      BY <3>1 DEF Init
  <2>4. 0 \in Sprites
    BY SpriteSizes
  <2> QED
    <3>1. head_ptr = 0 /\ current_node = 0 /\ swap_node = 0 /\ pc = "idle"
      BY DEF Init
    <3> QED
      BY <2>1, <2>2, <2>3, <2>4, <3>1, Zenon DEF TypeOK
<1>5. \A n \in Sprites : x_pos[n] = Unwritten /\ settled[n] = Unwritten
  BY SpriteSizes DEF Init
<1>6. InOrder(q) /\ Scanned(q)
  <2>1. \A i, j \in SpritePlaces : x_pos[q[i]] <= x_pos[q[j]]
    BY <1>1, <1>5 DEF Orders, Unwritten
  <2>2. pc = "idle"
    BY DEF Init
  <2> QED
    BY <2>1, <2>2 DEF InOrder, Scanned
<1>7. RingInv
  BY <1>1, <1>3, <1>4, <1>5, <1>6 DEF RingInv, Init
<1>8. Order!Init
  <2>1. Listed(First) = q
    BY <1>1, <1>3, RingListed
  <2>2. q \in Seq(Sprites) /\ DOMAIN q = SpritePlaces
    BY <1>1, SpriteSizes DEF Orders, SpritePlaces
  <2>3. \A n \in Sprites : \E i \in SpritePlaces : \A j \in SpritePlaces : q[j] = n <=> j = i
    BY <1>1 DEF Orders
  <2>4. Order!Ascending(q, settled)
    BY <1>1, <1>5, <2>2 DEF Order!Ascending, Orders, Unwritten
  <2> QED
    BY <2>1, <2>2, <2>3, <2>4 DEF Order!Init, Order!Nothing, Init
<1> QED
  BY <1>7, <1>8

-----------------------------------------------------------------------------
(* The order of the sprites: the steps                                     *)

\* Both before and after a step.
QueueIs == \A q \in Orders : Linked(q) => Listed(First) = q

LEMMA QueueAlwaysIs == QueueIs
BY RingListed DEF QueueIs

\* Sprite n moves from place p to s, and its key becomes k.
LEMMA MoveImplements ==
    ASSUME NEW q \in Orders, Linked(q), NEW p \in SpritePlaces, NEW s \in SpritePlaces,
           NEW r, r = Order!Moved(q, p, s), Linked(r)',
           NEW n \in Sprites, q[p] = n, NEW k \in Keys, settled \in [Sprites -> uint16_t],
           settled' = [settled EXCEPT ![n] = k], drawn' = <<{}, <<>>>>,
           \A i, j \in SpritePlaces : i < j => settled'[r[i]] <= settled'[r[j]]
    PROVE  Order!Next
<1>1. r \in Orders
  BY MovedOrder
<1>2. QueueIs /\ QueueIs'
  BY QueueAlwaysIs, PTL
<1>3. Orders' = Orders
  BY DEF Orders, SpritePlaces, Sprites
<1>4. Listed(First) = q /\ Listed(First)' = r
  BY <1>1, <1>2, <1>3 DEF QueueIs
<1>5. DOMAIN q = SpritePlaces /\ DOMAIN r = SpritePlaces
  BY <1>1 DEF Orders
<1>6. Order!Ascending(r, settled')
  BY <1>5 DEF Order!Ascending
<1>7. Order!Update(n, k)
  <2>1. \E i, j \in DOMAIN Listed(First) :
           Listed(First)[i] = n /\ Listed(First)' = Order!Moved(Listed(First), i, j)
    BY <1>4, <1>5
  <2>2. Order!Ascending(Listed(First)', settled')
    BY <1>4, <1>6
  <2> QED
    BY <2>1, <2>2 DEF Order!Update, Order!Nothing
<1> QED
  BY <1>7 DEF Order!Next, Order!Move

\* A step that leaves the nodes' links, keys and rows as they are changes no queue.
LEMMA Stutters ==
    ASSUME NEW q \in Orders, Linked(q), UNCHANGED ring, settled' = settled, drawn' = drawn
    PROVE  Linked(q)' /\ UNCHANGED Order!orderVars
<1>1. Linked(q)'
  BY DEF Linked, ring, NodeAt, SpritePlaces, sentinal
<1>2. Listed(First)' = Listed(First)
  BY DEF Listed, First, ring
<1> QED
  BY <1>1, <1>2 DEF Order!orderVars

LEMMA UpdateStep ==
    ASSUME RingInv, NEW n \in Sprites, NEW x \in Xs, Update(n, x)
    PROVE  RingInv' /\ [Order!Next]_(Order!orderVars)
<1> DEFINE v == Value(n, x)
<1>1. PICK q \in Orders : Linked(q) /\ InOrder(q)
  BY DEF RingInv
<1>2. PICK p \in SpritePlaces : q[p] = n
  BY DEF Orders
<1>3. /\ p \in Nat /\ MAX_SPRITES \in Nat /\ p >= 1 /\ p <= MAX_SPRITES
      /\ \A i \in SpritePlaces : /\ i \in Nat /\ q[i] \in Sprites /\ q[i] \in Nodes
                        /\ i >= 1 /\ i <= MAX_SPRITES
  BY SpriteSizes DEF SpritePlaces, Orders
<1>4. v \in Keys /\ v \in uint16_t /\ n \in Nodes
  BY KeysFit, SpriteSizes
<1> HIDE DEF v
<1>5. /\ pc = "idle" /\ current_node' = n /\ swap_node' = n /\ UNCHANGED ring
      /\ x_pos' = [x_pos EXCEPT ![n] = v]
  BY DEF Update, v
<1>6. /\ x_pos \in [Nodes -> uint16_t] /\ x_pos' \in [Nodes -> uint16_t] /\ x_pos'[n] = v /\ val' = v
      /\ \A m \in Nodes : m # n => x_pos'[m] = x_pos[m]
      /\ \A m \in Nodes : x_pos[m] \in Nat
      /\ v \in Nat
  <2>1. x_pos \in [Nodes -> uint16_t]
    BY DEF RingInv, TypeOK
  <2>2. uint16_t \subseteq Nat
    BY DEF uint16_t
  <2> QED
    BY <1>4, <1>5, <2>1, <2>2 DEF val
<1>7. \A i, j \in SpritePlaces : i < j => x_pos[q[i]] <= x_pos[q[j]]
  BY <1>1, <1>5 DEF InOrder, Moving
<1>8. \A m \in Sprites : settled[m] = x_pos[m]
  BY <1>5 DEF RingInv, Moving
<1>9. Linked(q)'
  BY <1>1, <1>5 DEF Linked, ring, NodeAt, SpritePlaces, sentinal
<1>10. \A i \in SpritePlaces : i # p => q[i] # n /\ x_pos'[q[i]] = x_pos[q[i]]
  BY <1>2, <1>3, <1>6 DEF Orders
<1>11. /\ Above(n, v) <=> (p > 1 /\ v < x_pos[q[p - 1]])
       /\ Below(n, v) <=> (p < MAX_SPRITES /\ v > x_pos[q[p + 1]])
  BY <1>1, <1>2, <1>3, Neighbours DEF Above, Below
<1>12. /\ p > 1 => p - 1 \in SpritePlaces /\ p - 1 # p
       /\ p < MAX_SPRITES => p + 1 \in SpritePlaces /\ p + 1 # p
  BY <1>3 DEF SpritePlaces
<1>13. ASSUME pc' \in {"up", "down"}, settled' = settled, drawn' = drawn,
              pc' = "up" => Above(n, v), pc' = "down" => Below(n, v)
       PROVE  RingInv' /\ [Order!Next]_(Order!orderVars)
  <2>1. TypeOK'
    BY <1>5, <1>6, <1>13, Zenon DEF RingInv, TypeOK, ring
  <2>2. InOrder(q)'
    <3> SUFFICES ASSUME NEW i \in SpritePlaces, NEW j \in SpritePlaces, i < j, i # p, j # p
                 PROVE  x_pos'[q[i]] <= x_pos'[q[j]]
      BY <1>2, <1>5, <1>13 DEF InOrder, Moving, SpritePlaces
    <3> QED
      BY <1>7, <1>10
  <2>3. Scanned(q)'
    <3>1. \A k \in SpritePlaces : ~(p <= k /\ k < p) /\ ~(p < k /\ k <= p)
      BY <1>3
    <3>2. CASE pc' = "up"
      <4>1. p > 1 /\ val' < x_pos'[q[p - 1]] /\ p <= p
        BY <1>3, <1>6, <1>10, <1>11, <1>12, <1>13, <3>2
      <4> QED
        BY <1>2, <1>5, <3>1, <3>2, <4>1 DEF Scanned, SpritePlaces
    <3>3. CASE pc' = "down"
      <4>1. p < MAX_SPRITES /\ val' > x_pos'[q[p + 1]] /\ p <= p
        BY <1>3, <1>6, <1>10, <1>11, <1>12, <1>13, <3>3
      <4> QED
        BY <1>2, <1>5, <3>1, <3>3, <4>1 DEF Scanned, SpritePlaces
    <3> QED
      BY <1>13, <3>2, <3>3
  <2>4. (\A m \in Sprites : Moving(m) \/ settled[m] = x_pos[m])'
    BY <1>5, <1>6, <1>8, <1>13, SpriteSizes DEF Moving, Sprites
  <2>5. (\E o \in Orders : Linked(o) /\ InOrder(o) /\ Scanned(o))'
    BY <1>9, <2>2, <2>3 DEF Orders, SpritePlaces, Sprites
  <2>6. RingInv'
    BY <1>4, <1>6, <2>1, <2>4, <2>5 DEF RingInv, Keys, Value, Sprites
  <2> QED
    BY <1>1, <1>5, <1>13, <2>6, Stutters
<1>14. ASSUME Settled, ~Above(n, v), ~Below(n, v)
       PROVE  RingInv' /\ [Order!Next]_(Order!orderVars)
  <2>1. pc' = "idle" /\ settled' = [settled EXCEPT ![n] = v] /\ drawn' = <<{}, <<>>>>
    BY <1>5, <1>6, <1>14 DEF Settled
  <2>2. settled \in [Sprites -> uint16_t] /\ settled' \in [Sprites -> uint16_t]
    BY <1>4, <2>1 DEF RingInv, TypeOK
  <2>3. TypeOK'
    <3>1. drawn' \in (SUBSET Sprites) \X Seq(Sprites)
      <4>1. <<>> \in Seq(Sprites)
        OBVIOUS
      <4> QED
        BY <2>1, <4>1
    <3> QED
      BY <1>5, <1>6, <2>1, <2>2, <3>1, Zenon DEF RingInv, TypeOK, ring
  <2>4. \A m \in Sprites : settled'[m] = x_pos'[m]
    BY <1>6, <1>8, <2>1, <2>2, SpriteSizes
  <2>5. ASSUME NEW i \in SpritePlaces, NEW j \in SpritePlaces, i < j PROVE x_pos'[q[i]] <= x_pos'[q[j]]
    <3>1. CASE i # p /\ j # p
      BY <1>7, <1>10, <2>5, <3>1
    <3>2. CASE i = p
      <4>1. p < MAX_SPRITES /\ p + 1 <= j
        BY <1>3, <2>5, <3>2
      <4>2. v <= x_pos[q[p + 1]] /\ x_pos[q[p + 1]] <= x_pos[q[j]]
        BY <1>3, <1>6, <1>7, <1>11, <1>12, <1>14, <4>1
      <4> QED
        BY <1>2, <1>3, <1>6, <1>10, <1>12, <2>5, <3>2, <4>1, <4>2
    <3>3. CASE j = p
      <4>1. p > 1 /\ i <= p - 1
        BY <1>3, <2>5, <3>3
      <4>2. v >= x_pos[q[p - 1]] /\ x_pos[q[i]] <= x_pos[q[p - 1]]
        BY <1>3, <1>6, <1>7, <1>11, <1>12, <1>14, <4>1
      <4> QED
        BY <1>2, <1>3, <1>6, <1>10, <1>12, <2>5, <3>3, <4>1, <4>2
    <3> QED
      BY <3>1, <3>2, <3>3
  <2>6. InOrder(q)' /\ Scanned(q)'
    BY <2>1, <2>5 DEF InOrder, Scanned, SpritePlaces
  <2>7. (\E o \in Orders : Linked(o) /\ InOrder(o) /\ Scanned(o))'
    BY <1>9, <2>6 DEF Orders, SpritePlaces, Sprites
  <2>8. RingInv'
    BY <2>1, <2>3, <2>4, <2>7 DEF RingInv, Sprites
  <2>9. Order!Moved(q, p, p) = q
    <3>1. \A m \in SpritePlaces : From(p, p, m) = m
      BY <1>3 DEF From, SpritePlaces
    <3>2. Order!Moved(q, p, p) \in Orders /\ \A m \in SpritePlaces : Order!Moved(q, p, p)[m] = q[m]
      BY <3>1, MovedOrder
    <3> QED
      BY <3>2 DEF Orders
  <2>10. \A i, j \in SpritePlaces : i < j => settled'[q[i]] <= settled'[q[j]]
    BY <1>3, <2>4, <2>5
  <2>11. Order!Next
    BY <1>1, <1>2, <1>4, <1>9, <2>1, <2>2, <2>9, <2>10, MoveImplements
  <2> QED
    BY <2>8, <2>11
<1> QED
  BY <1>13, <1>14 DEF Update, v

\* What the loops read, by places.
LEMMA LoopFacts ==
    ASSUME RingInv, pc # "idle", NEW q \in Orders, Linked(q), InOrder(q),
           NEW p \in SpritePlaces, q[p] = current_node
    PROVE  /\ \A i \in SpritePlaces : x_pos[q[i]] \in Nat /\ q[i] \in Sprites
           /\ val = x_pos[q[p]] /\ val \in Nat
           /\ \A i, j \in SpritePlaces : i < j /\ i # p /\ j # p => x_pos[q[i]] <= x_pos[q[j]]
<1>1. x_pos \in [Nodes -> uint16_t] /\ uint16_t \subseteq Nat
  BY DEF RingInv, TypeOK, uint16_t
<1>2. \A i \in SpritePlaces : x_pos[q[i]] \in Nat /\ q[i] \in Sprites
  BY <1>1, SpriteSizes DEF Orders
<1>3. \A i \in SpritePlaces : i # p => ~Moving(q[i])
  BY DEF Moving, Orders
<1> QED
  BY <1>2, <1>3 DEF InOrder, val

LEMMA UpStep ==
    ASSUME RingInv, Up
    PROVE  RingInv' /\ UNCHANGED Order!orderVars
<1>1. PICK q \in Orders : Linked(q) /\ InOrder(q) /\ Scanned(q)
  BY DEF RingInv
<1>2. /\ pc = "up" /\ pc' = pc /\ swap_node' = prev[swap_node] /\ Above(swap_node, val)
      /\ UNCHANGED <<x_pos, current_node, settled, drawn>> /\ UNCHANGED ring
  BY DEF Up
<1>3. PICK p \in SpritePlaces, s \in SpritePlaces :
        /\ q[p] = current_node /\ q[s] = swap_node /\ s <= p
        /\ p > 1 /\ val < x_pos[q[p - 1]]
        /\ \A k \in SpritePlaces : s <= k /\ k < p => val < x_pos[q[k]]
  BY <1>1, <1>2 DEF Scanned
<1>4. s > 1 /\ s - 1 \in SpritePlaces /\ swap_node' = q[s - 1] /\ val < x_pos[q[s - 1]]
  <2>1. s >= 1
    BY DEF SpritePlaces
  <2> QED
    BY <1>1, <1>2, <1>3, <2>1, Neighbours DEF Above, SpritePlaces
<1>5. val' = val
  BY <1>2 DEF val
<1>6. InOrder(q)' /\ \A n \in Sprites : Moving(n)' <=> Moving(n)
  BY <1>1, <1>2 DEF InOrder, Moving, SpritePlaces
<1>7. Scanned(q)'
  <2>1. s - 1 <= p /\ \A k \in SpritePlaces : s - 1 <= k /\ k < p => k = s - 1 \/ s <= k
    BY <1>3 DEF SpritePlaces
  <2>2. \A k \in SpritePlaces : s - 1 <= k /\ k < p => val < x_pos[q[k]]
    BY <1>3, <1>4, <2>1
  <2> QED
    BY <1>2, <1>3, <1>4, <1>5, <2>1, <2>2 DEF Scanned, SpritePlaces
<1>8. Linked(q)' /\ UNCHANGED Order!orderVars
  BY <1>1, <1>2, Stutters
<1>9. TypeOK'
  <2>1. swap_node' \in Sprites
    BY <1>4 DEF Orders
  <2> QED
    BY <1>2, <2>1, Zenon DEF RingInv, TypeOK, ring
<1>10. (\E o \in Orders : Linked(o) /\ InOrder(o) /\ Scanned(o))'
  BY <1>6, <1>7, <1>8 DEF Orders, SpritePlaces, Sprites
<1>11. val' \in Keys
  BY <1>2, <1>5 DEF RingInv
<1>12. \A n \in Sprites : Moving(n)' \/ settled'[n] = x_pos'[n]
  BY <1>2, <1>6 DEF RingInv
<1>13. RingInv'
  BY <1>9, <1>10, <1>11, <1>12 DEF RingInv, Keys, Value, Sprites
<1> QED
  BY <1>8, <1>13

LEMMA DownStep ==
    ASSUME RingInv, Down
    PROVE  RingInv' /\ UNCHANGED Order!orderVars
<1>1. PICK q \in Orders : Linked(q) /\ InOrder(q) /\ Scanned(q)
  BY DEF RingInv
<1>2. /\ pc = "down" /\ pc' = pc /\ swap_node' = next[swap_node] /\ Below(swap_node, val)
      /\ UNCHANGED <<x_pos, current_node, settled, drawn>> /\ UNCHANGED ring
  BY DEF Down
<1>3. PICK p \in SpritePlaces, s \in SpritePlaces :
        /\ q[p] = current_node /\ q[s] = swap_node /\ p <= s
        /\ p < MAX_SPRITES /\ val > x_pos[q[p + 1]]
        /\ \A k \in SpritePlaces : p < k /\ k <= s => val > x_pos[q[k]]
  BY <1>1, <1>2 DEF Scanned
<1>4. s < MAX_SPRITES /\ s + 1 \in SpritePlaces /\ swap_node' = q[s + 1] /\ val > x_pos[q[s + 1]]
  <2>1. s <= MAX_SPRITES /\ MAX_SPRITES \in Nat
    BY SpriteSizes DEF SpritePlaces
  <2> QED
    BY <1>1, <1>2, <1>3, <2>1, Neighbours DEF Below, SpritePlaces
<1>5. val' = val
  BY <1>2 DEF val
<1>6. InOrder(q)' /\ \A n \in Sprites : Moving(n)' <=> Moving(n)
  BY <1>1, <1>2 DEF InOrder, Moving, SpritePlaces
<1>7. Scanned(q)'
  <2>1. p <= s + 1 /\ \A k \in SpritePlaces : p < k /\ k <= s + 1 => k = s + 1 \/ k <= s
    BY <1>3 DEF SpritePlaces
  <2>2. \A k \in SpritePlaces : p < k /\ k <= s + 1 => val > x_pos[q[k]]
    BY <1>3, <1>4, <2>1
  <2> QED
    BY <1>2, <1>3, <1>4, <1>5, <2>1, <2>2 DEF Scanned, SpritePlaces
<1>8. Linked(q)' /\ UNCHANGED Order!orderVars
  BY <1>1, <1>2, Stutters
<1>9. TypeOK'
  <2>1. swap_node' \in Sprites
    BY <1>4 DEF Orders
  <2> QED
    BY <1>2, <2>1, Zenon DEF RingInv, TypeOK, ring
<1>10. (\E o \in Orders : Linked(o) /\ InOrder(o) /\ Scanned(o))'
  BY <1>6, <1>7, <1>8 DEF Orders, SpritePlaces, Sprites
<1>11. val' \in Keys
  BY <1>2, <1>5 DEF RingInv
<1>12. \A n \in Sprites : Moving(n)' \/ settled'[n] = x_pos'[n]
  BY <1>2, <1>6 DEF RingInv
<1>13. RingInv'
  BY <1>9, <1>10, <1>11, <1>12 DEF RingInv, Keys, Value, Sprites
<1> QED
  BY <1>8, <1>13

\* The end of either loop: the sprite at p moves to s, where it is in order.
LEMMA MovedStep ==
    ASSUME RingInv, pc # "idle", NEW q \in Orders, Linked(q), InOrder(q),
           NEW p \in SpritePlaces, NEW s \in SpritePlaces, s # p, q[p] = current_node,
           MoveAfter(q[p], NodeAt(q, IF s < p THEN s - 1 ELSE s)),
           UNCHANGED <<x_pos, current_node, swap_node>>, NewHead, Settled,
           \A k \in SpritePlaces : From(p, s, k) # p => IF k < s THEN x_pos[q[From(p, s, k)]] <= val
                                                          ELSE val <= x_pos[q[From(p, s, k)]]
    PROVE  RingInv' /\ Order!Next
<1> DEFINE r == Order!Moved(q, p, s)
<1>1. /\ r \in Orders
      /\ \A m \in SpritePlaces : From(p, s, m) \in SpritePlaces /\ r[m] = q[From(p, s, m)]
  BY MovedOrder
<1>2. next' \in [Nodes -> Nodes] /\ prev' \in [Nodes -> Nodes] /\ Linked(r)'
  BY MoveLinks DEF RingInv, TypeOK
<1> HIDE DEF r
<1>3. /\ \A i \in SpritePlaces : x_pos[q[i]] \in Nat /\ q[i] \in Sprites
      /\ val = x_pos[q[p]] /\ val \in Nat
      /\ \A i, j \in SpritePlaces : i < j /\ i # p /\ j # p => x_pos[q[i]] <= x_pos[q[j]]
  BY LoopFacts
<1>4. /\ pc' = "idle" /\ settled' = [settled EXCEPT ![current_node] = val]
      /\ drawn' = <<{}, <<>>>> /\ x_pos' = x_pos /\ current_node' = current_node
      /\ swap_node' = swap_node
  BY DEF Settled, val
<1>5. /\ current_node \in Sprites /\ settled \in [Sprites -> uint16_t] /\ val \in Keys
      /\ val \in uint16_t
  BY KeysTyped DEF RingInv, TypeOK
<1>6. \A m \in Sprites : settled'[m] = x_pos'[m]
  <2>1. \A m \in Sprites : m # current_node => settled[m] = x_pos[m]
    BY DEF RingInv, Moving
  <2> QED
    BY <1>3, <1>4, <1>5, <2>1
<1>7. ASSUME NEW i \in SpritePlaces, NEW j \in SpritePlaces, i < j PROVE x_pos[r[i]] <= x_pos[r[j]]
  <2>1. /\ From(p, s, i) = p <=> i = s
        /\ From(p, s, j) = p <=> j = s
        /\ i # s /\ j # s => From(p, s, i) < From(p, s, j)
    BY <1>7 DEF From, SpritePlaces
  <2>2. CASE i # s /\ j # s
    BY <1>1, <1>3, <2>1, <2>2
  <2>3. CASE i = s
    <3>1. ~(j < s) /\ j # s
      BY <1>7, <2>3 DEF SpritePlaces
    <3> QED
      BY <1>1, <1>3, <2>1, <2>3, <3>1
  <2>4. CASE j = s
    <3>1. i < s /\ i # s
      BY <1>7, <2>4 DEF SpritePlaces
    <3> QED
      BY <1>1, <1>3, <2>1, <2>4, <3>1
  <2> QED
    BY <2>2, <2>3, <2>4
<1>8. InOrder(r)' /\ Scanned(r)'
  BY <1>4, <1>7 DEF InOrder, Scanned, SpritePlaces
<1>9. TypeOK'
  <2>1. drawn' \in (SUBSET Sprites) \X Seq(Sprites)
    <3>1. <<>> \in Seq(Sprites)
      OBVIOUS
    <3> QED
      BY <1>4, <3>1
  <2>2. head_ptr' \in Sprites
    BY <1>4, <1>5 DEF NewHead, RingInv, TypeOK
  <2>3. settled' \in [Sprites -> uint16_t]
    BY <1>4, <1>5
  <2> QED
    BY <1>2, <1>4, <2>1, <2>2, <2>3, Zenon DEF RingInv, TypeOK
<1>10. (\E o \in Orders : Linked(o) /\ InOrder(o) /\ Scanned(o))'
  BY <1>1, <1>2, <1>8 DEF Orders, SpritePlaces, Sprites
<1>11. RingInv'
  BY <1>4, <1>6, <1>9, <1>10 DEF RingInv, Sprites
<1>12. Order!Next
  <2>1. \A i, j \in SpritePlaces : i < j => settled'[r[i]] <= settled'[r[j]]
    <3>1. \A i \in SpritePlaces : r[i] \in Sprites
      BY <1>1 DEF Orders
    <3> QED
      BY <1>4, <1>6, <1>7, <3>1
  <2> QED
    BY <1>2, <1>4, <1>5, <2>1, MoveImplements DEF r
<1> QED
  BY <1>11, <1>12

LEMMA MoveUpStep ==
    ASSUME RingInv, MoveUp
    PROVE  RingInv' /\ Order!Next
<1>1. PICK q \in Orders : Linked(q) /\ InOrder(q) /\ Scanned(q)
  BY DEF RingInv
<1>2. /\ pc = "up" /\ ~Above(swap_node, val) /\ MoveAfter(current_node, prev[swap_node])
      /\ UNCHANGED <<x_pos, current_node, swap_node>> /\ NewHead /\ Settled
  BY DEF MoveUp
<1>3. PICK p \in SpritePlaces, s \in SpritePlaces :
        /\ q[p] = current_node /\ q[s] = swap_node /\ s <= p
        /\ p > 1 /\ val < x_pos[q[p - 1]]
        /\ \A k \in SpritePlaces : s <= k /\ k < p => val < x_pos[q[k]]
  BY <1>1, <1>2 DEF Scanned
<1>4. /\ \A i \in SpritePlaces : x_pos[q[i]] \in Nat /\ q[i] \in Sprites
      /\ val \in Nat
      /\ \A i, j \in SpritePlaces : i < j /\ i # p /\ j # p => x_pos[q[i]] <= x_pos[q[j]]
  BY <1>1, <1>2, <1>3, LoopFacts
<1>5. /\ p \in Nat /\ s \in Nat /\ MAX_SPRITES \in Nat /\ s >= 1
      /\ \A m \in Nat : m \in SpritePlaces <=> (1 <= m /\ m <= MAX_SPRITES)
      /\ SpritePlaces \subseteq Nat
  BY SpriteSizes DEF SpritePlaces
<1>6. s < p
  <2>1. s = p => Above(swap_node, val)
    BY <1>1, <1>3, <1>5, Neighbours DEF Above
  <2> QED
    BY <1>2, <1>3, <1>5, <2>1
<1>7. s > 1 => s - 1 \in SpritePlaces /\ x_pos[q[s - 1]] <= val
  BY <1>1, <1>2, <1>3, <1>4, <1>5, Neighbours DEF Above
<1>8. prev[swap_node] = NodeAt(q, IF s < p THEN s - 1 ELSE s)
  <2>1. s - 1 \in 0 .. MAX_SPRITES /\ s - 1 + 1 = s
    BY <1>5
  <2>2. prev[NodeAt(q, s - 1 + 1)] = NodeAt(q, s - 1) /\ NodeAt(q, s) = q[s]
    BY <1>1, <2>1, NodesAt DEF Linked
  <2> QED
    BY <1>3, <1>6, <2>1, <2>2
<1>9. ASSUME NEW k \in SpritePlaces, From(p, s, k) # p
      PROVE  IF k < s THEN x_pos[q[From(p, s, k)]] <= val ELSE val <= x_pos[q[From(p, s, k)]]
  <2>1. CASE k < s
    <3>1. From(p, s, k) = k /\ (k = s - 1 \/ k < s - 1) /\ s > 1 /\ s - 1 # p /\ k # p
      BY <1>5, <1>6, <2>1 DEF From
    <3> QED
      BY <1>4, <1>7, <2>1, <3>1
  <2>2. CASE s < k /\ k <= p
    <3>1. From(p, s, k) = k - 1 /\ k - 1 \in SpritePlaces /\ s <= k - 1 /\ k - 1 < p /\ ~(k < s)
      BY <1>5, <2>2 DEF From
    <3> QED
      BY <1>3, <1>4, <3>1
  <2>3. CASE k > p
    <3>1. From(p, s, k) = k /\ p - 1 \in SpritePlaces /\ p - 1 < k /\ p - 1 # p /\ k # p /\ ~(k < s)
      BY <1>3, <1>5, <1>6, <2>3 DEF From
    <3>2. x_pos[q[p - 1]] <= x_pos[q[k]]
      BY <1>4, <3>1
    <3> QED
      BY <1>3, <1>4, <3>1, <3>2
  <2>4. k # s
    BY <1>9 DEF From
  <2> QED
    <3>1. k < s \/ (s < k /\ k <= p) \/ k > p
      BY <1>5, <2>4
    <3> QED
      BY <2>1, <2>2, <2>3, <3>1, Zenon
<1> QED
  BY <1>1, <1>2, <1>3, <1>5, <1>6, <1>8, <1>9, MovedStep

LEMMA MoveDownStep ==
    ASSUME RingInv, MoveDown
    PROVE  RingInv' /\ Order!Next
<1>1. PICK q \in Orders : Linked(q) /\ InOrder(q) /\ Scanned(q)
  BY DEF RingInv
<1>2. /\ pc = "down" /\ ~Below(swap_node, val) /\ MoveAfter(current_node, swap_node)
      /\ UNCHANGED <<x_pos, current_node, swap_node>> /\ NewHead /\ Settled
  BY DEF MoveDown
<1>3. PICK p \in SpritePlaces, s \in SpritePlaces :
        /\ q[p] = current_node /\ q[s] = swap_node /\ p <= s
        /\ p < MAX_SPRITES /\ val > x_pos[q[p + 1]]
        /\ \A k \in SpritePlaces : p < k /\ k <= s => val > x_pos[q[k]]
  BY <1>1, <1>2 DEF Scanned
<1>4. /\ \A i \in SpritePlaces : x_pos[q[i]] \in Nat /\ q[i] \in Sprites
      /\ val \in Nat
      /\ \A i, j \in SpritePlaces : i < j /\ i # p /\ j # p => x_pos[q[i]] <= x_pos[q[j]]
  BY <1>1, <1>2, <1>3, LoopFacts
<1>5. /\ p \in Nat /\ s \in Nat /\ MAX_SPRITES \in Nat /\ s >= 1 /\ s <= MAX_SPRITES
      /\ \A m \in Nat : m \in SpritePlaces <=> (1 <= m /\ m <= MAX_SPRITES)
      /\ SpritePlaces \subseteq Nat
  BY SpriteSizes DEF SpritePlaces
<1>6. p < s
  <2>1. s = p => Below(swap_node, val)
    BY <1>1, <1>3, <1>5, Neighbours DEF Below
  <2> QED
    BY <1>2, <1>3, <1>5, <2>1
<1>7. s < MAX_SPRITES => s + 1 \in SpritePlaces /\ val <= x_pos[q[s + 1]]
  BY <1>1, <1>2, <1>3, <1>4, <1>5, Neighbours DEF Below
<1>8. swap_node = NodeAt(q, IF s < p THEN s - 1 ELSE s)
  BY <1>3, <1>5, <1>6, NodesAt
<1>9. ASSUME NEW k \in SpritePlaces, From(p, s, k) # p
      PROVE  IF k < s THEN x_pos[q[From(p, s, k)]] <= val ELSE val <= x_pos[q[From(p, s, k)]]
  <2>1. CASE k > s
    <3>1. /\ From(p, s, k) = k /\ (k = s + 1 \/ s + 1 < k) /\ s < MAX_SPRITES /\ s + 1 # p /\ k # p
          /\ ~(k < s)
      BY <1>5, <1>6, <2>1 DEF From
    <3> QED
      BY <1>4, <1>7, <2>1, <3>1
  <2>2. CASE p <= k /\ k < s
    <3>1. From(p, s, k) = k + 1 /\ k + 1 \in SpritePlaces /\ k + 1 <= s /\ p < k + 1
      BY <1>5, <2>2 DEF From
    <3> QED
      BY <1>3, <1>4, <2>2, <3>1
  <2>3. CASE k < p
    <3>1. From(p, s, k) = k /\ p + 1 \in SpritePlaces /\ k < p + 1 /\ p + 1 # p /\ k # p /\ k < s
      BY <1>3, <1>5, <1>6, <2>3 DEF From
    <3>2. x_pos[q[k]] <= x_pos[q[p + 1]]
      BY <1>4, <3>1
    <3> QED
      BY <1>3, <1>4, <3>1, <3>2
  <2>4. k # s
    BY <1>9 DEF From
  <2> QED
    <3>1. k > s \/ (p <= k /\ k < s) \/ k < p
      BY <1>5, <2>4
    <3> QED
      BY <2>1, <2>2, <2>3, <3>1, Zenon
<1> QED
  BY <1>1, <1>2, <1>3, <1>5, <1>6, <1>8, <1>9, MovedStep

-----------------------------------------------------------------------------
(* The order of the sprites: rows                                          *)

Takes(nos, n, line) == IF n \in line /\ Len(nos) < Limit THEN Append(nos, n) ELSE nos
IsPick(s, line, n, g) == g = [i \in 0 .. n |-> IF i = 0 THEN <<>> ELSE Takes(g[i - 1], s[i], line)]

\* The loop of draw_sprite_row defines a function.
LEMMA PickExists ==
    ASSUME NEW s, NEW line, NEW n \in Nat
    PROVE  \E g : IsPick(s, line, n, g)
<1> DEFINE S == {m \in Nat : \E g : IsPick(s, line, m, g)}
<1>1. 0 \in S
  <2> DEFINE g == [i \in 0 .. 0 |-> <<>>]
  <2>1. g = [i \in 0 .. 0 |-> IF i = 0 THEN <<>> ELSE Takes(g[i - 1], s[i], line)]
    OBVIOUS
  <2> QED
    BY <2>1 DEF IsPick
<1>2. ASSUME NEW m \in Nat, m \in S PROVE m + 1 \in S
  <2>1. PICK g : IsPick(s, line, m, g)
    BY <1>2
  <2> DEFINE h == [i \in 0 .. m + 1 |-> IF i = m + 1 THEN Takes(g[m], s[m + 1], line) ELSE g[i]]
             F(i) == IF i = 0 THEN <<>> ELSE Takes(h[i - 1], s[i], line)
  <2>2. ASSUME NEW i \in 0 .. m + 1 PROVE h[i] = F(i)
    <3>1. CASE i = m + 1
      <4>1. h[i] = Takes(g[m], s[m + 1], line) /\ i - 1 = m /\ i # 0 /\ h[m] = g[m]
        BY <3>1
      <4> QED
        BY <3>1, <4>1
    <3>2. CASE i # m + 1
      <4>1. i \in 0 .. m
        BY <3>2
      <4>2. h[i] = g[i] /\ g[i] = IF i = 0 THEN <<>> ELSE Takes(g[i - 1], s[i], line)
        BY <2>1, <3>2, <4>1 DEF IsPick
      <4>3. i # 0 => h[i - 1] = g[i - 1]
        BY <4>1
      <4> QED
        BY <4>2, <4>3
    <3> QED
      BY <3>1, <3>2
  <2>3. h = [i \in 0 .. m + 1 |-> h[i]]
    OBVIOUS
  <2> HIDE DEF h
  <2>4. h = [i \in 0 .. m + 1 |-> F(i)]
    BY <2>2, <2>3
  <2>5. IsPick(s, line, m + 1, h)
    BY <2>4 DEF IsPick
  <2> QED
    BY <2>5
<1> HIDE DEF S
<1>3. Nat \subseteq S
  BY <1>1, <1>2, SetInduction
<1> QED
  BY <1>3 DEF S

\* Order!Draws up to place e, with the places of the sprites given.
DrawsAt(t, at, q, h, e, line) ==
    /\ at \in [1 .. Len(t) -> h .. e]
    /\ Len(t) <= Limit
    /\ \A i \in 1 .. Len(t) : t[i] = q[at[i]] /\ t[i] \in line
    /\ \A i, j \in 1 .. Len(t) : i < j => at[i] < at[j]
    /\ \A m \in h .. e : \/ q[m] \notin line
                         \/ \E i \in 1 .. Len(t) : at[i] = m
                         \/ Len(t) = Limit /\ \A i \in 1 .. Len(t) : at[i] < m

LEMMA TakesNext ==
    ASSUME NEW q, NEW line, NEW h \in Nat, NEW e \in Int, h <= e + 1, NEW t \in Seq(Sprites), NEW at,
           DrawsAt(t, at, q, h, e, line), q[e + 1] \in Sprites
    PROVE  LET u == Takes(t, q[e + 1], line)
           IN  u \in Seq(Sprites) /\ \E o : DrawsAt(u, o, q, h, e + 1, line)
<1> DEFINE n == q[e + 1]
           u == Takes(t, n, line)
           l == Len(t)
<1>1. l \in Nat /\ Limit \in Nat /\ l <= Limit /\ at \in [1 .. l -> h .. e] /\ e + 1 \in Int
  BY SpriteSizes DEF DrawsAt
<1>2. CASE n \in line /\ l < Limit
  <2> DEFINE o == [i \in 1 .. l + 1 |-> IF i = l + 1 THEN e + 1 ELSE at[i]]
  <2>1. u = Append(t, n)
    BY <1>2 DEF Takes
  <2>2. u \in Seq(Sprites) /\ Len(u) = l + 1 /\ u[l + 1] = n /\ \A i \in 1 .. l : u[i] = t[i]
    BY <2>1, AppendProperties
  <2> HIDE DEF u
  <2>3. o \in [1 .. l + 1 -> h .. e + 1]
    BY <1>1
  <2>4. o[l + 1] = e + 1 /\ \A i \in 1 .. l : o[i] = at[i] /\ at[i] \in h .. e
    BY <1>1
  <2> HIDE DEF o, l
  <2>5. \A i \in 1 .. l + 1 : u[i] = q[o[i]] /\ u[i] \in line
    <3>1. \A i \in 1 .. l + 1 : i = l + 1 \/ i \in 1 .. l
      BY <1>1
    <3>2. \A i \in 1 .. l : t[i] = q[at[i]] /\ t[i] \in line
      BY DEF DrawsAt, l
    <3> QED
      BY <1>2, <2>2, <2>4, <3>1, <3>2
  <2>6. ASSUME NEW i \in 1 .. l + 1, NEW j \in 1 .. l + 1, i < j PROVE o[i] < o[j]
    <3>1. i \in 1 .. l /\ (j = l + 1 \/ j \in 1 .. l)
      BY <1>1, <2>6
    <3>2. \A a, b \in 1 .. l : a < b => at[a] < at[b]
      BY DEF DrawsAt, l
    <3>3. CASE j = l + 1
      BY <1>1, <2>4, <3>1, <3>3
    <3>4. CASE j \in 1 .. l
      BY <2>4, <2>6, <3>1, <3>2, <3>4
    <3> QED
      BY <3>1, <3>3, <3>4
  <2>7. ASSUME NEW m \in h .. e + 1
        PROVE  \/ q[m] \notin line
               \/ \E i \in 1 .. l + 1 : o[i] = m
               \/ l + 1 = Limit /\ \A i \in 1 .. l + 1 : o[i] < m
    <3>1. CASE m = e + 1
      <4>1. l + 1 \in 1 .. l + 1
        BY <1>1
      <4> QED
        BY <2>4, <3>1, <4>1
    <3>2. CASE m # e + 1
      <4>1. m \in h .. e /\ 1 .. l \subseteq 1 .. l + 1 /\ l # Limit
        BY <1>1, <1>2, <3>2
      <4>2. q[m] \notin line \/ \E i \in 1 .. l : at[i] = m
        BY <4>1 DEF DrawsAt, l
      <4> QED
        BY <2>4, <4>1, <4>2
    <3> QED
      BY <3>1, <3>2
  <2>8. DrawsAt(u, o, q, h, e + 1, line)
    <3>1. l + 1 <= Limit
      BY <1>1, <1>2 DEF l
    <3> QED
      BY <2>2, <2>3, <2>5, <2>6, <2>7, <3>1 DEF DrawsAt
  <2> QED
    BY <2>2, <2>8 DEF u
<1>3. CASE ~(n \in line /\ l < Limit)
  <2>1. u = t
    BY <1>3 DEF Takes
  <2>2. at \in [1 .. l -> h .. e + 1]
    <3>1. h .. e \subseteq h .. e + 1
      BY <1>1
    <3> QED
      BY <1>1, <3>1
  <2>3. ASSUME NEW m \in h .. e + 1
        PROVE  \/ q[m] \notin line
               \/ \E i \in 1 .. l : at[i] = m
               \/ l = Limit /\ \A i \in 1 .. l : at[i] < m
    <3>1. CASE m = e + 1
      <4>1. \A i \in 1 .. l : at[i] < e + 1
        BY <1>1
      <4>2. n \notin line \/ l = Limit
        BY <1>1, <1>3
      <4> QED
        BY <3>1, <4>1, <4>2
    <3>2. CASE m # e + 1
      <4>1. m \in h .. e
        BY <1>1, <3>2
      <4> QED
        BY <4>1 DEF DrawsAt
    <3> QED
      BY <3>1, <3>2
  <2>4. DrawsAt(t, at, q, h, e + 1, line)
    BY <2>2, <2>3 DEF DrawsAt
  <2> QED
    BY <2>1, <2>4
<1> QED
  BY <1>2, <1>3

LEMMA PickDraws ==
    ASSUME NEW q \in Orders, NEW h \in SpritePlaces, NEW line
    PROVE  LET s == [i \in 1 .. MAX_SPRITES - h + 1 |-> q[h + i - 1]]
           IN  /\ Picked(s, line) \in Seq(Sprites)
               /\ Order!Draws(Picked(s, line), q, h, line)
<1> DEFINE n == MAX_SPRITES - h + 1
           s == [i \in 1 .. n |-> q[h + i - 1]]
           g == CHOOSE f : IsPick(s, line, n, f)
           c == CHOOSE f : f = [i \in 0 .. n |-> IF i = 0 THEN <<>>
                                 ELSE IF s[i] \in line /\ Len(f[i - 1]) < Limit
                                      THEN Append(f[i - 1], s[i]) ELSE f[i - 1]]
<1>1. h \in Nat /\ n \in Nat /\ MAX_SPRITES \in Nat /\ h + n - 1 = MAX_SPRITES
      /\ \A i \in 1 .. n : h + i - 1 \in SpritePlaces
  BY SpriteSizes DEF SpritePlaces
<1>2. Len(s) = n
  BY <1>1
<1>3. Picked(s, line) = c[n]
  BY <1>2, Zenon DEF Picked
<1>4. c = g
  BY DEF IsPick, Takes
<1> HIDE DEF n, c, g
<1>5. IsPick(s, line, n, g)
  BY <1>1, PickExists DEF g
<1> DEFINE S == {k \in Nat : k <= n => /\ g[k] \in Seq(Sprites)
                                       /\ \E at : DrawsAt(g[k], at, q, h, h + k - 1, line)}
<1>6. 0 \in S
  <2>1. g[0] = <<>>
    BY <1>1, <1>5 DEF IsPick
  <2>2. <<>> \in Seq(Sprites) /\ Len(<<>>) = 0 /\ 1 .. 0 = {} /\ h + 0 - 1 = h - 1 /\ h .. h - 1 = {}
    BY <1>1
  <2> DEFINE at == [i \in 1 .. 0 |-> h]
  <2>3. at \in [1 .. 0 -> h .. h - 1]
    BY <2>2
  <2>4. DrawsAt(<<>>, at, q, h, h - 1, line)
    BY <2>2, <2>3, SpriteSizes DEF DrawsAt
  <2> QED
    BY <2>1, <2>2, <2>4
<1>7. ASSUME NEW k \in Nat, k \in S PROVE k + 1 \in S
  <2> SUFFICES ASSUME k + 1 <= n
               PROVE  /\ g[k + 1] \in Seq(Sprites)
                      /\ \E at : DrawsAt(g[k + 1], at, q, h, h + (k + 1) - 1, line)
    OBVIOUS
  <2>1. k <= n /\ k + 1 \in 0 .. n /\ k + 1 \in 1 .. n /\ k + 1 # 0 /\ k + 1 - 1 = k
        /\ h + (k + 1) - 1 = h + k - 1 + 1 /\ h + k - 1 \in Int /\ h <= h + k - 1 + 1
    BY <1>1
  <2>2. PICK at : DrawsAt(g[k], at, q, h, h + k - 1, line)
    BY <1>7, <2>1
  <2>3. g[k] \in Seq(Sprites)
    BY <1>7, <2>1
  <2>4. s[k + 1] = q[h + (k + 1) - 1] /\ q[h + (k + 1) - 1] \in Sprites
    BY <1>1, <2>1 DEF Orders
  <2>5. g[k + 1] = Takes(g[k], q[h + k - 1 + 1], line)
    <3>1. q[h + k - 1 + 1] = s[k + 1]
      BY <2>1, <2>4
    <3> HIDE DEF s
    <3>2. g = [i \in 0 .. n |-> IF i = 0 THEN <<>> ELSE Takes(g[i - 1], s[i], line)]
      BY <1>5 DEF IsPick
    <3>3. g[k + 1] = IF k + 1 = 0 THEN <<>> ELSE Takes(g[k + 1 - 1], s[k + 1], line)
      <4> DEFINE e == k + 1
      <4>1. e \in 0 .. n
        BY <2>1
      <4> HIDE DEF e
      <4>2. g[e] = IF e = 0 THEN <<>> ELSE Takes(g[e - 1], s[e], line)
        BY <3>2, <4>1
      <4> QED
        BY <4>2 DEF e
    <3>4. g[k + 1] = Takes(g[k], s[k + 1], line)
      BY <2>1, <3>3, Zenon
    <3> QED
      BY <3>1, <3>4, Zenon
  <2> QED
    BY <1>1, <2>1, <2>2, <2>3, <2>4, <2>5, TakesNext
<1> HIDE DEF S
<1>8. Nat \subseteq S
  BY <1>6, <1>7, SetInduction
<1>9. g[n] \in Seq(Sprites) /\ \E at : DrawsAt(g[n], at, q, h, MAX_SPRITES, line)
  <2>1. n \in S /\ n <= n
    BY <1>1, <1>8
  <2>2. g[n] \in Seq(Sprites) /\ \E at : DrawsAt(g[n], at, q, h, h + n - 1, line)
    BY <2>1, Zenon DEF S
  <2> QED
    BY <1>1, <2>2, Zenon
<1>10. Len(q) = MAX_SPRITES
  BY <1>1 DEF Orders, SpritePlaces
<1>11. DOMAIN g[n] = 1 .. Len(g[n])
  BY <1>9
<1>12. Order!Draws(g[n], q, h, line)
  BY <1>9, <1>10, <1>11 DEF Order!Draws, DrawsAt
<1> QED
  BY <1>3, <1>4, <1>9, <1>12 DEF n

LEMMA DrawRowStep ==
    ASSUME RingInv, NEW line \in SUBSET Sprites, DrawRow(line)
    PROVE  RingInv' /\ Order!Next
<1>1. PICK q \in Orders : Linked(q) /\ InOrder(q) /\ Scanned(q)
  BY DEF RingInv
<1>2. /\ drawn' = <<line, Picked(Listed(head_ptr), line)>>
      /\ UNCHANGED <<x_pos, pc, current_node, swap_node, settled>> /\ UNCHANGED ring
  BY DEF DrawRow
<1>3. PICK h \in SpritePlaces : q[h] = head_ptr
  BY DEF RingInv, TypeOK, Orders
<1> DEFINE d == Picked(Listed(head_ptr), line)
<1>4. d \in Seq(Sprites) /\ Order!Draws(d, q, h, line)
  BY <1>1, <1>3, ListedFrom, PickDraws
<1> HIDE DEF d
<1>5. drawn' = <<line, d>> /\ drawn'[1] = line /\ drawn'[2] = d
  BY <1>2 DEF d
<1>6. Listed(First) = q /\ Listed(First)' = Listed(First) /\ DOMAIN q = SpritePlaces
  <2>1. Listed(First) = q
    BY <1>1, RingListed
  <2>2. Listed(First)' = Listed(First)
    <3>1. QueueIs'
      BY QueueAlwaysIs, PTL
    <3>2. Linked(q)' /\ Orders' = Orders
      BY <1>1, <1>2 DEF Linked, ring, NodeAt, SpritePlaces, sentinal, Orders, Sprites
    <3> QED
      BY <2>1, <3>1, <3>2 DEF QueueIs
  <2> QED
    BY <2>1, <2>2 DEF Orders
<1>7. Order!Next
  <2>1. \E i \in DOMAIN Listed(First) : Order!Draws(drawn'[2], Listed(First), i, drawn'[1])
    BY <1>4, <1>5, <1>6
  <2> QED
    BY <1>2, <1>5, <1>6, <2>1 DEF Order!Next, Order!DrawRow
<1>8. RingInv'
  <2>1. Linked(q)' /\ InOrder(q)' /\ Scanned(q)'
    BY <1>1, <1>2 DEF Linked, InOrder, Scanned, ring, NodeAt, SpritePlaces, sentinal, Moving, val
  <2>2. drawn' \in (SUBSET Sprites) \X Seq(Sprites)
    BY <1>4, <1>5
  <2>3. TypeOK'
    BY <1>2, <2>2, Zenon DEF RingInv, TypeOK, ring
  <2>4. (\E o \in Orders : Linked(o) /\ InOrder(o) /\ Scanned(o))'
    BY <2>1 DEF Orders, SpritePlaces, Sprites
  <2>5. (pc # "idle" => val \in Keys)' /\ (\A n \in Sprites : Moving(n) \/ settled[n] = x_pos[n])'
    BY <1>2 DEF RingInv, val, Moving, Keys, Value, Sprites
  <2> QED
    BY <2>3, <2>4, <2>5 DEF RingInv
<1> QED
  BY <1>7, <1>8

-----------------------------------------------------------------------------
(* The order of the sprites: the theorem                                   *)

LEMMA RingStep == RingInv /\ [Next]_vars => RingInv' /\ [Order!Next]_(Order!orderVars)
<1> SUFFICES ASSUME RingInv, [Next]_vars PROVE RingInv' /\ [Order!Next]_(Order!orderVars)
  OBVIOUS
<1>1. CASE UNCHANGED vars
  <2>1. PICK q \in Orders : Linked(q) /\ InOrder(q) /\ Scanned(q)
    BY DEF RingInv
  <2>2. UNCHANGED Order!orderVars
    BY <1>1, <2>1, Stutters DEF vars
  <2>3. TypeOK'
    BY <1>1, Zenon DEF RingInv, TypeOK, vars, ring
  <2>4. (\E o \in Orders : Linked(o) /\ InOrder(o) /\ Scanned(o))'
    <3>1. Linked(q)' /\ InOrder(q)' /\ Scanned(q)'
      BY <1>1, <2>1 DEF Linked, InOrder, Scanned, vars, ring, NodeAt, SpritePlaces, sentinal, Moving, val
    <3> QED
      BY <3>1 DEF Orders, SpritePlaces, Sprites
  <2>5. (pc # "idle" => val \in Keys)' /\ (\A n \in Sprites : Moving(n) \/ settled[n] = x_pos[n])'
    BY <1>1 DEF RingInv, val, Moving, Keys, Value, Sprites, vars
  <2> QED
    BY <2>2, <2>3, <2>4, <2>5 DEF RingInv
<1>2. ASSUME NEW n \in Sprites, NEW x \in Xs, Update(n, x)
      PROVE  RingInv' /\ [Order!Next]_(Order!orderVars)
  BY <1>2, UpdateStep
<1>3. CASE Loops
  BY <1>3, UpStep, DownStep, MoveUpStep, MoveDownStep DEF Loops
<1>4. ASSUME NEW line \in SUBSET Sprites, DrawRow(line)
      PROVE  RingInv' /\ [Order!Next]_(Order!orderVars)
  BY <1>4, DrawRowStep
<1> QED
  BY <1>1, <1>2, <1>3, <1>4 DEF Next

\* The invariant and the properties.
LEMMA RingTells == RingInv => TypeOK /\ OneRing /\ Sorted
<1> SUFFICES ASSUME RingInv PROVE TypeOK /\ OneRing /\ Sorted
  OBVIOUS
<1>1. PICK q \in Orders : Linked(q) /\ InOrder(q)
  BY DEF RingInv
<1>2. Sorted
  <2> SUFFICES ASSUME NEW n \in Sprites, next[n] # sentinal, ~Moving(n), ~Moving(next[n])
               PROVE  x_pos[n] <= x_pos[next[n]]
    BY DEF Sorted, Moving
  <2>1. PICK i \in SpritePlaces : q[i] = n
    BY DEF Orders
  <2>2. i < MAX_SPRITES \/ i = MAX_SPRITES
    BY SpriteSizes DEF SpritePlaces
  <2>3. i + 1 \in SpritePlaces /\ next[n] = q[i + 1] /\ i < i + 1
    BY <1>1, <2>1, <2>2, Neighbours DEF SpritePlaces
  <2> QED
    BY <1>1, <2>1, <2>3 DEF InOrder
<1> QED
  BY <1>1, <1>2, RingListed DEF RingInv

\* The nodes are always one ring in the order of the keys, whichever sprites are moved
\* where and in whatever order; the splices implement the queue of SpriteOrder, and a row
\* draws the first sprites of it that it meets from the head on.
THEOREM OrderIsExact == Spec => OrderExact
<1>1. RingInv /\ [Next]_vars => (vars' = vars \/ [Order!Next]_(Order!orderVars))
  BY RingStep
<1> QED
  BY <1>1, RingStart, RingStep, RingTells, PTL DEF Spec, OrderExact

-----------------------------------------------------------------------------
(* A row of the screen: tiles                                              *)

LEMMA RowSizes ==
    /\ Tile \in Nat \ {0} /\ MapTiles \in Nat \ {0} /\ MapSize \in Nat \ {0}
    /\ MapSize = MapTiles * Tile /\ Width \in Nat \ {0}
    /\ Row \in Nat /\ RowLimit \in Nat
<1>1. Tile \in Nat \ {0} /\ MapTiles \in Nat \ {0} /\ Width \in Nat \ {0} /\ Row \in Nat /\ RowLimit \in Nat
  BY RendererAssumption
<1>2. \A a, b \in Nat \ {0} : a * b \in Nat \ {0} /\ a * b = b * a
  OBVIOUS
<1> QED
  BY <1>1, <1>2 DEF MapSize

\* The tile of a place and the place in the tile, of a plane of m tiles that repeats.
LEMMA TileOfPlace ==
    ASSUME NEW t \in Nat \ {0}, NEW m \in Nat \ {0}, NEW a \in Nat
    PROVE  /\ (a % (m * t)) % t = a % t
           /\ ((a - (a % t)) % (m * t)) \div t = (a % (m * t)) \div t
           /\ a - (a % t) \in Nat
<1> DEFINE w == m * t
           q == a \div w
           x == a % w
           k == x \div t
           s == x % t
<1>1. w \in Nat \ {0}
  OBVIOUS
<1>2. q \in Nat /\ x \in 0 .. w - 1 /\ a = q * w + x
  <2> HIDE DEF w
  <2> QED
    BY <1>1, Division
<1> HIDE DEF q, x
<1>3. k \in Nat /\ s \in 0 .. t - 1 /\ x = k * t + s
  <2>1. x \in Nat
    BY <1>1, <1>2
  <2> QED
    BY <2>1, Division
<1> HIDE DEF k, s
<1>4. k \in 0 .. m - 1
  <2>1. k >= m => k * t >= m * t
    BY <1>3
  <2>2. k * t \in Nat /\ m * t \in Nat
    BY <1>3
  <2> QED
    BY <1>2, <1>3, <2>1, <2>2
<1>5. k * t \in 0 .. w - 1 /\ q * w \in Nat
  <2>1. k * t \in Nat /\ w \in Nat /\ q * w \in Nat
    BY <1>1, <1>2, <1>3
  <2> HIDE DEF w
  <2> QED
    BY <1>2, <1>3, <2>1
<1>6. a % t = s /\ a - s = q * w + k * t
  <2> DEFINE j == q * m + k
  <2>1. j \in Nat /\ j * t = q * w + k * t
    BY <1>2, <1>3
  <2> HIDE DEF j
  <2>2. (j * t + s) % t = s
    BY <1>3, <2>1, DivisionUnique
  <2>3. a = j * t + s
    BY <1>2, <1>3, <1>5, <2>1
  <2> QED
    BY <1>2, <1>3, <1>5, <2>1, <2>2, <2>3
<1>7. (a - s) % w = k * t
  <2> DEFINE y == k * t
  <2>1. y \in 0 .. w - 1 /\ a - s = q * w + y
    BY <1>5, <1>6
  <2> HIDE DEF y, w
  <2>2. (q * w + y) % w = y
    BY <1>1, <1>2, <2>1, DivisionUnique
  <2> QED
    BY <2>1, <2>2 DEF y
<1>8. (k * t) \div t = k /\ x \div t = k /\ x % t = s
  <2>1. (k * t + 0) \div t = k /\ (k * t + s) \div t = k /\ (k * t + s) % t = s
    BY <1>3, DivisionUnique
  <2>2. k * t + 0 = k * t
    BY <1>3
  <2> QED
    BY <1>3, <2>1, <2>2
<1>9. a - s \in Nat
  BY <1>2, <1>3, <1>5, <1>6
<1> QED
  BY <1>6, <1>7, <1>8, <1>9 DEF x

\* The one tile, of those that start where skew says, that a place is in.
LEMMA OneStart ==
    ASSUME NEW t \in Nat \ {0}, NEW k \in 0 .. t - 1, NEW p \in Nat
    PROVE  LET s == p - ((p + k) % t)
           IN  /\ s \in Int /\ -k <= s /\ s <= p /\ (s + k) % t = 0 /\ p - s \in 0 .. t - 1
               /\ \A i \in Int : p - i \in 0 .. t - 1 /\ (i + k) % t = 0 /\ -k <= i => i = s
<1> DEFINE a == p + k
           r == a % t
           q == a \div t
           s == p - r
<1>1. a \in Nat
  OBVIOUS
<1>2. q \in Nat /\ r \in 0 .. t - 1 /\ a = q * t + r
  <2> HIDE DEF a
  <2> QED
    BY <1>1, Division
<1> HIDE DEF q, r
<1>3. s + k = q * t
  BY <1>2
<1>4. q * t \in Nat /\ (q * t) % t = 0
  <2>1. (q * t + 0) % t = 0 /\ q * t \in Nat
    <3>1. 0 \in 0 .. t - 1
      OBVIOUS
    <3>2. q * t \in Nat
      BY <1>2
    <3> QED
      BY <1>2, <3>1, <3>2, DivisionUnique
  <2>2. q * t + 0 = q * t
    BY <2>1
  <2> QED
    BY <2>1, <2>2
<1>5. s \in Int /\ -k <= s /\ s <= p /\ (s + k) % t = 0 /\ p - s \in 0 .. t - 1
  <2>1. (s + k) % t = 0
    BY <1>3, <1>4
  <2> QED
    BY <1>2, <1>3, <1>4, <2>1
<1>6. ASSUME NEW i \in Int, p - i \in 0 .. t - 1, (i + k) % t = 0, -k <= i PROVE i = s
  <2> DEFINE b == i + k
             j == b \div t
             d == p - i
  <2>1. b \in Nat /\ b % t = 0 /\ d \in 0 .. t - 1
    BY <1>6
  <2>2. j \in Nat /\ b = j * t
    <3> HIDE DEF b
    <3>1. b \div t \in Nat /\ b = (b \div t) * t + (b % t)
      BY <2>1, Division
    <3> QED
      BY <2>1, <3>1
  <2> HIDE DEF j
  <2>3. a = j * t + d
    BY <2>2
  <2> HIDE DEF a, b, d
  <2>4. (j * t + d) % t = d
    BY <2>1, <2>2, DivisionUnique
  <2>5. d = r
    BY <2>3, <2>4 DEF r
  <2> QED
    BY <1>2, <2>5 DEF d
<1> HIDE DEF s
<1> QED
  BY <1>5, <1>6 DEF s, r, a

LEMMA RemainderInSum ==
    ASSUME NEW t \in Nat \ {0}, NEW p \in Nat, NEW c \in Nat
    PROVE  (p + (c % t)) % t = (p + c) % t /\ c % t \in 0 .. t - 1
<1> DEFINE k == c % t
           q == c \div t
           a == p + k
           r == a % t
           j == a \div t
<1>1. q \in Nat /\ k \in 0 .. t - 1 /\ c = q * t + k
  BY Division
<1> HIDE DEF k, q
<1>2. a \in Nat
  BY <1>1
<1>3. j \in Nat /\ r \in 0 .. t - 1 /\ a = j * t + r
  <2> HIDE DEF a
  <2> QED
    BY <1>2, Division
<1> HIDE DEF j, r
<1>4. (p + c) % t = r
  <2> DEFINE i == q + j
  <2>1. i \in Nat /\ i * t = q * t + j * t /\ q * t \in Nat /\ j * t \in Nat
    BY <1>1, <1>3
  <2> HIDE DEF i
  <2>2. (i * t + r) % t = r
    BY <1>3, <2>1, DivisionUnique
  <2>3. p + c = i * t + r
    BY <1>1, <1>3, <2>1
  <2> QED
    BY <2>2, <2>3
<1> QED
  BY <1>1, <1>4 DEF r, k

\* The point of the background at p.
BackgroundPoint(p) ==
    LET X == (p + SCX) % MapSize
        Y == (Row + SCY) % MapSize
        m == "bg_map" \in lcdc
        vflip == Attr(m, Y \div Tile, X \div Tile).vflip
    IN  TilePixel(m, Y \div Tile, X \div Tile, IF vflip THEN Tile - 1 - (Y % Tile) ELSE Y % Tile,
                  X % Tile)

LEMMA BackgroundDrawn ==
    ASSUME SCX \in Nat, NEW p \in RowXs
    PROVE  draw_tile_bg_row[p] = {BackgroundPoint(p)}
<1> DEFINE y == (Row + SCY) % MapSize
           m == "bg_map" \in lcdc
           PixelOf(c, j) == TilePixel(m, y \div Tile, c,
                              IF Attr(m, y \div Tile, c).vflip THEN Tile - 1 - (y % Tile) ELSE y % Tile, j)
           At(i) == PixelOf(((i + SCX) % MapSize) \div Tile, p - i)
           over == {t \in BgTiles : p - t \in 0 .. Tile - 1}
           skew == SCX % Tile
           s == p - ((p + skew) % Tile)
           a == p + SCX
<1>1. draw_tile_bg_row[p] = {At(i) : i \in over}
  BY DEF draw_tile_bg_row
<1>2. BackgroundPoint(p) = PixelOf((a % MapSize) \div Tile, (a % MapSize) % Tile)
  BY DEF BackgroundPoint
<1>3. /\ Tile \in Nat \ {0} /\ MapTiles \in Nat \ {0} /\ MapSize = MapTiles * Tile
      /\ p \in Nat /\ a \in Nat /\ p <= Width - 1 /\ Width \in Nat
  <2>1. Width \in Nat
    BY RowSizes
  <2>2. p \in Nat /\ p <= Width - 1
    BY <2>1 DEF RowXs
  <2>3. a \in Nat
    BY <2>2
  <2> QED
    BY <2>1, <2>2, <2>3, RowSizes
<1>4. skew \in 0 .. Tile - 1 /\ (p + skew) % Tile = a % Tile
  BY <1>3, RemainderInSum
<1>5. over = {s}
  <2>1. /\ s \in Int /\ -skew <= s /\ s <= p /\ (s + skew) % Tile = 0 /\ p - s \in 0 .. Tile - 1
        /\ \A i \in Int : p - i \in 0 .. Tile - 1 /\ (i + skew) % Tile = 0 /\ -skew <= i => i = s
    <3> HIDE DEF skew
    <3> DEFINE z == p - ((p + skew) % Tile)
    <3>1. /\ z \in Int /\ -skew <= z /\ z <= p /\ (z + skew) % Tile = 0 /\ p - z \in 0 .. Tile - 1
          /\ \A i \in Int : p - i \in 0 .. Tile - 1 /\ (i + skew) % Tile = 0 /\ -skew <= i => i = z
      BY <1>3, <1>4, OneStart
    <3> QED
      BY <3>1
  <2> DEFINE last == Width - 1 + ((Tile - skew) % Tile)
  <2>2. BgTiles = {i \in -skew .. last : (i + skew) % Tile = 0}
    BY DEF BgTiles
  <2>3. last \in Int /\ p <= last
    <3> DEFINE x == Tile - skew
    <3>1. x \in Nat
      <4> HIDE DEF skew
      <4> QED
        BY <1>3, <1>4
    <3> HIDE DEF x
    <3>2. x % Tile \in 0 .. Tile - 1
      BY <1>3, <3>1, Division
    <3> QED
      BY <1>3, <3>2 DEF x
  <2> HIDE DEF skew, s, last
  <2>4. s \in over
    BY <1>3, <1>4, <2>1, <2>2, <2>3
  <2>5. ASSUME NEW i \in over PROVE i = s
    BY <1>4, <2>1, <2>2, <2>3
  <2> QED
    BY <2>4, <2>5
<1>6. s + SCX = a - (a % Tile) /\ p - s = a % Tile
  <2> DEFINE r == a % Tile
  <2>1. r \in 0 .. Tile - 1
    <3> HIDE DEF a
    <3> QED
      BY <1>3, Division
  <2>2. s = p - r
    BY <1>4
  <2> HIDE DEF r, s
  <2>3. s + SCX = a - r /\ p - s = r
    BY <1>3, <2>1, <2>2
  <2> QED
    BY <2>3 DEF r
<1>7. /\ (a % MapSize) % Tile = a % Tile
      /\ ((a - (a % Tile)) % MapSize) \div Tile = (a % MapSize) \div Tile
  <2> HIDE DEF a
  <2> QED
    BY <1>3, TileOfPlace
<1>8. At(s) = BackgroundPoint(p)
  <2> HIDE DEF PixelOf, a, s
  <2> QED
    BY <1>2, <1>6, <1>7
<1> HIDE DEF At, over, s
<1> QED
  BY <1>1, <1>5, <1>8

\* The point of the window at p.
WindowPoint(p) ==
    LET X == p - WindowX
        Y == Row - WY
    IN  TilePixel("win_map" \in lcdc, Y \div Tile, X \div Tile, Y % Tile, X % Tile)

LEMMA WindowDrawn ==
    ASSUME WX \in Nat, WindowShown, NEW p \in RowXs
    PROVE  draw_tile_window_row[p] = IF p >= WindowX THEN {WindowPoint(p)} ELSE {}
<1> DEFINE x == WindowX
           y == Row - WY
           PixelOf(c, j) == TilePixel("win_map" \in lcdc, y \div Tile, c, y % Tile, j)
           skew == (Tile - (x % Tile)) % Tile
           tiles == {i \in -skew .. Width - 1 + skew : (i + skew) % Tile = 0 /\ i >= x - (Tile - 1)}
           StartOf(i) == IF i < x THEN x ELSE i
           InTile(i) == p - i \in (StartOf(i) - i) .. Tile - 1 /\ StartOf(i) + (p - i) < Width
           At(i) == PixelOf((StartOf(i) - x) \div Tile, p - i)
           over == {t \in tiles : InTile(t)}
           s == p - ((p + skew) % Tile)
           a == p - x
<1>1. draw_tile_window_row[p] = {At(i) : i \in over}
  BY DEF draw_tile_window_row
<1>2. WindowPoint(p) = PixelOf(a \div Tile, a % Tile)
  BY DEF WindowPoint
<1>3. Tile \in Nat \ {0} /\ p \in Nat /\ p <= Width - 1 /\ Width \in Nat /\ x \in Nat
  <2>1. Width \in Nat /\ Tile \in Nat \ {0}
    BY RowSizes
  <2>2. p \in Nat /\ p <= Width - 1
    BY <2>1 DEF RowXs
  <2>3. x \in Nat
    <3>1. x = IF WX < Tile - 1 THEN 0 ELSE WX - (Tile - 1)
      BY DEF WindowX
    <3> QED
      BY <2>1, <3>1
  <2> QED
    BY <2>1, <2>2, <2>3
<1> HIDE DEF x
\* The window starts at a tile.
<1>4. skew \in 0 .. Tile - 1 /\ \E n \in Nat : x + skew = n * Tile
  <2> DEFINE q == x \div Tile
             r == x % Tile
             b == Tile - r
  <2>1. q \in Nat /\ r \in 0 .. Tile - 1 /\ x = q * Tile + r
    BY <1>3, Division
  <2> HIDE DEF q, r
  <2>2. CASE r = 0
    <3>1. b = Tile /\ (1 * Tile + 0) % Tile = 0 /\ 1 * Tile + 0 = Tile
      BY <1>3, <2>1, <2>2, DivisionUnique
    <3>2. skew = 0
      BY <3>1 DEF r
    <3> QED
      BY <1>3, <2>1, <2>2, <3>2
  <2>3. CASE r # 0
    <3>1. b \in 0 .. Tile - 1 /\ b \in Nat
      BY <1>3, <2>1, <2>3
    <3>2. b % Tile = b
      <4> HIDE DEF b
      <4>1. (0 * Tile + b) % Tile = b /\ 0 * Tile + b = b
        BY <1>3, <3>1, DivisionUnique
      <4> QED
        BY <4>1
    <3>3. skew = b
      BY <3>2 DEF r
    <3>4. x + b = (q + 1) * Tile /\ q + 1 \in Nat
      BY <1>3, <2>1
    <3> QED
      BY <3>1, <3>3, <3>4
  <2> QED
    BY <2>2, <2>3
<1> HIDE DEF skew
<1>5. PICK n \in Nat : x + skew = n * Tile
  BY <1>4
<1>6. /\ s \in Int /\ -skew <= s /\ s <= p /\ (s + skew) % Tile = 0 /\ p - s \in 0 .. Tile - 1
      /\ \A i \in Int : p - i \in 0 .. Tile - 1 /\ (i + skew) % Tile = 0 /\ -skew <= i => i = s
  <2>1. skew \in 0 .. Tile - 1
    BY <1>4
  <2> QED
    BY <1>3, <2>1, OneStart
<1> HIDE DEF s
\* A tile that is not left of the window starts in it.
<1>7. ASSUME NEW i \in tiles PROVE i \in Int /\ i >= x /\ \E k \in Nat : i - x = k * Tile
  <2> DEFINE b == i + skew
             k == b \div Tile
  <2>1. i \in Int /\ b \in Nat /\ b % Tile = 0 /\ i >= x - (Tile - 1)
    BY <1>3, <1>4
  <2>2. k \in Nat /\ b = k * Tile
    <3> HIDE DEF b
    <3>1. b \div Tile \in Nat /\ b = (b \div Tile) * Tile + (b % Tile)
      BY <1>3, <2>1, Division
    <3>2. (b \div Tile) * Tile \in Nat
      BY <1>3, <3>1
    <3> QED
      BY <2>1, <3>1, <3>2
  <2> HIDE DEF k
  <2>3. i - x = (k - n) * Tile
    BY <1>3, <1>4, <1>5, <2>1, <2>2
  <2>4. k >= n
    <3>1. k < n => (k - n) * Tile <= -Tile
      BY <1>3, <2>2
    <3>2. (k - n) * Tile >= -(Tile - 1)
      BY <1>3, <2>1, <2>3
    <3> QED
      BY <1>3, <2>2, <3>1, <3>2
  <2>5. k - n \in Nat /\ (k - n) * Tile >= 0
    BY <1>3, <2>2, <2>4
  <2>6. i >= x
    BY <1>3, <2>1, <2>3, <2>5
  <2> QED
    BY <2>1, <2>3, <2>5, <2>6
<1>8. ASSUME NEW i \in over PROVE i = s /\ i >= x /\ p >= x
  <2>1. i \in tiles /\ InTile(i)
    OBVIOUS
  <2>2. i \in Int /\ i >= x
    BY <1>7, <2>1
  <2>3. StartOf(i) = i
    BY <1>3, <2>2
  <2>4. p - i \in 0 .. Tile - 1
    BY <1>3, <2>1, <2>2, <2>3
  <2>5. (i + skew) % Tile = 0 /\ -skew <= i
    BY <1>3, <1>4, <2>1
  <2> HIDE DEF over, tiles, InTile
  <2>6. i = s
    BY <1>6, <2>2, <2>4, <2>5
  <2> QED
    BY <1>3, <2>2, <2>4, <2>6
<1>9. CASE ~(p >= x)
  <2>1. over = {}
    BY <1>8, <1>9
  <2> HIDE DEF over
  <2> QED
    BY <1>1, <1>9, <2>1 DEF x
<1>10. CASE p >= x
  <2>1. s \in tiles
    <3>1. s <= Width - 1 + skew
      BY <1>3, <1>4, <1>6
    <3>2. s >= x - (Tile - 1)
      BY <1>3, <1>6, <1>10
    <3> QED
      BY <1>3, <1>4, <1>6, <3>1, <3>2
  <2>2. s \in Int /\ s >= x
    BY <1>7, <2>1
  <2>3. StartOf(s) = s
    BY <1>3, <2>2
  <2>4. s \in over
    <3>1. InTile(s)
      BY <1>3, <1>6, <2>2, <2>3
    <3> QED
      BY <2>1, <3>1
  <2>5. PICK k \in Nat : s - x = k * Tile
    BY <1>7, <2>1
  <2>6. a \div Tile = (s - x) \div Tile /\ a % Tile = p - s
    <3> DEFINE d == p - s
               e == s - x
    <3>1. d \in 0 .. Tile - 1 /\ a = k * Tile + d /\ e = k * Tile
      BY <1>3, <1>6, <2>2, <2>5
    <3> HIDE DEF d, e, a
    <3>2. (k * Tile + d) % Tile = d /\ (k * Tile + d) \div Tile = k
      BY <1>3, <3>1, DivisionUnique
    <3>3. (k * Tile + 0) \div Tile = k
      BY <1>3, DivisionUnique
    <3>4. k * Tile + 0 = k * Tile
      BY <1>3
    <3> QED
      BY <3>1, <3>2, <3>3, <3>4 DEF d, e
  <2>7. over = {s}
    <3> HIDE DEF over
    <3> QED
      BY <1>8, <2>4
  <2>8. At(s) = WindowPoint(p)
    <3> HIDE DEF PixelOf, a
    <3> QED
      BY <1>2, <2>3, <2>6
  <2> HIDE DEF At, over
  <2> QED
    BY <1>1, <1>10, <2>7, <2>8 DEF x
<1> QED
  BY <1>9, <1>10

\* What the tiles leave at a place is the point of the plane there; without them it is
\* what the last frame left.
LEMMA TilesAre ==
    ASSUME SCX \in Nat, WX \in Nat, NEW p \in RowXs
    PROVE  /\ TilesDrawn => /\ draw_tile_row[p].rgb = Plane(p).rgb
                            /\ draw_tile_row[p].old = Plane(p).old
                            /\ draw_tile_row[p].prio = IF color THEN Plane(p).prio ELSE row[p].prio
           /\ ~TilesDrawn => draw_tile_row[p] = row[p]
<1> DEFINE bg == draw_tile_bg_row
           window == IF WindowShown THEN draw_tile_window_row ELSE [q \in RowXs |-> {}]
           Under(q) == IF window[q] # {} THEN window[q] ELSE bg[q]
           Kept(t) == [t EXCEPT !.prio = IF color THEN @ ELSE row[p].prio]
           over == WindowShown /\ p >= WindowX
           point == IF over THEN WindowPoint(p) ELSE BackgroundPoint(p)
<1>1. bg[p] = {BackgroundPoint(p)}
  BY BackgroundDrawn
<1>2. window[p] = IF over THEN {WindowPoint(p)} ELSE {}
  BY WindowDrawn
<1>3. Under(p) = {point}
  <2> HIDE DEF bg, window, over
  <2> QED
    BY <1>1, <1>2
<1>4. draw_tile_row[p] = IF ~TilesDrawn \/ Under(p) = {} THEN row[p]
                         ELSE Kept(CHOOSE t \in Under(p) : TRUE)
  BY DEF draw_tile_row
<1>5. Plane(p) = point
  <2>1. CASE over
    BY <2>1 DEF Plane, WindowPoint
  <2>2. CASE ~over
    BY <2>2 DEF Plane, BackgroundPoint
  <2> QED
    BY <2>1, <2>2
<1> HIDE DEF Under, over
<1>6. /\ point = [rgb |-> point.rgb, old |-> point.old, prio |-> point.prio]
  BY DEF WindowPoint, BackgroundPoint, TilePixel
<1> HIDE DEF point
<1>7. (CHOOSE t \in Under(p) : TRUE) = point /\ Under(p) # {}
  BY <1>3
<1>8. /\ Kept(point).rgb = point.rgb /\ Kept(point).old = point.old
      /\ Kept(point).prio = IF color THEN point.prio ELSE row[p].prio
  BY <1>6
<1> HIDE DEF Kept
<1> QED
  BY <1>4, <1>5, <1>7, <1>8

-----------------------------------------------------------------------------
(* A row of the screen: sprites                                            *)

SpriteLists == Seq([x : Nat, y : Nat, tile : Nat, palette : Nat, bank : Nat,
                    behind : BOOLEAN, hflip : BOOLEAN, vflip : BOOLEAN])

\* The pixel as each sprite from the end of the list leaves it.
IsDrawn(p, under, places, k, g) ==
    g = [i \in k .. Len(sprites) + 1 |->
            IF i = Len(sprites) + 1 THEN under
            ELSE IF i \in places THEN DrawOver(sprites[i], p, g[i + 1])
            ELSE g[i + 1]]

LEMMA DownTo ==
    ASSUME NEW n \in Nat, NEW S, n + 1 \in S, \A i \in 1 .. n : i + 1 \in S => i \in S
    PROVE  1 .. n + 1 \subseteq S
<1> DEFINE T == {m \in Nat : m <= n => n + 1 - m \in S}
<1>1. 0 \in T
  OBVIOUS
<1>2. ASSUME NEW m \in Nat, m \in T PROVE m + 1 \in T
  <2>1. CASE m + 1 <= n
    <3>1. n - m \in 1 .. n /\ (n - m) + 1 = n + 1 - m /\ n + 1 - (m + 1) = n - m
      BY <2>1
    <3>2. n + 1 - m \in S
      BY <1>2, <2>1
    <3>3. n + 1 - (m + 1) \in S
      BY <3>1, <3>2
    <3> QED
      BY <3>3
  <2> QED
    BY <2>1
<1> HIDE DEF T
<1>3. Nat \subseteq T
  BY <1>1, <1>2, SetInduction
<1>4. ASSUME NEW i \in 1 .. n + 1 PROVE i \in S
  <2>1. n + 1 - i \in T
    BY <1>3
  <2>2. n + 1 - i <= n /\ n + 1 - (n + 1 - i) = i
    OBVIOUS
  <2> QED
    BY <2>1, <2>2 DEF T
<1> QED
  BY <1>4

LEMMA DrawnExists ==
    ASSUME Len(sprites) \in Nat, NEW p, NEW under, NEW places
    PROVE  \E g : IsDrawn(p, under, places, 1, g) /\ draw_sprite_row(p, under, places) = g[1]
<1> DEFINE n == Len(sprites)
           Step(g, i) == IF i = n + 1 THEN under
                         ELSE IF i \in places THEN DrawOver(sprites[i], p, g[i + 1])
                         ELSE g[i + 1]
           S == {k \in 1 .. n + 1 : \E g : IsDrawn(p, under, places, k, g)}
<1>1. n + 1 \in S
  <2> DEFINE g == [i \in n + 1 .. n + 1 |-> under]
  <2>1. g = [i \in n + 1 .. n + 1 |-> Step(g, i)]
    OBVIOUS
  <2>2. n + 1 \in 1 .. n + 1
    OBVIOUS
  <2> HIDE DEF g
  <2>3. IsDrawn(p, under, places, n + 1, g)
    BY <2>1 DEF IsDrawn
  <2> QED
    BY <2>2, <2>3
<1>2. ASSUME NEW k \in 1 .. n, k + 1 \in S PROVE k \in S
  <2>1. PICK g : IsDrawn(p, under, places, k + 1, g)
    BY <1>2
  <2> DEFINE h == [i \in k .. n + 1 |-> IF i = k THEN Step(g, k) ELSE g[i]]
  <2>2. ASSUME NEW i \in k .. n + 1 PROVE h[i] = Step(h, i)
    <3>1. i # n + 1 => i + 1 \in k + 1 .. n + 1 /\ h[i + 1] = g[i + 1]
      OBVIOUS
    <3>2. h[i] = Step(g, i)
      <4>1. CASE i = k
        BY <4>1
      <4>2. CASE i # k
        <5>1. i \in k + 1 .. n + 1
          BY <4>2
        <5>2. g[i] = Step(g, i)
          <6> HIDE DEF n, h
          <6> QED
            BY <2>1, <5>1 DEF IsDrawn, n
        <5>3. h[i] = g[i]
          BY <4>2
        <5> HIDE DEF h, Step
        <5> QED
          BY <5>2, <5>3
      <4> QED
        BY <4>1, <4>2
    <3> HIDE DEF h
    <3> QED
      BY <3>1, <3>2
  <2>3. h = [i \in k .. n + 1 |-> h[i]]
    OBVIOUS
  <2> HIDE DEF h
  <2>4. h = [i \in k .. n + 1 |-> Step(h, i)]
    <3> HIDE DEF Step
    <3> QED
      BY <2>2, <2>3
  <2>5. IsDrawn(p, under, places, k, h)
    BY <2>4 DEF IsDrawn
  <2> QED
    BY <2>5
<1>3. 1 \in S
  <2>1. n \in Nat
    OBVIOUS
  <2> HIDE DEF S, n
  <2>2. 1 .. n + 1 \subseteq S
    BY <1>1, <1>2, <2>1, DownTo
  <2> QED
    BY <2>1, <2>2
<1>4. PICK f : IsDrawn(p, under, places, 1, f)
  BY <1>3
<1> DEFINE Is(g) == g = [i \in 1 .. n + 1 |-> Step(g, i)]
           after == CHOOSE g : g = [i \in 1 .. n + 1 |-> Step(g, i)]
<1>5. Is(f)
  BY <1>4 DEF IsDrawn
<1>6. Is(after)
  <2> HIDE DEF Step
  <2> QED
    BY <1>5
<1>7. draw_sprite_row(p, under, places) = after[1]
  BY DEF draw_sprite_row
<1>8. IsDrawn(p, under, places, 1, after)
  <2> HIDE DEF after
  <2> QED
    BY <1>6 DEF IsDrawn
<1> HIDE DEF after
<1> QED
  BY <1>7, <1>8

\* Each sprite draws over the one after it in the list.
LEMMA DrawnAt ==
    ASSUME Len(sprites) \in Nat, NEW p, NEW under, NEW places, NEW g,
           IsDrawn(p, under, places, 1, g)
    PROVE  /\ g[Len(sprites) + 1] = under
           /\ \A i \in 1 .. Len(sprites) :
                g[i] = IF i \in places THEN DrawOver(sprites[i], p, g[i + 1]) ELSE g[i + 1]
<1> DEFINE n == Len(sprites)
           Step(i) == IF i = n + 1 THEN under
                      ELSE IF i \in places THEN DrawOver(sprites[i], p, g[i + 1])
                      ELSE g[i + 1]
<1>1. n \in Nat /\ g = [i \in 1 .. n + 1 |-> Step(i)]
  BY DEF IsDrawn
<1>2. \A i \in 1 .. n + 1 : g[i] = Step(i)
  <2> HIDE DEF n, Step
  <2> QED
    BY <1>1
<1>3. \A i \in 1 .. n : i \in 1 .. n + 1 /\ i # n + 1
  BY <1>1
<1>4. n + 1 \in 1 .. n + 1
  BY <1>1
<1> HIDE DEF n
<1> QED
  BY <1>2, <1>3, <1>4 DEF n

\* A sprite leaves the priority of what is under it.
LEMMA PriorityKept ==
    ASSUME Len(sprites) \in Nat, NEW p, NEW under, NEW places, NEW g,
           IsDrawn(p, under, places, 1, g)
    PROVE  \A i \in 1 .. Len(sprites) + 1 : g[i].prio = under.prio
<1> DEFINE n == Len(sprites)
           S == {i \in 1 .. n + 1 : g[i].prio = under.prio}
<1>1. n \in Nat /\ n + 1 \in S
  BY DrawnAt
<1>2. ASSUME NEW i \in 1 .. n, i + 1 \in S PROVE i \in S
  <2>1. \A s, below : DrawOver(s, p, below).prio = below.prio
    BY DEF DrawOver
  <2>2. g[i] = IF i \in places THEN DrawOver(sprites[i], p, g[i + 1]) ELSE g[i + 1]
    BY DrawnAt
  <2>3. g[i].prio = g[i + 1].prio
    BY <2>1, <2>2
  <2> QED
    BY <1>1, <1>2, <2>3
<1> HIDE DEF n, S
<1>3. 1 .. n + 1 \subseteq S
  BY <1>1, <1>2, DownTo
<1> QED
  BY <1>3 DEF n, S

\* No sprite of the first hi - 1 shows over a pixel.
NoneShows(p, places, hi, pixel) ==
    \A i \in places : i < hi => DrawOver(sprites[i], p, pixel) = pixel

\* Where no sprite of the first hi - 1 shows, the pixel is as the sprite hi left it.
LEMMA LeftAlone ==
    ASSUME Len(sprites) \in Nat, NEW p, NEW under, NEW places, NEW g,
           IsDrawn(p, under, places, 1, g), NEW hi \in 1 .. Len(sprites) + 1,
           NoneShows(p, places, hi, g[hi])
    PROVE  g[1] = g[hi]
<1> DEFINE n == Len(sprites)
           S == {i \in 1 .. n + 1 : i <= hi => g[i] = g[hi]}
<1>1. n \in Nat /\ n + 1 \in S
  OBVIOUS
<1>2. ASSUME NEW i \in 1 .. n, i + 1 \in S PROVE i \in S
  <2>1. CASE i < hi
    <3>1. g[i + 1] = g[hi]
      BY <1>2, <2>1
    <3>2. g[i] = IF i \in places THEN DrawOver(sprites[i], p, g[i + 1]) ELSE g[i + 1]
      BY DrawnAt
    <3>3. g[i] = g[hi]
      BY <2>1, <3>1, <3>2 DEF NoneShows
    <3> QED
      BY <3>3
  <2>2. CASE ~(i < hi)
    <3>1. i <= hi => i = hi
      BY <2>2
    <3> QED
      BY <3>1
  <2> QED
    BY <2>1, <2>2
<1>3. 1 \in 1 .. n + 1 /\ 1 <= hi
  BY <1>1
<1> HIDE DEF n, S
<1>4. 1 .. n + 1 \subseteq S
  BY <1>1, <1>2, DownTo
<1> QED
  BY <1>3, <1>4 DEF S

-----------------------------------------------------------------------------

\* No more sprites are chosen than a row may have.
LEMMA ChosenFit ==
    ASSUME Len(sprites) \in Nat, DOMAIN sprites = 1 .. Len(sprites)
    PROVE  Cardinality(Chosen) <= RowLimit
<1> DEFINE n == Len(sprites)
           On(k) == {j \in 1 .. k : OnRow(sprites[j])}
           Some(k) == {i \in Chosen : i <= k}
           S == {k \in Nat : /\ IsFiniteSet(Some(k)) /\ Cardinality(Some(k)) <= RowLimit
                             /\ Some(k) \subseteq On(k)}
<1>1. /\ Chosen \subseteq 1 .. n /\ n \in Nat
      /\ \A i \in Chosen : OnRow(sprites[i]) /\ Cardinality(On(i - 1)) < RowLimit
  BY DEF Chosen
<1>2. RowLimit \in Nat
  BY RowSizes
<1> HIDE DEF n
<1>8. \A i \in Chosen : i \in Nat /\ i >= 1 /\ i <= n
  BY <1>1
<1>3. \A k \in Nat : IsFiniteSet(On(k)) /\ Cardinality(On(k)) \in Nat
  <2>1. ASSUME NEW k \in Nat PROVE IsFiniteSet(On(k))
    <3>1. IsFiniteSet(1 .. k) /\ On(k) \subseteq 1 .. k
      BY FS_Interval
    <3> HIDE DEF On
    <3> QED
      BY <3>1, FS_Subset
  <2> HIDE DEF On
  <2> QED
    BY <2>1, FS_CardinalityType
<1>4. 0 \in S
  <2>1. Some(0) = {}
    BY <1>8
  <2>2. IsFiniteSet({}) /\ Cardinality({}) = 0
    BY FS_EmptySet
  <2> HIDE DEF Some, On
  <2> QED
    BY <1>2, <2>1, <2>2, FS_EmptySet
<1>5. ASSUME NEW k \in Nat, k \in S PROVE k + 1 \in S
  <2>0. k + 1 \in Nat /\ (k + 1) - 1 = k
    OBVIOUS
  <2>1. IsFiniteSet(Some(k)) /\ Cardinality(Some(k)) <= RowLimit /\ Some(k) \subseteq On(k)
    BY <1>5
  <2>2. On(k) \subseteq On(k + 1)
    OBVIOUS
  <2>3. CASE k + 1 \in Chosen
    <3>1. Some(k + 1) = Some(k) \cup {k + 1} /\ k + 1 \notin Some(k)
      BY <1>8, <2>3
    <3>2. k + 1 \in On(k + 1)
      <4>1. OnRow(sprites[k + 1])
        BY <1>1, <2>3
      <4>2. k + 1 \in 1 .. k + 1
        OBVIOUS
      <4> QED
        BY <4>1, <4>2
    <3>3. Cardinality(On(k)) < RowLimit
      BY <1>1, <2>0, <2>3
    <3> HIDE DEF On, Some
    <3>4. IsFiniteSet(Some(k + 1)) /\ Cardinality(Some(k + 1)) = Cardinality(Some(k)) + 1
      BY <2>1, <3>1, FS_AddElement
    <3>5. Cardinality(Some(k)) <= Cardinality(On(k))
      BY <1>3, <2>1, FS_Subset
    <3>6. Cardinality(Some(k)) \in Nat /\ Cardinality(On(k)) \in Nat
      BY <1>3, <2>1, FS_CardinalityType
    <3>7. Cardinality(Some(k + 1)) <= RowLimit
      BY <1>2, <3>3, <3>4, <3>5, <3>6
    <3>8. Some(k + 1) \subseteq On(k + 1)
      BY <2>1, <2>2, <3>1, <3>2
    <3> QED
      BY <2>0, <3>4, <3>7, <3>8
  <2>4. CASE k + 1 \notin Chosen
    <3>1. Some(k + 1) = Some(k)
      BY <1>8, <2>4
    <3> HIDE DEF On, Some
    <3> QED
      BY <2>0, <2>1, <2>2, <3>1
  <2> QED
    BY <2>3, <2>4
<1> HIDE DEF S
<1>6. n \in S
  BY <1>1, <1>4, <1>5, SetInduction
<1>7. Some(n) = Chosen
  BY <1>8
<1> HIDE DEF Some, On
<1> QED
  BY <1>6, <1>7 DEF S

-----------------------------------------------------------------------------

\* Scrolling, windows and lists are what the game may write.
RowInv ==
    /\ SCX \in Nat /\ SCY \in Nat /\ WX \in Nat /\ WY \in Nat
    /\ sprites \in SpriteLists

LEMMA ListLength ==
    ASSUME sprites \in SpriteLists
    PROVE  Len(sprites) \in Nat /\ DOMAIN sprites = 1 .. Len(sprites)
BY DEF SpriteLists

LEMMA RowInit == RenderInit => RowInv
BY RendererAssumption DEF RenderInit, RowInv, SpriteLists

LEMMA RowStep == RowInv /\ [Frame]_renderVars => RowInv'
<1> SUFFICES ASSUME RowInv, [Frame]_renderVars PROVE RowInv'
  OBVIOUS
<1>1. CASE Frame
  <2>1. \A v \in Scrolls \cup Windows : v[1] \in Nat /\ v[2] \in Nat
    BY RendererAssumption
  <2>2. Lists \subseteq SpriteLists
    BY RendererAssumption DEF SpriteLists
  <2>3. SpriteLists' = SpriteLists
    BY DEF SpriteLists
  <2> HIDE DEF SpriteLists
  <2> QED
    BY <1>1, <2>1, <2>2, <2>3 DEF Frame, Game, RowInv
<1>2. CASE UNCHANGED renderVars
  BY <1>2 DEF renderVars, registers, RowInv, SpriteLists
<1> QED
  BY <1>1, <1>2

\* The places of the sprites that are drawn.
DrawnPlaces == IF "sprites" \in lcdc THEN Chosen ELSE {}

\* A sprite that has no colour at a place, or must keep what is under it, does not show.
LEMMA NotShown ==
    ASSUME NEW p \in RowXs, NEW i \in DrawnPlaces, NEW below,
           \/ i \notin Opaque(p)
           \/ IF sprites[i].behind THEN below.old # 0 \/ below.prio
                                   ELSE cgb /\ below.prio /\ below.old # 0
    PROVE  DrawOver(sprites[i], p, below) = below
BY DEF DrawnPlaces, Opaque, DrawOver, Draws

LEMMA RowDrawn ==
    ASSUME RowInv, draw_row
    PROVE  PlaneShown /\ BackgroundKept /\ FirstOnTop
<1> DEFINE tiles == draw_tile_row
<1>0. Len(sprites) \in Nat /\ DOMAIN sprites = 1 .. Len(sprites) /\ DrawnPlaces \subseteq 1 .. Len(sprites)
  <2>1. Len(sprites) \in Nat /\ DOMAIN sprites = 1 .. Len(sprites)
    BY ListLength DEF RowInv
  <2> QED
    BY <2>1 DEF DrawnPlaces, Chosen
<1>1. \A p \in RowXs : row'[p] = draw_sprite_row(p, tiles[p], DrawnPlaces)
  BY DEF draw_row, DrawnPlaces
<1> HIDE DEF tiles
<1>2. ASSUME NEW p \in RowXs, TilesDrawn
      PROVE  /\ tiles[p].rgb = Plane(p).rgb /\ tiles[p].old = Plane(p).old
             /\ Plane(p).prio => tiles[p].prio
  <2>1. /\ tiles[p].rgb = Plane(p).rgb /\ tiles[p].old = Plane(p).old
        /\ tiles[p].prio = IF color THEN Plane(p).prio ELSE row[p].prio
    BY <1>2, TilesAre DEF RowInv, tiles
  <2>2. Plane(p).prio => color
    BY DEF Plane, TilePixel
  <2> QED
    BY <2>1, <2>2
\* Where no sprite shows, the row is what the tiles leave.
<1>3. ASSUME NEW p \in RowXs, \A i \in DrawnPlaces : DrawOver(sprites[i], p, tiles[p]) = tiles[p]
      PROVE  row'[p] = tiles[p]
  <2>1. PICK g : /\ IsDrawn(p, tiles[p], DrawnPlaces, 1, g)
                 /\ draw_sprite_row(p, tiles[p], DrawnPlaces) = g[1]
    BY <1>0, DrawnExists
  <2>2. g[Len(sprites) + 1] = tiles[p]
    BY <1>0, <2>1, DrawnAt
  <2>3. Len(sprites) + 1 \in 1 .. Len(sprites) + 1
    BY <1>0
  <2>4. NoneShows(p, DrawnPlaces, Len(sprites) + 1, g[Len(sprites) + 1])
    BY <1>3, <2>2 DEF NoneShows
  <2>5. g[1] = g[Len(sprites) + 1]
    <3> DEFINE under == tiles[p]
    <3>1. IsDrawn(p, under, DrawnPlaces, 1, g)
      BY <2>1
    <3> HIDE DEF under
    <3> QED
      BY <1>0, <2>3, <2>4, <3>1, LeftAlone
  <2> QED
    BY <1>1, <2>1, <2>2, <2>5
<1>4. PlaneShown
  <2> SUFFICES ASSUME NEW p \in RowXs, TilesDrawn, Opaque(p) = {} PROVE row'[p].rgb = Plane(p).rgb
    BY DEF PlaneShown
  <2>1. \A i \in DrawnPlaces : DrawOver(sprites[i], p, tiles[p]) = tiles[p]
    BY NotShown
  <2> QED
    BY <1>2, <1>3, <2>1
<1>5. BackgroundKept
  <2> DEFINE KeptBy(s, plane) == IF s.behind THEN plane.old # 0 \/ plane.prio
                                 ELSE cgb /\ plane.prio /\ plane.old # 0
  <2> SUFFICES ASSUME NEW p \in RowXs, TilesDrawn,
                      \A i \in Opaque(p) : KeptBy(sprites[i], Plane(p))
               PROVE  row'[p].rgb = Plane(p).rgb
    BY DEF BackgroundKept
  <2>1. ASSUME NEW i \in DrawnPlaces PROVE DrawOver(sprites[i], p, tiles[p]) = tiles[p]
    <3>1. i \notin Opaque(p) \/ KeptBy(sprites[i], tiles[p])
      BY <1>2
    <3> QED
      BY <3>1, NotShown
  <2> QED
    BY <1>2, <1>3, <2>1
<1>6. FirstOnTop
  <2>1. Cardinality(Chosen) <= RowLimit
    BY <1>0, ChosenFit
  <2>2. ASSUME NEW p \in RowXs, NEW i \in Opaque(p), \A j \in Opaque(p) : i <= j,
               ~sprites[i].behind, ~row'[p].prio
        PROVE  row'[p].rgb.point = SpritePoint(sprites[i], p)
    <3>1. PICK g : /\ IsDrawn(p, tiles[p], DrawnPlaces, 1, g)
                   /\ draw_sprite_row(p, tiles[p], DrawnPlaces) = g[1]
      BY <1>0, DrawnExists
    <3>2. i \in DrawnPlaces /\ Covers(sprites[i], p) /\ SpriteId(sprites[i], p) # 0
      BY DEF Opaque, DrawnPlaces
    <3>3. i \in 1 .. Len(sprites) /\ i \in 1 .. Len(sprites) + 1 /\ i + 1 \in 1 .. Len(sprites) + 1
          /\ 1 \in 1 .. Len(sprites) + 1
      BY <1>0, <3>2
    <3>4. g[i + 1].prio = row'[p].prio
      <4>1. \A j \in 1 .. Len(sprites) + 1 : g[j].prio = tiles[p].prio
        BY <1>0, <3>1, PriorityKept
      <4> QED
        BY <1>1, <3>1, <3>3, <4>1
    <3>5. g[i].rgb.point = SpritePoint(sprites[i], p)
      <4>1. g[i] = DrawOver(sprites[i], p, g[i + 1])
        BY <1>0, <3>1, <3>2, <3>3, DrawnAt
      <4>2. Draws(sprites[i], p, g[i + 1])
        BY <2>2, <3>2, <3>4 DEF Draws
      <4> QED
        BY <3>2, <4>1, <4>2 DEF DrawOver
    <3>6. NoneShows(p, DrawnPlaces, i, g[i])
      <4>1. \A j \in DrawnPlaces : j < i => j \notin Opaque(p)
        BY <1>0, <2>2, <3>3
      <4> QED
        BY <4>1, NotShown DEF NoneShows
    <3>7. g[1] = g[i]
      <4> DEFINE under == tiles[p]
      <4>1. IsDrawn(p, under, DrawnPlaces, 1, g)
        BY <3>1
      <4> HIDE DEF under
      <4> QED
        BY <1>0, <3>3, <3>6, <4>1, LeftAlone
    <3> QED
      BY <1>1, <3>1, <3>5, <3>7
  <2> QED
    BY <2>1, <2>2 DEF FirstOnTop
<1> QED
  BY <1>4, <1>5, <1>6

\* Whatever the game scrolls, opens or moves between two frames, and whatever VRAM holds,
\* a row shows the background and the window where they belong, keeps what sprites must
\* not cover, and has the first sprite of the list on top (graphics.c:draw_row).
THEOREM RowIsExact == RenderSpec => RowExact
<1> DEFINE Drawn == UNCHANGED renderVars \/ (PlaneShown /\ BackgroundKept /\ FirstOnTop)
<1>1. RowInv /\ [Frame]_renderVars => [Drawn]_renderVars
  BY RowDrawn DEF Frame
<1> QED
  BY <1>1, RowInit, RowStep, PTL DEF RenderSpec, RowExact
=============================================================================
