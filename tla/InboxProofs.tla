----------------------------- MODULE InboxProofs -----------------------------
(***************************************************************************)
(* What holds of the download directory for any number of sessions, of     *)
(* names and of units: it is well typed (TypeCorrect), no .part is left    *)
(* behind (PartsGo), what was reported as done is there (DoneIsThere), a   *)
(* session whose name nobody else wants gets its file as it was checked    *)
(* (LonelyFilesAreIntact), and the user's own files are not touched        *)
(* (UsersFilesStay) -- the last and the third only of names that are not   *)
(* the .part of one that a session wants.                                  *)
(***************************************************************************)
EXTENDS Inbox, FiniteSetTheorems, WellFoundedInduction, TLAPS

(* The number of units a writer has passed on stays below those it got,    *)
(* and it starts with none.                                                *)
CountInv == \A s \in Session : pc[s] \in {"start", "create"} => got[s] = 0 /\ put[s] = 0

(* A session goes for the name it wants or for a copy of it.               *)
NameInv == \A s \in Session : \E k \in 0 .. Copies : final[s] = At(Wanted[s], k)

(* A session has its .part in use from its creation to its renaming, and   *)
(* what is there is in use or has got its name.                            *)
Using == {"data", "check", "rename"}
InUse(p) == \E s \in Session : pc[s] \in Using /\ Partial(final[s]) = p
PartInv == \A p \in Path : Exists(p) => InUse(p) \/ Named(p)

(* A file never leaves the family of names it comes from, be it a          *)
(* session's or the user's, and a session only writes to its own family.   *)
Family(i) == Stem(IF i \in Session THEN Wanted[i] ELSE i)
FamilyInv ==
  /\ \A p \in Path : Exists(p) => Family(dir[p]) = p.name
  /\ \A s \in Session : pc[s] \in Using => fd[s] \in Inode /\ Family(fd[s]) = Stem(Wanted[s])

InboxInv == TypeOK /\ CountInv /\ NameInv /\ PartInv /\ FamilyInv /\ DoneMeansThere

---------------------------------------------------------------------------
(* Paths are what they look like.                                          *)
LEMMA PathTypes ==
  ASSUME NEW n \in Name, NEW k \in 0 .. Copies
  PROVE  /\ Stem(n) \in Name /\ At(n, k) \in Path
         /\ At(n, k).name = Stem(n) /\ At(n, k).copy = k /\ At(n, k).part \in {0, 1}
  BY InboxAssumption DEF Path, At, Stem

(* Two names, or two copies of one, are never one path.                    *)
LEMMA PathsDiffer ==
  ASSUME NEW m \in Name, NEW n \in Name, NEW j, NEW k, At(m, j) = At(n, k)
  PROVE  m = n /\ j = k
<1>1. /\ At(m, j).name = Stem(m) /\ At(m, j).copy = j
      /\ At(n, k).name = Stem(n) /\ At(n, k).copy = k
      /\ At(m, j).part = (IF m \in DOMAIN PartOf THEN 1 ELSE 0)
      /\ At(n, k).part = (IF n \in DOMAIN PartOf THEN 1 ELSE 0)
  BY DEF At
<1>2. Stem(m) = Stem(n) /\ j = k /\ (m \in DOMAIN PartOf <=> n \in DOMAIN PartOf)
  BY <1>1
<1> QED
  BY <1>2, InboxAssumption DEF Stem

(* The paths a session works on.                                           *)
LEMMA FinalTypes ==
  ASSUME NameInv, NEW s \in Session
  PROVE  /\ Wanted[s] \in Name
         /\ final[s] \in Path /\ final[s].name = Stem(Wanted[s])
         /\ Partial(final[s]) \in Path /\ Partial(final[s]).name = Stem(Wanted[s])
         /\ Partial(final[s]).part = final[s].part + 1 /\ final[s].part \in {0, 1}
         /\ Partial(final[s]) # final[s]
<1>1. PICK k \in 0 .. Copies : final[s] = At(Wanted[s], k)
  BY DEF NameInv
<1>2. Wanted[s] \in Name
  BY InboxAssumption
<1>3. final[s] \in Path /\ final[s].name = Stem(Wanted[s]) /\ final[s].part \in {0, 1}
  BY <1>1, <1>2, PathTypes
<1>4. Partial(final[s]) \in Path /\ Partial(final[s]).name = final[s].name
      /\ Partial(final[s]).part = final[s].part + 1
  BY <1>3 DEF Path, Partial
<1> QED
  BY <1>2, <1>3, <1>4

(* No .part of a session is the path of a name that is spared.             *)
LEMMA SparedPath ==
  ASSUME NameInv, NEW n \in Name, Spared(n), NEW t \in Session, NEW k
  PROVE  Partial(final[t]) # At(n, k)
<1> SUFFICES ASSUME Partial(final[t]) = At(n, k) PROVE FALSE
  OBVIOUS
<1>1. PICK j \in 0 .. Copies : final[t] = At(Wanted[t], j)
  BY DEF NameInv
<1>2. At(n, k).name = Stem(n) /\ At(n, k).part = IF n \in DOMAIN PartOf THEN 1 ELSE 0
  BY DEF At
<1>3. final[t].part = IF Wanted[t] \in DOMAIN PartOf THEN 1 ELSE 0
  BY <1>1 DEF At
<1>4. n \in DOMAIN PartOf /\ Wanted[t] \notin DOMAIN PartOf /\ Stem(n) = Stem(Wanted[t])
  BY <1>2, <1>3, FinalTypes
<1> QED
  BY <1>4 DEF Spared, Stem

---------------------------------------------------------------------------
(* The sizes involved: a set of numbers has a least one, two numbers have  *)
(* a larger one.                                                           *)
LEMMA MinIsMember ==
  ASSUME NEW S \in SUBSET Nat, S # {}
  PROVE  Min(S) \in S
<1> DEFINE R == OpToRel(<, Nat)
<1>1. IsWellFoundedOn(R, Nat)
  BY NatLessThanWellFounded
<1>2. \A y, x \in Nat : y < x => <<y, x>> \in R
  BY DEF OpToRel
<1> HIDE DEF R
<1>3. PICK x \in S : \A y \in S : ~(<<y, x>> \in R)
  BY <1>1, WFMin
<1>4. ASSUME NEW y \in S PROVE x <= y
  <2>1. x \in Nat /\ y \in Nat
    OBVIOUS
  <2>2. ~(<<y, x>> \in R)
    BY <1>3
  <2>3. ~(y < x)
    BY <1>2, <2>1, <2>2
  <2> QED
    BY <2>1, <2>3
<1> QED
  BY <1>4 DEF Min

(* ... the larger one.                                                     *)
LEMMA MaxOfTwo ==
  ASSUME NEW a \in Nat, NEW b \in Nat
  PROVE  Max({a, b}) \in Nat /\ Max({a, b}) >= a /\ Max({a, b}) >= b
<1>1. \E x \in {a, b} : \A y \in {a, b} : x >= y
  <2>1. CASE a >= b
    BY <2>1
  <2>2. CASE b >= a
    BY <2>2
  <2> QED
    BY <2>1, <2>2
<1>2. Max({a, b}) \in {a, b} /\ \A y \in {a, b} : Max({a, b}) >= y
  BY <1>1 DEF Max
<1> QED
  BY <1>2

(* A picked name is the one asked for or a copy of it.                     *)
LEMMA UniquePathType ==
  ASSUME NEW n \in Name
  PROVE  \E k \in 0 .. Copies : UniquePath(n) = At(n, k)
<1> DEFINE free == {k \in 0 .. Copies : ~Exists(At(n, k))}
<1>1. free # {} => Min(free) \in 0 .. Copies
  BY MinIsMember, InboxAssumption
<1>2. UniquePath(n) = At(n, IF free = {} THEN 0 ELSE Min(free))
  BY DEF UniquePath
<1> QED
  BY <1>1, <1>2, InboxAssumption

(* What a writer makes of the file it has open.                            *)
LEMMA WrittenType ==
  ASSUME TypeOK, NEW s \in Session, fd[s] \in Inode, NEW n \in put[s] .. Units
  PROVE  Written(s, n) \in Seq(Inode \cup {None})
<1> DEFINE old == content[fd[s]]
           reach == IF n = put[s] THEN Len(old) ELSE Max({n, Len(old)})
<1>1. old \in Seq(Inode \cup {None}) /\ Len(old) \in Nat /\ DOMAIN old = 1 .. Len(old)
  BY DEF TypeOK
<1>2. n \in Nat /\ put[s] \in Nat
  BY InboxAssumption DEF TypeOK
<1>3. reach \in Nat
  BY <1>1, <1>2, MaxOfTwo
<1>4. \A k \in 1 .. reach :
        (CASE k \in put[s] + 1 .. n -> s
           [] k \in DOMAIN old \ (put[s] + 1 .. n) -> old[k]
           [] OTHER -> None) \in Inode \cup {None}
  BY <1>1 DEF Inode
<1>5. Written(s, n) =
        [k \in 1 .. reach |->
           CASE k \in put[s] + 1 .. n -> s
             [] k \in DOMAIN old \ (put[s] + 1 .. n) -> old[k]
             [] OTHER -> None]
  BY DEF Written
<1> HIDE DEF reach, old
<1>6. Written(s, n) \in [1 .. reach -> Inode \cup {None}]
  BY <1>4, <1>5
<1> QED
  BY <1>3, <1>6

---------------------------------------------------------------------------
(* Where a session's task goes next, nobody else moves.                    *)
LEMMA Moves ==
  ASSUME TypeOK, NEW s \in Session, NEW from, NEW to \in Phase, Goes(s, from, to)
  PROVE  /\ pc[s] = from /\ pc'[s] = to /\ pc' \in [Session -> Phase]
         /\ \A t \in Session : t # s => pc'[t] = pc[t]
  BY DEF Goes, TypeOK

(* A name is picked.                                                       *)
LEMMA PickNameInv == ASSUME InboxInv, NEW s \in Session, PickName(s) PROVE InboxInv'
<1>1. /\ pc[s] = "start" /\ pc'[s] = "create" /\ pc' \in [Session -> Phase]
      /\ \A t \in Session : t # s => pc'[t] = pc[t]
  BY Moves DEF PickName, InboxInv, Phase
<1>2. Wanted[s] \in Name
  BY InboxAssumption
<1>3. PICK k \in 0 .. Copies : final'[s] = At(Wanted[s], k)
  BY <1>2, UniquePathType DEF PickName, InboxInv, TypeOK
<1>4. final' \in [Session -> Path] /\ \A t \in Session : t # s => final'[t] = final[t]
  <2>1. UniquePath(Wanted[s]) \in Path
    BY <1>2, UniquePathType, PathTypes
  <2> QED
    BY <2>1 DEF PickName, InboxInv, TypeOK
<1>5. UNCHANGED <<dir, content, fd, got, put>>
  BY DEF PickName
<1>6. TypeOK' /\ CountInv'
  BY <1>1, <1>4, <1>5 DEF InboxInv, TypeOK, CountInv
<1>7. NameInv'
  BY <1>3, <1>4 DEF InboxInv, NameInv
<1>8. PartInv'
  <2>1. ASSUME NEW p \in Path, InUse(p) \/ Named(p)
        PROVE  InUse(p)' \/ Named(p)'
    BY <1>1, <1>4, <2>1 DEF InUse, Named, Using
  <2> QED
    BY <1>5, <2>1 DEF InboxInv, PartInv, Exists
<1>9. FamilyInv' /\ DoneMeansThere'
  BY <1>1, <1>4, <1>5 DEF InboxInv, FamilyInv, Family, DoneMeansThere, Using, Exists
<1> QED
  BY <1>6, <1>7, <1>8, <1>9 DEF InboxInv

(* Its .part is created, or taken from whoever has it.                     *)
LEMMA CreatePartialInv == ASSUME InboxInv, NEW s \in Session, CreatePartial(s) PROVE InboxInv'
<1> DEFINE p == Partial(final[s])
           i == IF Exists(p) THEN dir[p] ELSE s
<1>1. /\ pc[s] = "create" /\ pc'[s] = "data" /\ pc' \in [Session -> Phase]
      /\ \A t \in Session : t # s => pc'[t] = pc[t]
  BY Moves DEF CreatePartial, InboxInv, Phase
<1>2. p \in Path /\ p.name = Stem(Wanted[s])
  BY FinalTypes DEF InboxInv
<1>3. i \in Inode /\ i # None /\ Family(i) = Stem(Wanted[s])
  <2>1. CASE Exists(p)
    BY <1>2, <2>1 DEF InboxInv, TypeOK, FamilyInv, Exists
  <2>2. CASE ~Exists(p)
    BY <2>2, InboxAssumption DEF Family, Inode
  <2> QED
    BY <2>1, <2>2
<1>4. /\ dir' = [dir EXCEPT ![p] = i] /\ fd' = [fd EXCEPT ![s] = i]
      /\ content' = [content EXCEPT ![i] = <<>>]
      /\ UNCHANGED <<final, got, put>>
  BY DEF CreatePartial
<1> HIDE DEF p, i
<1>5. dir' \in [Path -> Inode \cup {None}] /\ dir'[p] = i /\ \A q \in Path : q # p => dir'[q] = dir[q]
  BY <1>2, <1>3, <1>4 DEF InboxInv, TypeOK
<1>6. fd' \in [Session -> Inode \cup {None}] /\ fd'[s] = i /\ \A t \in Session : t # s => fd'[t] = fd[t]
  BY <1>3, <1>4 DEF InboxInv, TypeOK
<1>7. TypeOK'
  <2>1. content' \in [Inode -> Seq(Inode \cup {None})]
    BY <1>3, <1>4 DEF InboxInv, TypeOK
  <2> QED
    BY <1>1, <1>4, <1>5, <1>6, <2>1 DEF InboxInv, TypeOK
<1>8. CountInv' /\ NameInv'
  BY <1>1, <1>4 DEF InboxInv, CountInv, NameInv
<1>9. PartInv'
  <2>1. ASSUME NEW q \in Path, InUse(q) \/ Named(q)
        PROVE  InUse(q)' \/ Named(q)'
    BY <1>1, <1>4, <2>1 DEF InUse, Named, Using
  <2>2. ASSUME NEW q \in Path, Exists(q)' PROVE InUse(q)' \/ Named(q)'
    <3>1. CASE q = p
      BY <1>1, <1>4, <3>1 DEF InUse, Using, p
    <3>2. CASE q # p
      <4>1. Exists(q)
        BY <1>5, <2>2, <3>2 DEF Exists
      <4> QED
        BY <2>1, <4>1 DEF InboxInv, PartInv
    <3> QED
      BY <3>1, <3>2
  <2> QED
    BY <2>2 DEF PartInv
<1>10. FamilyInv'
  BY <1>1, <1>2, <1>3, <1>5, <1>6 DEF InboxInv, FamilyInv, Using, Exists, Family
<1>11. DoneMeansThere'
  <2>1. \A t \in Session : final[t] \in Path
    BY DEF InboxInv, TypeOK
  <2> QED
    BY <1>1, <1>3, <1>4, <1>5, <2>1 DEF InboxInv, DoneMeansThere, Exists
<1> QED
  BY <1>7, <1>8, <1>9, <1>10, <1>11 DEF InboxInv

(* Units go into the file that the session has open.                       *)
LEMMA PassOnType ==
  ASSUME InboxInv, NEW s \in Session, pc[s] = "data", NEW n \in put[s] .. Units, PassOn(s, n)
  PROVE  /\ content' \in [Inode -> Seq(Inode \cup {None})]
         /\ put' \in [Session -> 0 .. Units] /\ put'[s] = n
         /\ \A t \in Session : t # s => put'[t] = put[t]
<1>1. fd[s] \in Inode
  BY DEF InboxInv, FamilyInv, Using
<1>2. Written(s, n) \in Seq(Inode \cup {None})
  BY <1>1, WrittenType DEF InboxInv
<1>3. put[s] \in Nat /\ Units \in Nat
  BY InboxAssumption DEF InboxInv, TypeOK
<1> QED
  BY <1>1, <1>2, <1>3 DEF PassOn, InboxInv, TypeOK

(* What does not change the directory, nor a name, nor what is open leaves *)
(* the names, the .part files and what was done as they were, unless the   *)
(* task leaves its file.                                                   *)
LEMMA QuietStep ==
  ASSUME InboxInv, NEW s \in Session, UNCHANGED <<dir, final, fd>>,
         pc' \in [Session -> Phase], \A t \in Session : t # s => pc'[t] = pc[t],
         pc[s] \in Using => pc'[s] \in Using, pc'[s] \in Using => pc[s] \in Using,
         pc[s] # "done", pc'[s] # "done"
  PROVE  NameInv' /\ PartInv' /\ FamilyInv' /\ DoneMeansThere'
<1>1. NameInv'
  BY DEF InboxInv, NameInv
<1>2. PartInv'
  BY DEF InboxInv, PartInv, InUse, Named, Exists
<1>3. FamilyInv'
  BY DEF InboxInv, FamilyInv, Family, Exists
<1>4. DoneMeansThere'
  BY DEF InboxInv, DoneMeansThere, Exists
<1> QED
  BY <1>1, <1>2, <1>3, <1>4

(* The loop over Data, the flush, the checksum.                            *)
LEMMA ContentInv ==
  ASSUME InboxInv, NEW s \in Session, StoreData(s) \/ FlushFile(s) \/ ChecksumMatches(s)
  PROVE  InboxInv'
<1>0. Units \in Nat /\ got[s] \in 0 .. Units /\ put[s] \in 0 .. Units /\ put[s] <= got[s]
  BY InboxAssumption DEF InboxInv, TypeOK
<1>1. CASE StoreData(s)
  <2>1. /\ pc[s] = "data" /\ UNCHANGED <<dir, pc, final, fd>>
        /\ got' \in [Session -> 0 .. Units] /\ got'[s] = got[s] + 1
        /\ \A t \in Session : t # s => got'[t] = got[t]
    BY <1>0, <1>1 DEF StoreData, InboxInv, TypeOK
  <2>2. PICK n \in put[s] .. got'[s] : PassOn(s, n)
    BY <1>1 DEF StoreData
  <2>3. n \in put[s] .. Units /\ n <= got'[s]
    BY <1>0, <1>1, <2>1, <2>2 DEF StoreData
  <2>4. /\ content' \in [Inode -> Seq(Inode \cup {None})]
        /\ put' \in [Session -> 0 .. Units] /\ put'[s] = n
        /\ \A t \in Session : t # s => put'[t] = put[t]
    BY <2>1, <2>2, <2>3, PassOnType
  <2>5. TypeOK'
    BY <2>1, <2>3, <2>4 DEF InboxInv, TypeOK
  <2>6. CountInv'
    BY <2>1, <2>4 DEF InboxInv, CountInv
  <2>7. NameInv' /\ PartInv' /\ FamilyInv' /\ DoneMeansThere'
    BY <2>1, QuietStep DEF InboxInv, TypeOK
  <2> QED
    BY <2>5, <2>6, <2>7 DEF InboxInv
<1>2. CASE FlushFile(s)
  <2>1. /\ pc[s] = "data" /\ pc'[s] = "check" /\ pc' \in [Session -> Phase]
        /\ \A t \in Session : t # s => pc'[t] = pc[t]
    BY <1>2, Moves DEF FlushFile, InboxInv, Phase
  <2>2. got[s] = Units /\ PassOn(s, Units) /\ UNCHANGED <<dir, final, fd, got>>
    BY <1>2 DEF FlushFile
  <2>3. /\ content' \in [Inode -> Seq(Inode \cup {None})]
        /\ put' \in [Session -> 0 .. Units] /\ put'[s] = Units
        /\ \A t \in Session : t # s => put'[t] = put[t]
    BY <1>0, <2>1, <2>2, PassOnType
  <2>4. TypeOK'
    <3>1. ASSUME NEW t \in Session PROVE put'[t] <= got'[t]
      <4>1. CASE t = s
        BY <1>0, <2>2, <2>3, <4>1
      <4>2. CASE t # s
        BY <2>2, <2>3, <4>2 DEF InboxInv, TypeOK
      <4> QED
        BY <4>1, <4>2
    <3> QED
      BY <2>1, <2>2, <2>3, <3>1 DEF InboxInv, TypeOK
  <2>5. CountInv'
    BY <2>1, <2>2, <2>3 DEF InboxInv, CountInv
  <2>6. NameInv' /\ PartInv' /\ FamilyInv' /\ DoneMeansThere'
    BY <2>1, <2>2, QuietStep DEF Using
  <2> QED
    BY <2>4, <2>5, <2>6 DEF InboxInv
<1>3. CASE ChecksumMatches(s)
  <2>1. /\ pc[s] = "check" /\ pc'[s] = "rename" /\ pc' \in [Session -> Phase]
        /\ \A t \in Session : t # s => pc'[t] = pc[t]
    BY <1>3, Moves DEF ChecksumMatches, InboxInv, Phase
  <2>2. UNCHANGED <<dir, content, final, fd, got, put>>
    BY <1>3 DEF ChecksumMatches
  <2>3. TypeOK' /\ CountInv'
    BY <2>1, <2>2 DEF InboxInv, TypeOK, CountInv
  <2>4. NameInv' /\ PartInv' /\ FamilyInv' /\ DoneMeansThere'
    BY <2>1, <2>2, QuietStep DEF Using
  <2> QED
    BY <2>3, <2>4 DEF InboxInv
<1> QED
  BY <1>1, <1>2, <1>3

(* A .part goes: that is nobody's final name that is spared, and whoever   *)
(* used it has none there any more.                                        *)
LEMMA RemovePartialInv ==
  ASSUME InboxInv, NEW s \in Session, ChecksumDiffers(s) \/ Interrupted(s)
  PROVE  InboxInv'
<1> DEFINE p == Partial(final[s])
<1>1. /\ pc[s] \in Using /\ pc'[s] \in {"corrupt", "stopped"} /\ pc' \in [Session -> Phase]
      /\ \A t \in Session : t # s => pc'[t] = pc[t]
  <2>1. CASE ChecksumDiffers(s)
    BY <2>1, Moves DEF ChecksumDiffers, InboxInv, Phase, Using
  <2>2. CASE Interrupted(s)
    BY <2>2, Moves DEF Interrupted, InboxInv, Phase, Using
  <2> QED
    BY <2>1, <2>2
<1>2. dir' = [dir EXCEPT ![p] = None] /\ UNCHANGED <<content, final, fd, got, put>>
  BY DEF ChecksumDiffers, Interrupted, RemovePartial
<1>3. p \in Path /\ \A t \in Session : Spared(Wanted[t]) => final[t] # p
  <2>1. ASSUME NEW t \in Session, Spared(Wanted[t]) PROVE final[t] # p
    <3>1. PICK k \in 0 .. Copies : final[t] = At(Wanted[t], k)
      BY DEF InboxInv, NameInv
    <3> QED
      BY <2>1, <3>1, SparedPath, InboxAssumption DEF InboxInv
  <2> QED
    BY <2>1, FinalTypes DEF InboxInv
<1>4. \A t \in Session : (t # s /\ pc[t] \in Using) \/ pc[t] = "done" => pc'[t] = pc[t]
  BY <1>1 DEF Using
<1>5. \A q \in Path : InUse(q) /\ q # p => \E t \in Session : pc'[t] \in Using /\ Partial(final'[t]) = q
  BY <1>2, <1>4 DEF InUse
<1> HIDE DEF p
<1>6. dir' \in [Path -> Inode \cup {None}] /\ dir'[p] = None /\ \A q \in Path : q # p => dir'[q] = dir[q]
  BY <1>2, <1>3 DEF InboxInv, TypeOK
<1>7. TypeOK' /\ CountInv' /\ NameInv'
  BY <1>1, <1>2, <1>6 DEF InboxInv, TypeOK, CountInv, NameInv, Using
<1>8. PartInv'
  <2>1. ASSUME NEW q \in Path, Exists(q)' PROVE InUse(q)' \/ Named(q)'
    <3>1. q # p /\ Exists(q)
      BY <1>6, <2>1 DEF Exists
    <3>2. CASE InUse(q)
      BY <1>5, <3>1, <3>2 DEF InUse
    <3>3. CASE Named(q)
      BY <1>2, <1>4, <3>3 DEF Named
    <3> QED
      BY <3>1, <3>2, <3>3 DEF InboxInv, PartInv
  <2> QED
    BY <2>1 DEF PartInv
<1>9. FamilyInv'
  BY <1>1, <1>2, <1>6 DEF InboxInv, FamilyInv, Exists, Using, Family
<1>10. DoneMeansThere'
  BY <1>1, <1>2, <1>3, <1>6 DEF InboxInv, TypeOK, DoneMeansThere, Exists
<1> QED
  BY <1>7, <1>8, <1>9, <1>10 DEF InboxInv

(* A .part gets its final name, if it is still there.                      *)
LEMMA RenameInv == ASSUME InboxInv, NEW s \in Session, Rename(s) PROVE InboxInv'
<1> DEFINE p == Partial(final[s])
<1>1. UNCHANGED <<content, final, fd, got, put>>
  BY DEF Rename
<1>2. /\ p \in Path /\ final[s] \in Path /\ final[s] # p
      /\ p.name = Stem(Wanted[s]) /\ final[s].name = Stem(Wanted[s])
  BY FinalTypes DEF InboxInv
<1>3. \A t \in Session : Spared(Wanted[t]) => final[t] # p
  <2>1. ASSUME NEW t \in Session, Spared(Wanted[t]) PROVE final[t] # p
    <3>1. PICK k \in 0 .. Copies : final[t] = At(Wanted[t], k)
      BY DEF InboxInv, NameInv
    <3> QED
      BY <2>1, <3>1, SparedPath, InboxAssumption DEF InboxInv
  <2> QED
    BY <2>1
<1>4. CASE Exists(p)
  <2>1. Goes(s, "rename", "done") /\ dir' = [dir EXCEPT ![final[s]] = dir[p], ![p] = None]
    BY <1>4 DEF Rename
  <2>2. /\ pc[s] = "rename" /\ pc'[s] = "done" /\ pc' \in [Session -> Phase]
        /\ \A t \in Session : t # s => pc'[t] = pc[t]
    BY <2>1, Moves DEF InboxInv, Phase
  <2>3. \A q \in Path : InUse(q) /\ q # p => \E t \in Session : pc'[t] \in Using /\ Partial(final'[t]) = q
    BY <1>1, <2>2 DEF InUse
  <2> HIDE DEF p
  <2>4. dir[p] # None /\ Family(dir[p]) = Stem(Wanted[s])
    BY <1>2, <1>4 DEF InboxInv, FamilyInv, Exists
  <2>5. /\ dir' \in [Path -> Inode \cup {None}] /\ dir'[p] = None /\ dir'[final[s]] = dir[p]
        /\ \A q \in Path : q # p /\ q # final[s] => dir'[q] = dir[q]
    BY <1>2, <2>1 DEF InboxInv, TypeOK
  <2>6. TypeOK' /\ CountInv' /\ NameInv'
    BY <1>1, <2>2, <2>5 DEF InboxInv, TypeOK, CountInv, NameInv
  <2>7. PartInv'
    <3>1. ASSUME NEW q \in Path, Exists(q)' PROVE InUse(q)' \/ Named(q)'
      <4>1. CASE q = final[s]
        BY <1>1, <2>2, <4>1 DEF Named
      <4>2. CASE q # final[s]
        <5>1. q # p /\ Exists(q)
          BY <2>5, <3>1, <4>2 DEF Exists
        <5>2. CASE InUse(q)
          BY <2>3, <5>1, <5>2 DEF InUse
        <5>3. CASE Named(q)
          BY <1>1, <2>2, <5>3 DEF Named
        <5> QED
          BY <5>1, <5>2, <5>3 DEF InboxInv, PartInv
      <4> QED
        BY <4>1, <4>2
    <3> QED
      BY <3>1 DEF PartInv
  <2>8. FamilyInv'
    <3>1. \A t \in Session : pc'[t] \in Using => pc[t] \in Using
      BY <2>2 DEF Using
    <3>2. \A q \in Path : Exists(q)' => Family(dir'[q]) = q.name
      BY <1>2, <2>4, <2>5 DEF InboxInv, FamilyInv, Exists
    <3> QED
      BY <1>1, <3>1, <3>2 DEF InboxInv, FamilyInv, Family
  <2>9. DoneMeansThere'
    BY <1>1, <1>3, <2>2, <2>4, <2>5 DEF InboxInv, TypeOK, DoneMeansThere, Exists
  <2> QED
    BY <2>6, <2>7, <2>8, <2>9 DEF InboxInv
<1>5. CASE ~Exists(p)
  <2>1. Goes(s, "rename", "failed") /\ UNCHANGED dir
    BY <1>5 DEF Rename
  <2>2. /\ pc[s] = "rename" /\ pc'[s] = "failed" /\ pc' \in [Session -> Phase]
        /\ \A t \in Session : t # s => pc'[t] = pc[t]
    BY <2>1, Moves DEF InboxInv, Phase
  <2>3. TypeOK' /\ CountInv' /\ NameInv'
    BY <1>1, <2>1, <2>2 DEF InboxInv, TypeOK, CountInv, NameInv
  <2>4. PartInv'
    <3>1. ASSUME NEW q \in Path, Exists(q) PROVE InUse(q)' \/ Named(q)'
      <4>1. CASE InUse(q)
        BY <1>1, <1>5, <2>2, <3>1, <4>1 DEF InUse
      <4>2. CASE Named(q)
        BY <1>1, <2>2, <4>2 DEF Named
      <4> QED
        BY <3>1, <4>1, <4>2 DEF InboxInv, PartInv
    <3> QED
      BY <2>1, <3>1 DEF PartInv, Exists
  <2>5. FamilyInv' /\ DoneMeansThere'
    BY <1>1, <2>1, <2>2 DEF InboxInv, FamilyInv, Family, DoneMeansThere, Exists, Using
  <2> QED
    BY <2>3, <2>4, <2>5 DEF InboxInv
<1> QED
  BY <1>4, <1>5

(* A session that never opens its file.                                    *)
LEMMA NeverOpenedInv == ASSUME InboxInv, NEW s \in Session, NeverOpened(s) PROVE InboxInv'
<1>1. /\ pc[s] \in {"start", "create"} /\ pc'[s] = "failed" /\ pc' \in [Session -> Phase]
      /\ \A t \in Session : t # s => pc'[t] = pc[t]
  BY Moves DEF NeverOpened, InboxInv, Phase
<1>2. UNCHANGED <<dir, content, final, fd, got, put>>
  BY DEF NeverOpened
<1>3. TypeOK' /\ CountInv'
  BY <1>1, <1>2 DEF InboxInv, TypeOK, CountInv
<1>4. NameInv' /\ PartInv' /\ FamilyInv' /\ DoneMeansThere'
  BY <1>1, <1>2, QuietStep DEF Using
<1> QED
  BY <1>3, <1>4 DEF InboxInv

(* Nor does anything change by itself.                                     *)
LEMMA Stutter == ASSUME InboxInv, UNCHANGED vars PROVE InboxInv'
  BY DEF vars, InboxInv, TypeOK, CountInv, NameInv, PartInv, InUse, Named, FamilyInv, Family,
     DoneMeansThere, Exists

(* At first there are only the user's files.                               *)
LEMMA InboxInit == Init => InboxInv
<1> SUFFICES ASSUME Init PROVE InboxInv
  OBVIOUS
<1>1. \A s \in Session : final[s] = At(Wanted[s], 0) /\ 0 \in 0 .. Copies /\ Wanted[s] \in Name
  BY InboxAssumption DEF Init
<1>2. \A s \in Session : final[s] \in Path
  BY <1>1, PathTypes
<1>3. ASSUME NEW p \in Path
      PROVE  /\ dir[p] \in Inode \cup {None}
             /\ Exists(p) => Named(p) /\ Family(dir[p]) = p.name
  <2>1. CASE p \in {At(n, 0) : n \in Kept}
    <3> DEFINE n == CHOOSE m \in Kept : At(m, 0) = p
    <3>1. n \in Kept /\ At(n, 0) = p
      BY <2>1
    <3>2. dir[p] = n
      BY <2>1 DEF Init
    <3> HIDE DEF n
    <3>3. n \in Name /\ n \notin Session /\ p.name = Stem(n)
      BY <3>1, InboxAssumption DEF At
    <3> QED
      BY <2>1, <3>2, <3>3 DEF Named, Family, Inode
  <2>2. CASE p \notin {At(n, 0) : n \in Kept}
    BY <2>2 DEF Init, Exists
  <2> QED
    BY <2>1, <2>2
<1>4. dir \in [Path -> Inode \cup {None}]
  BY <1>3 DEF Init
<1>5. content \in [Inode -> Seq(Inode \cup {None})]
  <2>1. \A i \in Inode : <<i>> \in Seq(Inode \cup {None}) /\ <<>> \in Seq(Inode \cup {None})
    OBVIOUS
  <2> QED
    BY <2>1 DEF Init
<1>6. TypeOK
  BY <1>2, <1>4, <1>5, InboxAssumption DEF Init, TypeOK, Phase
<1>7. CountInv /\ NameInv
  BY <1>1 DEF Init, CountInv, NameInv
<1>8. \A s \in Session : pc[s] = "start"
  BY DEF Init
<1> QED
  BY <1>3, <1>6, <1>7, <1>8 DEF InboxInv, PartInv, FamilyInv, DoneMeansThere, Using

(* So the invariant holds all the time.                                    *)
LEMMA InboxInvHolds == Spec => []InboxInv
<1>1. InboxInv /\ [Next]_vars => InboxInv'
  <2> SUFFICES ASSUME InboxInv, [Next]_vars PROVE InboxInv'
    OBVIOUS
  <2>1. CASE Next
    BY <2>1, PickNameInv, CreatePartialInv, ContentInv, RemovePartialInv, RenameInv, NeverOpenedInv,
       Stutter DEF Next, AllEnded
  <2>2. CASE UNCHANGED vars
    BY <2>2, Stutter
  <2> QED
    BY <2>1, <2>2
<1> QED
  BY <1>1, InboxInit, PTL DEF Spec

---------------------------------------------------------------------------
(* The bookkeeping of the sessions and of the directory is well typed: no  *)
(* writer passes on more than it got.                                      *)
THEOREM TypeCorrect == Spec => []TypeOK
<1>1. InboxInv => TypeOK
  BY DEF InboxInv
<1> QED
  BY <1>1, InboxInvHolds, PTL

(* However many sessions write to the same .part, the last one to leave it *)
(* takes it along (transfer.rs:458).                                       *)
THEOREM PartsGo == Spec => []NoPartLeft
<1>1. InboxInv => NoPartLeft
  BY DEF InboxInv, PartInv, InUse, NoPartLeft, Using, Ended
<1> QED
  BY <1>1, InboxInvHolds, PTL

(* The file a session has reported as done is there, if it is not the      *)
(* .part of a name that another session wants (transfer.rs:438-441).       *)
THEOREM DoneIsThere == Spec => []DoneMeansThere
<1>1. InboxInv => DoneMeansThere
  BY DEF InboxInv
<1> QED
  BY <1>1, InboxInvHolds, PTL

---------------------------------------------------------------------------
(* The file of a session whose name no other session wants.  The others    *)
(* only touch paths and files of their own families of names, so its .part *)
(* leads to the file it has open, with the units it has passed on in it    *)
(* and nothing else.                                                       *)
OwnInv ==
  \A s \in Session : Alone(s) =>
    /\ pc[s] \in Using =>
         dir[Partial(final[s])] = fd[s] /\ content[fd[s]] = [k \in 1 .. put[s] |-> s]
    /\ pc[s] \in {"check", "rename"} => put[s] = Units
    /\ pc[s] = "done" => dir[final[s]] # None /\ Intact(s)

Step(s) ==
  \/ PickName(s) \/ CreatePartial(s) \/ StoreData(s) \/ FlushFile(s)
  \/ ChecksumMatches(s) \/ ChecksumDiffers(s) \/ Rename(s)
  \/ Interrupted(s) \/ NeverOpened(s)

(* What a session of another family leaves alone.                          *)
LEMMA OthersKeepOff ==
  ASSUME InboxInv, NEW s \in Session, NEW t \in Session,
         Stem(Wanted[s]) # Stem(Wanted[t]), Step(t)
  PROVE  /\ pc'[s] = pc[s] /\ final'[s] = final[s] /\ fd'[s] = fd[s] /\ put'[s] = put[s]
         /\ \A q \in Path : q.name = Stem(Wanted[s]) => dir'[q] = dir[q]
         /\ \A i \in Inode : Family(i) = Stem(Wanted[s]) => content'[i] = content[i]
<1>1. s # t
  OBVIOUS
<1>2. pc'[s] = pc[s] /\ final'[s] = final[s] /\ fd'[s] = fd[s] /\ put'[s] = put[s]
  BY <1>1 DEF Step, PickName, CreatePartial, StoreData, FlushFile, PassOn, ChecksumMatches,
     ChecksumDiffers, Rename, Interrupted, NeverOpened, Goes, InboxInv, TypeOK
<1>3. /\ final[t] \in Path /\ final[t].name = Stem(Wanted[t])
      /\ Partial(final[t]) \in Path /\ Partial(final[t]).name = Stem(Wanted[t])
  BY FinalTypes DEF InboxInv
<1>4. \A q \in Path : q.name = Stem(Wanted[s]) => dir'[q] = dir[q]
  BY <1>3 DEF Step, PickName, CreatePartial, StoreData, FlushFile, ChecksumMatches,
     ChecksumDiffers, RemovePartial, Rename, Interrupted, NeverOpened, InboxInv, TypeOK
<1>5. ASSUME NEW i \in Inode, Family(i) = Stem(Wanted[s]) PROVE content'[i] = content[i]
  <2>1. CASE CreatePartial(t)
    <3> DEFINE j == IF Exists(Partial(final[t])) THEN dir[Partial(final[t])] ELSE t
    <3>1. Family(j) = Stem(Wanted[t])
      <4>1. CASE Exists(Partial(final[t]))
        BY <1>3, <4>1 DEF InboxInv, FamilyInv
      <4>2. CASE ~Exists(Partial(final[t]))
        BY <4>2 DEF Family
      <4> QED
        BY <4>1, <4>2
    <3>2. content' = [content EXCEPT ![j] = <<>>]
      BY <2>1 DEF CreatePartial
    <3> QED
      BY <1>5, <3>1, <3>2 DEF InboxInv, TypeOK
  <2>2. CASE StoreData(t) \/ FlushFile(t)
    <3>1. pc[t] = "data" /\ \E n : PassOn(t, n)
      BY <2>2 DEF StoreData, FlushFile, Goes
    <3>2. fd[t] # i
      BY <1>5, <3>1 DEF InboxInv, FamilyInv, Using
    <3> QED
      BY <3>1, <3>2 DEF PassOn, InboxInv, TypeOK
  <2>3. CASE UNCHANGED content
    BY <2>3
  <2> QED
    BY <2>1, <2>2, <2>3 DEF Step, PickName, ChecksumMatches, ChecksumDiffers, Rename, Interrupted,
       NeverOpened
<1> QED
  BY <1>2, <1>4, <1>5

(* Units passed on follow those that are there.                            *)
LEMMA OwnWritten ==
  ASSUME TypeOK, NEW s \in Session, fd[s] \in Inode, content[fd[s]] = [k \in 1 .. put[s] |-> s],
         NEW n \in put[s] .. Units, PassOn(s, n)
  PROVE  content'[fd[s]] = [k \in 1 .. put'[s] |-> s] /\ put'[s] = n
<1> DEFINE old == content[fd[s]]
<1>1. put[s] \in Nat /\ n \in Nat /\ n >= put[s]
  BY InboxAssumption DEF TypeOK
<1>2. put'[s] = n /\ content'[fd[s]] = Written(s, n)
  BY DEF PassOn, TypeOK
<1>3. old \in Seq(Inode \cup {None}) /\ DOMAIN old = 1 .. put[s]
  BY DEF TypeOK
<1>4. Len(old) = put[s]
  BY <1>1, <1>3
<1>5. CASE n = put[s]
  <2>1. Written(s, n) = [k \in 1 .. n |-> s]
    BY <1>1, <1>3, <1>4, <1>5 DEF Written
  <2> QED
    BY <1>2, <2>1
<1>6. CASE n # put[s]
  <2> DEFINE len == Len(old)
  <2>1. len \in Nat /\ len <= n
    BY <1>1, <1>4
  <2> HIDE DEF len
  <2>2. Max({n, len}) = n
    <3>1. \A y \in {n, len} : n >= y
      BY <1>1, <2>1
    <3>2. Max({n, len}) \in {n, len} /\ Max({n, len}) >= n
      BY <3>1 DEF Max
    <3>3. ASSUME NEW m \in {n, len}, m >= n PROVE m = n
      BY <1>1, <2>1, <3>3
    <3> QED
      BY <3>2, <3>3
  <2> DEFINE cell(k) == CASE k \in put[s] + 1 .. n -> s
                          [] k \in DOMAIN old \ (put[s] + 1 .. n) -> old[k]
                          [] OTHER -> None
  <2>3. Written(s, n) = [k \in 1 .. n |-> cell(k)]
    BY <1>6, <2>2 DEF Written, len
  <2>4. ASSUME NEW k \in 1 .. n PROVE cell(k) = s
    <3>1. CASE k \in put[s] + 1 .. n
      BY <3>1
    <3>2. CASE k \notin put[s] + 1 .. n
      <4>1. k \in 1 .. put[s]
        BY <1>1, <3>2
      <4>2. old[k] = s
        BY <4>1
      <4> QED
        BY <1>3, <3>2, <4>1, <4>2
    <3> QED
      BY <3>1, <3>2
  <2> HIDE DEF cell
  <2>5. Written(s, n) = [k \in 1 .. n |-> s]
    BY <2>3, <2>4
  <2> QED
    BY <1>2, <2>5
<1> QED
  BY <1>5, <1>6

(* The steps of the session itself.                                        *)
LEMMA OwnStep ==
  ASSUME InboxInv, InboxInv', OwnInv, NEW s \in Session, Alone(s), Step(s)
  PROVE  /\ pc'[s] \in Using =>
              /\ dir'[Partial(final'[s])] = fd'[s]
              /\ content'[fd'[s]] = [k \in 1 .. put'[s] |-> s]
         /\ pc'[s] \in {"check", "rename"} => put'[s] = Units
         /\ pc'[s] = "done" =>
              dir'[final'[s]] # None /\ content'[dir'[final'[s]]] = [k \in 1 .. Units |-> s]
<1> DEFINE p == Partial(final[s])
<1>1. p \in Path /\ final[s] \in Path /\ p # final[s]
  BY FinalTypes DEF InboxInv
<1>2. CASE PickName(s) \/ NeverOpened(s) \/ ChecksumDiffers(s) \/ Interrupted(s)
  <2>1. pc'[s] \in {"create", "failed", "corrupt", "stopped"}
    BY <1>2 DEF PickName, NeverOpened, ChecksumDiffers, Interrupted, Goes, InboxInv, TypeOK
  <2> QED
    BY <2>1 DEF Using
<1>3. CASE CreatePartial(s)
  <2> DEFINE i == IF Exists(p) THEN dir[p] ELSE s
  <2>1. pc[s] = "create" /\ pc'[s] = "data" /\ UNCHANGED <<final, got, put>>
    BY <1>3 DEF CreatePartial, Goes, InboxInv, TypeOK
  <2>2. i \in Inode
    BY <1>1 DEF Exists, Inode, InboxInv, TypeOK
  <2>3. /\ dir' = [dir EXCEPT ![p] = i] /\ fd' = [fd EXCEPT ![s] = i]
        /\ content' = [content EXCEPT ![i] = <<>>]
    BY <1>3 DEF CreatePartial
  <2>4. put[s] = 0
    BY <2>1 DEF InboxInv, CountInv
  <2> HIDE DEF i
  <2>5. fd'[s] = i /\ dir'[p] = i /\ content'[i] = <<>>
    BY <1>1, <2>2, <2>3 DEF InboxInv, TypeOK
  <2>6. [k \in 1 .. 0 |-> s] = <<>>
    OBVIOUS
  <2>7. content'[fd'[s]] = [k \in 1 .. put'[s] |-> s]
    BY <2>1, <2>4, <2>5, <2>6
  <2> QED
    BY <2>1, <2>5, <2>7
<1>4. CASE StoreData(s)
  <2>1. pc[s] = "data" /\ pc'[s] = "data" /\ UNCHANGED <<dir, final, fd>>
    BY <1>4 DEF StoreData
  <2>2. got[s] \in Nat /\ got[s] + 1 <= Units /\ put[s] \in Nat /\ got'[s] = got[s] + 1 /\ Units \in Nat
    BY <1>4, InboxAssumption DEF StoreData, InboxInv, TypeOK
  <2>3. PICK n \in put[s] .. got'[s] : PassOn(s, n)
    BY <1>4 DEF StoreData
  <2>4. n \in put[s] .. Units
    BY <2>2, <2>3
  <2>5. dir[p] = fd[s] /\ content[fd[s]] = [k \in 1 .. put[s] |-> s] /\ fd[s] \in Inode
    BY <2>1 DEF OwnInv, Using, InboxInv, FamilyInv
  <2>6. content'[fd[s]] = [k \in 1 .. put'[s] |-> s]
    BY <2>3, <2>4, <2>5, OwnWritten DEF InboxInv
  <2> QED
    BY <2>1, <2>5, <2>6
<1>5. CASE FlushFile(s)
  <2>1. pc[s] = "data" /\ pc'[s] = "check" /\ UNCHANGED <<dir, final, fd>> /\ PassOn(s, Units)
    BY <1>5 DEF FlushFile, Goes, InboxInv, TypeOK
  <2>2. Units \in put[s] .. Units
    BY InboxAssumption DEF InboxInv, TypeOK
  <2>3. dir[p] = fd[s] /\ content[fd[s]] = [k \in 1 .. put[s] |-> s] /\ fd[s] \in Inode
    BY <2>1 DEF OwnInv, Using, InboxInv, FamilyInv
  <2>4. content'[fd[s]] = [k \in 1 .. put'[s] |-> s] /\ put'[s] = Units
    BY <2>1, <2>2, <2>3, OwnWritten DEF InboxInv
  <2> QED
    BY <2>1, <2>3, <2>4
<1>6. CASE ChecksumMatches(s)
  <2>1. pc[s] = "check" /\ pc'[s] = "rename" /\ UNCHANGED <<dir, content, final, fd, put>>
    BY <1>6 DEF ChecksumMatches, Goes, InboxInv, TypeOK
  <2> QED
    BY <2>1 DEF OwnInv, Using
<1>7. CASE Rename(s)
  <2>1. /\ pc[s] = "rename" /\ UNCHANGED <<content, final, fd, put>> /\ fd[s] \in Inode
        /\ dir[p] = fd[s] /\ content[fd[s]] = [k \in 1 .. put[s] |-> s] /\ put[s] = Units
    BY <1>7 DEF Rename, Goes, OwnInv, Using, InboxInv, FamilyInv
  <2>2. fd[s] # None
    BY <2>1, InboxAssumption DEF Inode
  <2>3. Goes(s, "rename", "done") /\ dir' = [dir EXCEPT ![final[s]] = dir[p], ![p] = None]
    BY <1>7, <2>1, <2>2 DEF Rename, Exists
  <2>4. pc'[s] = "done"
    BY <2>3 DEF Goes, InboxInv, TypeOK
  <2> HIDE DEF p
  <2>5. dir'[final[s]] = fd[s]
    BY <1>1, <2>1, <2>3 DEF InboxInv, TypeOK
  <2> QED
    BY <2>1, <2>2, <2>4, <2>5 DEF Using
<1> QED
  BY <1>2, <1>3, <1>4, <1>5, <1>6, <1>7 DEF Step

(* Nobody's step takes a session's file away from it.                      *)
LEMMA OwnInvKept == ASSUME InboxInv, InboxInv', OwnInv, [Next]_vars PROVE OwnInv'
<1>1. CASE UNCHANGED vars
  BY <1>1 DEF vars, OwnInv, Alone, Intact
<1>2. ASSUME NEW t \in Session, Step(t) PROVE OwnInv'
  <2> SUFFICES ASSUME NEW s \in Session, Alone(s)
               PROVE  /\ pc'[s] \in Using =>
                           /\ dir'[Partial(final'[s])] = fd'[s]
                           /\ content'[fd'[s]] = [k \in 1 .. put'[s] |-> s]
                      /\ pc'[s] \in {"check", "rename"} => put'[s] = Units
                      /\ pc'[s] = "done" =>
                           /\ dir'[final'[s]] # None
                           /\ content'[dir'[final'[s]]] = [k \in 1 .. Units |-> s]
    BY DEF OwnInv, Alone, Intact, Partial
  <2>1. CASE s = t
    BY <1>2, <2>1, OwnStep
  <2>2. CASE s # t
    <3>1. Stem(Wanted[s]) # Stem(Wanted[t])
      BY <2>2 DEF Alone
    <3>2. /\ pc'[s] = pc[s] /\ final'[s] = final[s] /\ fd'[s] = fd[s] /\ put'[s] = put[s]
          /\ \A q \in Path : q.name = Stem(Wanted[s]) => dir'[q] = dir[q]
          /\ \A i \in Inode : Family(i) = Stem(Wanted[s]) => content'[i] = content[i]
      BY <1>2, <3>1, OthersKeepOff
    <3>3. /\ final[s] \in Path /\ final[s].name = Stem(Wanted[s])
          /\ Partial(final[s]) \in Path /\ Partial(final[s]).name = Stem(Wanted[s])
      BY FinalTypes DEF InboxInv
    <3>4. dir'[final[s]] = dir[final[s]] /\ dir'[Partial(final[s])] = dir[Partial(final[s])]
      BY <3>2, <3>3
    <3>5. pc[s] \in Using => content'[fd[s]] = content[fd[s]]
      BY <3>2 DEF InboxInv, FamilyInv
    <3>6. pc[s] = "done" => content'[dir[final[s]]] = content[dir[final[s]]]
      <4> HAVE pc[s] = "done"
      <4>1. dir[final[s]] # None /\ dir[final[s]] \in Inode
        BY <3>3 DEF OwnInv, InboxInv, TypeOK
      <4>2. Family(dir[final[s]]) = Stem(Wanted[s])
        BY <3>3, <4>1 DEF InboxInv, FamilyInv, Exists
      <4> QED
        BY <3>2, <4>1, <4>2
    <3> QED
      BY <3>2, <3>4, <3>5, <3>6 DEF OwnInv, Intact
  <2> QED
    BY <2>1, <2>2
<1> QED
  BY <1>1, <1>2 DEF Next, AllEnded, Step

(* What a session has checked and reported is what is on disk, whatever    *)
(* happens among the other sessions, if none of them wants the same name   *)
(* or its .part (README.md:14, transfer.rs:371-447).                       *)
THEOREM LonelyFilesAreIntact == Spec => []AloneIsIntact
<1>1. Init => OwnInv
  BY DEF Init, OwnInv, Using
<1>2. InboxInv /\ InboxInv' /\ OwnInv /\ [Next]_vars => OwnInv'
  BY OwnInvKept
<1>3. OwnInv => AloneIsIntact
  BY DEF OwnInv, AloneIsIntact, Intact
<1> QED
  BY <1>1, <1>2, <1>3, InboxInvHolds, PTL DEF Spec

---------------------------------------------------------------------------
(* The user's own files.  As long as no more sessions want the name of one *)
(* of them than there are copy numbers, each of the sessions finds a free  *)
(* copy: every number that is taken is taken by a session that is done.    *)
Wanting(n) == {s \in Session : Wanted[s] = n}

Roomy ==
  \A n \in Kept : Spared(n) => IsFiniteSet(Wanting(n)) /\ Cardinality(Wanting(n)) <= Copies

KeptInv ==
  \A n \in Kept : Spared(n) =>
    /\ IsKept(n)
    /\ \A p \in Path : dir[p] = n => p = At(n, 0)
    /\ \A s \in Session :
         /\ pc[s] \in Using => fd[s] # n
         /\ pc[s] \in {"create"} \cup Using => final[s] # At(n, 0)

(* A session that has not picked its name yet leaves a copy number to it.  *)
LEMMA FreeCopy ==
  ASSUME Roomy, InboxInv, NEW s \in Session, pc[s] = "start", Wanted[s] \in Kept, Spared(Wanted[s])
  PROVE  \E k \in 0 .. Copies : ~Exists(At(Wanted[s], k))
<1> DEFINE n == Wanted[s]
           others == Wanting(n) \ {s}
<1> SUFFICES ASSUME \A k \in 0 .. Copies : Exists(At(n, k)) PROVE FALSE
  OBVIOUS
<1>1. Copies \in Nat /\ n \in Name /\ NameInv
  BY InboxAssumption DEF InboxInv
<1>2. IsFiniteSet(others) /\ Cardinality(others) < Copies
  <2>1. IsFiniteSet(Wanting(n)) /\ Cardinality(Wanting(n)) <= Copies /\ s \in Wanting(n)
    BY DEF Roomy, Wanting
  <2>2. Cardinality(Wanting(n)) \in Nat
    BY <2>1, FS_CardinalityType
  <2>3. IsFiniteSet(others) /\ Cardinality(others) = Cardinality(Wanting(n)) - 1
    BY <2>1, FS_RemoveElement
  <2> QED
    BY <1>1, <2>1, <2>2, <2>3
<1>3. IsFiniteSet(1 .. Copies) /\ Cardinality(1 .. Copies) = Copies
  BY <1>1, FS_Interval
<1>4. \A k \in 1 .. Copies : \E t \in others : final[t] = At(n, k)
  <2> SUFFICES ASSUME NEW k \in 1 .. Copies PROVE \E t \in others : final[t] = At(n, k)
    OBVIOUS
  <2>1. k \in 0 .. Copies /\ k # 0
    BY <1>1
  <2>2. At(n, k) \in Path /\ Exists(At(n, k))
    BY <1>1, <2>1, PathTypes
  <2>3. ~InUse(At(n, k))
    BY <1>1, SparedPath DEF InUse
  <2>4. Named(At(n, k))
    BY <2>2, <2>3 DEF InboxInv, PartInv
  <2>5. \A m \in Kept : At(m, 0) # At(n, k)
    BY <1>1, <2>1, PathsDiffer, InboxAssumption
  <2>6. PICK t \in Session : pc[t] = "done" /\ final[t] = At(n, k)
    BY <2>4, <2>5 DEF Named
  <2>7. PICK j \in 0 .. Copies : final[t] = At(Wanted[t], j)
    BY <1>1 DEF NameInv
  <2>8. Wanted[t] = n
    <3>1. Wanted[t] \in Name /\ At(Wanted[t], j) = At(n, k)
      BY <2>6, <2>7, InboxAssumption
    <3> QED
      BY <1>1, <3>1, PathsDiffer
  <2> QED
    BY <2>6, <2>8 DEF Wanting
<1> DEFINE f == [k \in 1 .. Copies |-> CHOOSE t \in others : final[t] = At(n, k)]
<1>5. \A k \in 1 .. Copies : f[k] \in others /\ final[f[k]] = At(n, k)
  BY <1>4
<1>6. f \in [1 .. Copies -> others]
  BY <1>5
<1> HIDE DEF f, others
<1>7. PICK j, k \in 1 .. Copies : j # k /\ f[j] = f[k]
  BY <1>2, <1>3, <1>6, FS_PigeonHole
<1>8. At(n, j) = At(n, k)
  BY <1>5, <1>7
<1> QED
  BY <1>1, <1>7, <1>8, PathsDiffer

(* So what it picks is not the name of a file of the user's.               *)
LEMMA PickedName ==
  ASSUME Roomy, InboxInv, KeptInv, NEW s \in Session, pc[s] = "start", NEW n \in Kept, Spared(n)
  PROVE  UniquePath(Wanted[s]) # At(n, 0)
<1>1. Wanted[s] \in Name /\ n \in Name /\ n # None
  BY InboxAssumption
<1>2. CASE Wanted[s] # n
  BY <1>1, <1>2, UniquePathType, PathsDiffer
<1>3. CASE Wanted[s] = n
  <2> DEFINE free == {k \in 0 .. Copies : ~Exists(At(n, k))}
  <2>1. free # {}
    BY <1>3, FreeCopy
  <2>2. free \in SUBSET Nat
    BY InboxAssumption
  <2>3. Min(free) \in free
    BY <2>1, <2>2, MinIsMember
  <2>4. Exists(At(n, 0))
    BY <1>1 DEF KeptInv, IsKept, Exists
  <2>5. UniquePath(Wanted[s]) = At(n, Min(free))
    BY <1>3, <2>1 DEF UniquePath
  <2> HIDE DEF free
  <2>6. Min(free) # 0
    BY <2>3, <2>4 DEF free
  <2> QED
    BY <1>1, <2>5, <2>6, PathsDiffer
<1> QED
  BY <1>2, <1>3

(* A session never gets hold of a file of the user's that is spared: it is *)
(* under its name only, which is nobody's .part.                           *)
LEMMA NeverOpensKept ==
  ASSUME InboxInv, KeptInv, NEW t \in Session, NEW n \in Kept, Spared(n)
  PROVE  dir[Partial(final[t])] # n
<1>1. n \in Name /\ Partial(final[t]) \in Path
  BY FinalTypes, InboxAssumption DEF InboxInv
<1> QED
  BY <1>1, SparedPath DEF KeptInv, InboxInv

(* So no step writes to it, moves it, or puts another one in its place.    *)
LEMMA KeptStep ==
  ASSUME InboxInv, KeptInv, NEW t \in Session, Step(t), NEW n \in Kept, Spared(n)
  PROVE  /\ dir'[At(n, 0)] = dir[At(n, 0)] /\ content'[n] = content[n]
         /\ \A p \in Path : dir'[p] = n => p = At(n, 0)
         /\ \A s \in Session : pc'[s] \in Using => fd'[s] # n
<1> DEFINE p == Partial(final[t])
<1>1. n \in Name /\ n \in Inode /\ n \notin Session /\ n # None /\ 0 \in 0 .. Copies
  BY InboxAssumption DEF Inode
<1>2. At(n, 0) \in Path /\ final[t] \in Path /\ p \in Path /\ p # At(n, 0)
  <2>1. At(n, 0) \in Path
    BY <1>1, PathTypes
  <2>2. final[t] \in Path /\ p \in Path
    BY FinalTypes DEF InboxInv
  <2>3. p # At(n, 0)
    BY <1>1, SparedPath DEF InboxInv
  <2> QED
    BY <2>1, <2>2, <2>3
<1>3. dir[p] # n
  BY NeverOpensKept
<1>4. \A q \in Path : dir[q] = n => q = At(n, 0)
  BY DEF KeptInv
<1>5. \A s \in Session : pc[s] \in Using => fd[s] # n
  BY DEF KeptInv
<1> HIDE DEF p
<1>6. CASE CreatePartial(t)
  <2> DEFINE i == IF Exists(p) THEN dir[p] ELSE t
  <2>1. i # n
    BY <1>1, <1>3
  <2>2. /\ dir' = [dir EXCEPT ![p] = i] /\ fd' = [fd EXCEPT ![t] = i]
        /\ content' = [content EXCEPT ![i] = <<>>]
    BY <1>6 DEF CreatePartial, p
  <2>3. \A s \in Session : s # t => pc'[s] = pc[s]
    BY <1>6 DEF CreatePartial, Goes, InboxInv, TypeOK
  <2> HIDE DEF i
  <2>4. dir'[p] = i /\ \A q \in Path : q # p => dir'[q] = dir[q]
    BY <1>2, <2>2 DEF InboxInv, TypeOK
  <2>5. \A s \in Session : pc'[s] \in Using => fd'[s] # n
    BY <1>5, <2>1, <2>2, <2>3 DEF InboxInv, TypeOK
  <2>6. content'[n] = content[n]
    BY <1>1, <2>1, <2>2 DEF InboxInv, TypeOK
  <2> QED
    BY <1>2, <1>4, <2>1, <2>4, <2>5, <2>6
<1>7. CASE StoreData(t) \/ FlushFile(t)
  <2>1. pc[t] = "data" /\ UNCHANGED <<dir, fd>> /\ \E k : PassOn(t, k)
    BY <1>7 DEF StoreData, FlushFile, Goes
  <2>2. \A s \in Session : pc'[s] \in Using => pc[s] \in Using
    BY <1>7 DEF StoreData, FlushFile, Goes, Using, InboxInv, TypeOK
  <2>3. fd[t] # n
    BY <1>5, <2>1 DEF Using
  <2>4. content'[n] = content[n]
    BY <1>1, <2>1, <2>3 DEF PassOn, InboxInv, TypeOK
  <2> QED
    BY <1>4, <1>5, <2>1, <2>2, <2>4
<1>8. CASE Rename(t)
  <2>1. UNCHANGED <<content, fd>> /\ pc[t] = "rename" /\ pc'[t] \in {"done", "failed"}
    BY <1>8 DEF Rename, Goes, InboxInv, TypeOK
  <2>2. \A s \in Session : pc'[s] \in Using => pc[s] \in Using
    BY <1>8, <2>1 DEF Rename, Goes, Using, InboxInv, TypeOK
  <2>3. final[t] # At(n, 0)
    BY <2>1 DEF KeptInv, Using
  <2>4. \/ UNCHANGED dir
        \/ dir' = [dir EXCEPT ![final[t]] = dir[p], ![p] = None]
    BY <1>8 DEF Rename, p
  <2>5. dir'[At(n, 0)] = dir[At(n, 0)] /\ \A q \in Path : dir'[q] = n => q = At(n, 0)
    BY <1>1, <1>2, <1>3, <1>4, <2>3, <2>4 DEF InboxInv, TypeOK
  <2> QED
    BY <1>5, <2>1, <2>2, <2>5
<1>9. CASE ChecksumDiffers(t) \/ Interrupted(t)
  <2>1. dir' = [dir EXCEPT ![p] = None] /\ UNCHANGED <<content, fd>>
    BY <1>9 DEF ChecksumDiffers, Interrupted, RemovePartial, p
  <2>2. \A s \in Session : pc'[s] \in Using => pc[s] \in Using
    BY <1>9 DEF ChecksumDiffers, Interrupted, Goes, Using, InboxInv, TypeOK
  <2> QED
    BY <1>1, <1>2, <1>4, <1>5, <2>1, <2>2 DEF InboxInv, TypeOK
<1>10. CASE PickName(t) \/ ChecksumMatches(t) \/ NeverOpened(t)
  <2>1. UNCHANGED <<dir, content, fd>>
    BY <1>10 DEF PickName, ChecksumMatches, NeverOpened
  <2>2. \A s \in Session : pc'[s] \in Using => pc[s] \in Using
    BY <1>10 DEF PickName, ChecksumMatches, NeverOpened, Goes, Using, InboxInv, TypeOK
  <2> QED
    BY <1>4, <1>5, <2>1, <2>2
<1> QED
  BY <1>6, <1>7, <1>8, <1>9, <1>10 DEF Step

(* Nobody's step disturbs the user's files.                                *)
LEMMA KeptInvKept ==
  ASSUME Roomy, InboxInv, KeptInv, [Next]_vars
  PROVE  KeptInv'
<1>1. CASE UNCHANGED vars
  BY <1>1 DEF vars, KeptInv, IsKept
<1>2. ASSUME NEW t \in Session, Step(t) PROVE KeptInv'
  <2>1. ASSUME NEW n \in Kept, Spared(n), NEW s \in Session, pc'[s] \in {"create"} \cup Using
        PROVE  final'[s] # At(n, 0)
    <3>1. CASE pc[s] \in {"create"} \cup Using
      <4>1. final'[s] = final[s]
        BY <1>2, <3>1 DEF Step, PickName, CreatePartial, StoreData, FlushFile, ChecksumMatches,
           ChecksumDiffers, Rename, Interrupted, NeverOpened, Goes, Using, InboxInv, TypeOK
      <4> QED
        BY <2>1, <3>1, <4>1 DEF KeptInv
    <3>2. CASE pc[s] \notin {"create"} \cup Using
      <4>1. PickName(t) /\ s = t
        BY <1>2, <2>1, <3>2 DEF Step, PickName, CreatePartial, StoreData, FlushFile,
           ChecksumMatches, ChecksumDiffers, Rename, Interrupted, NeverOpened, Goes, Using,
           InboxInv, TypeOK
      <4>2. pc[s] = "start" /\ final'[s] = UniquePath(Wanted[s])
        BY <4>1 DEF PickName, Goes, InboxInv, TypeOK
      <4> QED
        BY <2>1, <4>2, PickedName
    <3> QED
      BY <3>1, <3>2
  <2>2. ASSUME NEW n \in Kept, Spared(n)
        PROVE  dir'[At(n, 0)] = n /\ content'[n] = <<n>>
    BY <1>2, <2>2, KeptStep DEF KeptInv, IsKept
  <2>3. ASSUME NEW n \in Kept, Spared(n)
        PROVE  /\ \A p \in Path : dir'[p] = n => p = At(n, 0)
               /\ \A s \in Session : pc'[s] \in Using => fd'[s] # n
    BY <1>2, <2>3, KeptStep
  <2> QED
    BY <2>1, <2>2, <2>3 DEF KeptInv, IsKept, Spared, At, Stem
<1> QED
  BY <1>1, <1>2 DEF Next, AllEnded, Step

(* At first each file of the user's is under its name.                     *)
LEMMA KeptInit == Init => KeptInv
<1> SUFFICES ASSUME Init PROVE KeptInv
  OBVIOUS
<1>1. ASSUME NEW n \in Kept
      PROVE  n \in Name /\ n \in Inode /\ n # None /\ At(n, 0) \in Path
  <2>1. n \in Name /\ n \in Inode /\ n # None /\ 0 \in 0 .. Copies
    BY InboxAssumption DEF Inode
  <2> QED
    BY <2>1, PathTypes
<1>2. ASSUME NEW p \in Path, NEW n \in Kept, p = At(n, 0) PROVE dir[p] = n
  <2> DEFINE m == CHOOSE m \in Kept : At(m, 0) = p
  <2>1. m \in Kept /\ At(m, 0) = p
    BY <1>2
  <2>2. dir[p] = m
    BY <1>2 DEF Init
  <2> HIDE DEF m
  <2>3. m = n
    BY <1>1, <1>2, <2>1, PathsDiffer
  <2> QED
    BY <2>2, <2>3
<1>3. ASSUME NEW n \in Kept, NEW p \in Path, dir[p] = n PROVE p = At(n, 0)
  <2>1. p \in {At(m, 0) : m \in Kept}
    BY <1>1, <1>3 DEF Init
  <2>2. PICK m \in Kept : p = At(m, 0)
    BY <2>1
  <2> QED
    BY <1>2, <1>3, <2>2
<1>4. \A n \in Kept : IsKept(n)
  BY <1>1, <1>2 DEF Init, IsKept
<1>5. \A s \in Session : pc[s] = "start"
  BY DEF Init
<1> QED
  BY <1>3, <1>4, <1>5 DEF KeptInv, Using

(* If no more sessions want a name than there are copy numbers, and none   *)
(* of them wants the name it is the .part of, the user's file of that name *)
(* keeps its name and its content (transfer.rs:77-96, DEVELOPMENT.md:48).  *)
THEOREM UsersFilesStay == ASSUME Roomy PROVE Spec => []UsersFilesKept
<1>1. Init => KeptInv
  BY KeptInit
<1>2. InboxInv /\ KeptInv /\ [Next]_vars => KeptInv'
  BY KeptInvKept
<1>3. KeptInv => UsersFilesKept
  BY DEF KeptInv, UsersFilesKept
<1> QED
  BY <1>1, <1>2, <1>3, InboxInvHolds, PTL DEF Spec
=============================================================================
