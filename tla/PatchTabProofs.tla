---------------------------- MODULE PatchTabProofs ----------------------------
(***************************************************************************)
(* The Patches tab for every library, computer, value, selection and       *)
(* length of history: what a completed full write leaves is what was to    *)
(* arrive, and what is pending in the tab can always be built.             *)
(*                                                                         *)
(* A composition folds its patches over an image.  What a fold computes is *)
(* the value of a function the library chooses; the first lemmas show that *)
(* the function exists, so that it can be reasoned about set by set.       *)
(***************************************************************************)
EXTENDS PatchTab, FiniteSetTheorems, WellFoundedInduction, TLAPS

---------------------------------------------------------------------------
(* A full write.                                                           *)

(* A write is asked for over a connection; the last full read is of the    *)
(* computer at hand; a write that is not armed carries no boot bytes that  *)
(* are not there.                                                          *)
Connected ==
    /\ link \in {"closed", "ds2", "fast", "direct"}
    /\ link = "closed" => evidence = NoImage /\ job = NoJob
FreshRead == evidence # NoImage => evidence = ecu
Shaped ==
    /\ job.at \in {"none", "asked", "gate", "write"}
    /\ job.at = "none" => job = NoJob
    /\ job.at = "gate" =>
          job = [at |-> "gate", image |-> job.image, from |-> job.from, boot |-> job.boot]
SameBoot == \A c \in BootCells : job.image[c] = job.from[c]
Armed ==
    /\ job.at = "asked" /\ job.from # NoImage => job.require \/ SameBoot
    /\ job.at \in {"gate", "write"} /\ job.from # NoImage => job.boot \/ SameBoot
Whole ==
    job.at = "write" => half = "T" \/ job.boot \/ missing_boot_patches(job.image, ecu) = {}
AInv == Connected /\ FreshRead /\ Shaped /\ Armed /\ Whole

(* Nothing of this changes with what the tab shows.                        *)
LEMMA OnlyTheTab ==
    ASSUME AInv, UNCHANGED <<wire, ecu, job>>
    PROVE  AInv'
  BY DEF AInv, Connected, FreshRead, Shaped, SameBoot, Armed, Whole, wire

LEMMA NothingAsked ==
    ASSUME AInv, job' = NoJob, link' \in {"closed", "ds2", "fast", "direct"},
           FreshRead', link' = "closed" => evidence' = NoImage
    PROVE  AInv'
  BY DEF AInv, Connected, Shaped, SameBoot, Armed, Whole, NoJob

LEMMA NothingMissing ==
    ASSUME NEW image, NEW flash,
           boot_write_patches_in(image) = {} \/ \A c \in BootCells : image[c] = flash[c]
    PROVE  missing_boot_patches(image, flash) = {}
  BY DEF missing_boot_patches

LEMMA SameEvidence ==
    ASSUME NEW image, NEW flash, NEW other, \A c \in BootCells : other[c] = flash[c],
           missing_boot_patches(image, flash) = {}
    PROVE  missing_boot_patches(image, other) = {}
  BY DEF missing_boot_patches

LEMMA EditKeeps ==
    ASSUME AInv, Edit \/ Compose \/ Open
    PROVE  AInv'
<1>1. CASE Edit
  BY <1>1, OnlyTheTab DEF Edit, Tick, Untick, _on_patch_selection_changed, _on_patch_remove,
                          _on_patch_configure
<1>2. CASE Compose
  <2>1. CASE UNCHANGED <<wire, ecu, job>>
    BY <2>1, OnlyTheTab
  <2>2. CASE _on_patches_build
    <3> DEFINE out == _build_patch_image(drafts)
    <3>1. /\ UNCHANGED <<wire, ecu>>
          /\ job' = IF link = "closed" THEN NoJob
                    ELSE [at |-> "asked", image |-> out, from |-> origin,
                          require |-> \E c \in BootCells : out[c] # origin[c]]
      BY <2>2 DEF _on_patches_build
    <3> HIDE DEF out
    <3>2. CASE link = "closed"
      BY <3>1, <3>2, NothingAsked DEF AInv, Connected, FreshRead, wire
    <3>3. CASE link # "closed"
      BY <3>1, <3>3 DEF AInv, Connected, FreshRead, Shaped, SameBoot, Armed, Whole, wire
    <3> QED
      BY <3>2, <3>3
  <2> QED
    BY <1>2, <2>1, <2>2 DEF Compose, cmd_apply, compose_target
<1>3. CASE Open
  <2>1. CASE UNCHANGED <<wire, ecu, job>>
    BY <2>1, OnlyTheTab
  <2>2. CASE _on_patches_read_ecu
    <3>1. UNCHANGED <<link, half, ecu, job>> /\ evidence' = ecu /\ link # "closed"
      BY <2>2 DEF _on_patches_read_ecu
    <3> QED
      BY <3>1 DEF AInv, Connected, FreshRead, Shaped, SameBoot, Armed, Whole
  <2> QED
    BY <1>3, <2>1, <2>2 DEF Open, _load_patch_base_path
<1> QED
  BY <1>1, <1>2, <1>3

LEMMA ConnectionKeeps ==
    ASSUME AInv, Connection
    PROVE  AInv'
<1>1. CASE _disconnect
  BY <1>1, NothingAsked DEF _disconnect, Idle, Closed, AInv, Shaped, FreshRead
<1>2. ASSUME NEW r \in {"ds2", "fast", "direct"}, Connect(r) PROVE AInv'
  BY <1>2 DEF Connect, Idle, AInv, Connected, FreshRead, Shaped, SameBoot, Armed, Whole
<1>3. ASSUME NEW other \in Ecus, Swap(other) PROVE AInv'
  BY <1>3 DEF Swap, wire, Idle, AInv, Connected, FreshRead, Shaped, SameBoot, Armed, Whole
<1> QED
  BY <1>1, <1>2, <1>3 DEF Connection

LEMMA WriteKeeps ==
    ASSUME AInv, FullWrite
    PROVE  AInv'
<1>1. Connected /\ FreshRead /\ Shaped /\ Armed /\ Whole
  BY DEF AInv
<1>2. CASE _on_backup_flash
  <2>1. /\ UNCHANGED <<wire, ecu>> /\ link # "closed"
        /\ job' = [at |-> "asked", image |-> base, from |-> NoImage, require |-> FALSE]
    BY <1>2 DEF _on_backup_flash
  <2> QED
    BY <1>1, <2>1 DEF AInv, Connected, FreshRead, Shaped, SameBoot, Armed, Whole, wire
<1>3. CASE Declined
  BY <1>1, <1>3, NothingAsked DEF Declined, wire, Connected, FreshRead
<1>4. CASE BootGate
  <2>1. UNCHANGED <<link, half, evidence, ecu>> /\ job.at = "gate"
    BY <1>4 DEF BootGate, wire
  <2>2. job = [at |-> "gate", image |-> job.image, from |-> job.from, boot |-> job.boot]
    BY <1>1, <2>1 DEF Shaped
  <2>3. CASE job' = NoJob
    BY <1>1, <2>1, <2>3, NothingAsked DEF Connected, FreshRead
  <2>4. CASE job' = [job EXCEPT !.at = "write"] /\ missing_boot_patches(job.image, ecu) = {}
    <3>1. /\ job'.at = "write" /\ job'.image = job.image /\ job'.from = job.from
          /\ job'.boot = job.boot
      BY <2>2, <2>4
    <3>2. Whole'
      BY <2>1, <2>4, <3>1 DEF Whole
    <3>3. Armed'
      BY <1>1, <2>1, <3>1 DEF Armed, SameBoot
    <3>4. job # NoJob /\ Connected' /\ FreshRead' /\ Shaped'
      BY <1>1, <2>1, <3>1 DEF Connected, FreshRead, Shaped, NoJob
    <3> QED
      BY <3>2, <3>3, <3>4 DEF AInv
  <2>5. CASE job' = [at |-> "asked", image |-> job.image, from |-> job.from, require |-> TRUE]
    <3>1. job # NoJob
      BY <2>1 DEF NoJob
    <3> QED
      BY <1>1, <2>1, <2>5, <3>1 DEF AInv, Connected, FreshRead, Shaped, SameBoot, Armed, Whole
  <2> QED
    BY <1>4, <2>3, <2>4, <2>5 DEF BootGate
<1>5. CASE Write
  BY <1>1, <1>5, NothingAsked DEF Write, Closed, FreshRead
<1>6. ASSUME NEW box \in BOOLEAN, _ds2_write_full(box) PROVE AInv'
  <2> DEFINE boot == will_write_boot(box)
             gated == ~TopFull /\ ~boot /\ boot_write_patches_in(job.image) # {}
             lacks == missing_boot_patches(job.image, evidence) # {}
  <2>1. UNCHANGED <<link, half, ecu>> /\ job.at = "asked" /\ evidence' \in {evidence, NoImage}
    BY <1>6 DEF _ds2_write_full
  <2>2. job # NoJob /\ link # "closed"
    BY <1>1, <2>1 DEF NoJob, Connected
  <2>3. CASE job' = NoJob
    BY <1>1, <2>1, <2>2, <2>3, NothingAsked DEF Connected, FreshRead
  <2>4. CASE /\ ~Refused(box) /\ ~(gated /\ evidence # NoImage /\ lacks)
             /\ job' = [at |-> IF gated /\ evidence = NoImage THEN "gate" ELSE "write",
                        image |-> job.image, from |-> job.from, boot |-> boot]
    <3>1. /\ job'.image = job.image /\ job'.from = job.from /\ job'.boot = boot
          /\ job'.at \in {"gate", "write"}
          /\ job' = [at |-> job'.at, image |-> job.image, from |-> job.from, boot |-> boot]
          /\ job'.at = "write" => ~(gated /\ evidence = NoImage)
      BY <2>4
    <3>2. Armed'
      <4>1. ASSUME job.require PROVE boot
        BY <1>1, <2>2, <2>4, <4>1 DEF Refused, Required, will_write_boot, Connected
      <4>2. job.from # NoImage => job.require \/ SameBoot
        BY <1>1, <2>1 DEF Armed
      <4> QED
        BY <3>1, <4>1, <4>2 DEF Armed, SameBoot
    <3>3. Whole'
      <4>1. ASSUME job'.at = "write", half # "T", ~boot
            PROVE  missing_boot_patches(job.image, ecu) = {}
        <5>1. CASE boot_write_patches_in(job.image) = {}
          BY <5>1, NothingMissing
        <5>2. CASE gated
          BY <1>1, <2>4, <3>1, <4>1, <5>2 DEF FreshRead
        <5> QED
          BY <4>1, <5>1, <5>2 DEF TopFull
      <4> QED
        BY <2>1, <3>1, <4>1 DEF Whole
    <3>4. Shaped'
      BY <3>1 DEF Shaped
    <3>5. Connected' /\ FreshRead'
      BY <1>1, <2>1, <2>2, <3>1 DEF Connected, FreshRead
    <3> QED
      BY <3>2, <3>3, <3>4, <3>5 DEF AInv
  <2> QED
    BY <1>6, <2>3, <2>4 DEF _ds2_write_full
<1> QED
  BY <1>2, <1>3, <1>4, <1>5, <1>6 DEF FullWrite

(* The invariant, for any history.                                         *)
THEOREM WriteInvariant == Spec => []AInv
<1>1. Init => AInv
  <2>1. Init => job = NoJob /\ job.at = "none" /\ link = "closed" /\ evidence = NoImage
    <3>1. Init => job = NoJob /\ link = "closed" /\ evidence = NoImage
      BY DEF Init
    <3>2. NoJob.at = "none"
      BY DEF NoJob
    <3> QED
      BY <3>1, <3>2
  <2> QED
    BY <2>1 DEF AInv, Connected, FreshRead, Shaped, Armed, Whole
<1>2. AInv /\ [Next]_vars => AInv'
  <2> SUFFICES ASSUME AInv, [Next]_vars PROVE AInv'
    OBVIOUS
  <2>1. CASE UNCHANGED vars
    BY <2>1, OnlyTheTab DEF vars
  <2> QED
    BY <2>1, EditKeeps, ConnectionKeeps, WriteKeeps DEF Next
<1> QED
  BY <1>1, <1>2, PTL DEF Spec

(* A write that completes over a computer in its BOTTOM bank, armed, gated *)
(* by a full read or gated live, leaves no boot patch of its image halfway *)
(* there; and what was built from the contents of the computer arrives in  *)
(* every cell.                                                             *)
THEOREM WritesArrive == Spec => Arrives
<1> DEFINE Half == ecu' # ecu /\ job.at = "write" /\ half # "T" =>
                     missing_boot_patches(job.image, ecu') = {}
           Built == job.at = "write" /\ job.from # NoImage /\ job.from = ecu /\ job' = NoJob
                      => \A c \in Cells : ecu'[c] = job.image[c]
<1>1. AInv /\ [Next]_vars => [Half]_vars /\ [Built]_vars
  <2> SUFFICES ASSUME AInv, Next, job.at = "write" PROVE Half /\ Built
    OBVIOUS
  <2>1. Write
    <3>1. ~Idle /\ ~Untouched
      BY DEF Idle, Untouched, AInv, Connected, NoJob
    <3>2. ~Edit
      BY <3>1 DEF Edit, Tick, Untick, _on_patch_remove, _on_patch_configure
    <3>3. ~Compose
      BY <3>1 DEF Compose, _on_patches_build, cmd_apply, compose_target
    <3>4. ~Open /\ ~Connection
      BY <3>1
         DEF Open, _on_patches_read_ecu, _load_patch_base_path, Connection, _disconnect,
             Connect, Swap
    <3> QED
      BY <3>1, <3>2, <3>3, <3>4
         DEF Next, FullWrite, _on_backup_flash, Declined, BootGate, _ds2_write_full
  <2>2. ecu' = [c \in Cells |-> IF c \in BootCells /\ ~job.boot THEN ecu[c] ELSE job.image[c]]
    BY <2>1 DEF Write, Written
  <2>3. \A c \in BootCells : c \in Cells
    BY DEF Cells, Code
  <2>4. Half
    <3>1. CASE job.boot
      BY <2>2, <2>3, <3>1, NothingMissing
    <3>2. CASE ~job.boot /\ half # "T"
      <4>1. \A c \in BootCells : ecu'[c] = ecu[c]
        BY <2>2, <2>3, <3>2
      <4> QED
        BY <3>2, <4>1, SameEvidence DEF AInv, Whole
    <3> QED
      BY <3>1, <3>2
  <2>5. Built
    BY <2>2 DEF AInv, Armed, SameBoot
  <2> QED
    BY <2>4, <2>5
<1> QED
  BY <1>1, WriteInvariant, PTL DEF Spec, Arrives, WholeInEcu, FlashedIsBuilt
---------------------------------------------------------------------------
(* Folds over sets.                                                        *)

(* Induction over the subsets of a finite set, with the property given as  *)
(* a set.                                                                  *)
LEMMA SubsetInduction ==
    ASSUME NEW S, IsFiniteSet(S), NEW G, {} \in G,
           \A s \in SUBSET S : (s # {} /\ \A x \in s : s \ {x} \in G) => s \in G
    PROVE  S \in G
<1> DEFINE T == {s \in SUBSET S : s \notin G}
<1> SUFFICES ASSUME S \notin G PROVE FALSE
  OBVIOUS
<1>1. T # {} /\ T \subseteq FiniteSubsetsOf(S)
  BY FS_Subset DEF FiniteSubsetsOf
<1>2. PICK x \in T : \A y \in T : <<y, x>> \notin StrictSubsetOrdering(S)
  <2>1. IsWellFoundedOn(StrictSubsetOrdering(S), FiniteSubsetsOf(S))
    BY FS_StrictSubsetOrderingWellFounded
  <2> HIDE DEF T
  <2> QED
    BY <1>1, <2>1, WFMin
<1>3. x # {} /\ x \subseteq S
  OBVIOUS
<1>4. ASSUME NEW e \in x PROVE x \ {e} \in G
  <2>1. <<x \ {e}, x>> \in StrictSubsetOrdering(S)
    BY <1>3, <1>4 DEF StrictSubsetOrdering
  <2> QED
    BY <1>2, <1>3, <2>1
<1> QED
  BY <1>3, <1>4

(* A fold over a finite set that stays within V: ch chooses the next       *)
(* element, h is what it does.                                             *)
FoldClosed(S, V, b, ch, h) ==
    /\ IsFiniteSet(S) /\ b \in V
    /\ \A s \in SUBSET S : s # {} => ch[s] \in s
    /\ \A x \in S, v \in V : h[x][v] \in V
Folded(g, S, b, ch, h) ==
    \A s \in SUBSET S : g[s] = IF s = {} THEN b ELSE h[ch[s]][g[s \ {ch[s]}]]

(* The function the fold is the value of: the least relation closed under  *)
(* its steps is one.                                                       *)
LEMMA FoldExists ==
    ASSUME NEW S, NEW V, NEW b, NEW ch, NEW h, FoldClosed(S, V, b, ch, h)
    PROVE  \E g \in [SUBSET S -> V] : Folded(g, S, b, ch, h)
<1> DEFINE P == (SUBSET S) \X V
           rest(s) == s \ {ch[s]}
           Clo(Q) == /\ <<{}, b>> \in Q
                     /\ \A s \in SUBSET S, v \in V :
                           s # {} /\ <<rest(s), v>> \in Q => <<s, h[ch[s]][v]>> \in Q
           R == {z \in P : \A Q \in SUBSET P : Clo(Q) => z \in Q}
<1>1. b \in V /\ \A s \in SUBSET S : s # {} => ch[s] \in s /\ rest(s) \in SUBSET S
  BY DEF FoldClosed
<1>2. \A s \in SUBSET S, v \in V : s # {} => h[ch[s]][v] \in V
  <2> SUFFICES ASSUME NEW s \in SUBSET S, NEW v \in V, s # {} PROVE h[ch[s]][v] \in V
    OBVIOUS
  <2>1. ch[s] \in S
    BY <1>1
  <2> QED
    BY <2>1 DEF FoldClosed
<1> HIDE DEF rest
<1>3. Clo(R)
  <2>1. <<{}, b>> \in R
    <3>1. <<{}, b>> \in P
      BY <1>1
    <3> QED
      BY <3>1
  <2>2. ASSUME NEW s \in SUBSET S, NEW v \in V, s # {}, <<rest(s), v>> \in R
        PROVE  <<s, h[ch[s]][v]>> \in R
    <3>1. <<s, h[ch[s]][v]>> \in P
      <4>1. h[ch[s]][v] \in V
        BY <1>2, <2>2
      <4> QED
        BY <4>1
    <3>2. ASSUME NEW Q \in SUBSET P, Clo(Q) PROVE <<s, h[ch[s]][v]>> \in Q
      <4>1. <<rest(s), v>> \in Q
        BY <2>2, <3>2
      <4> QED
        BY <2>2, <3>2, <4>1
    <3> QED
      BY <3>1, <3>2
  <2> QED
    BY <2>1, <2>2
<1>4. ASSUME NEW Q \in SUBSET P, Clo(Q) PROVE R \subseteq Q
  BY <1>4
<1>5. R \subseteq P
  OBVIOUS
<1> HIDE DEF R
<1> DEFINE G == {s \in SUBSET S : /\ \E v \in V : <<s, v>> \in R
                                  /\ \A v, w \in V : <<s, v>> \in R /\ <<s, w>> \in R => v = w}
<1>6. {} \in G
  <2> DEFINE Q == R \ {z \in P : z[1] = {} /\ z[2] # b}
  <2>1. Clo(Q)
    <3>1. <<{}, b>> \in Q
      BY <1>1, <1>3
    <3>2. ASSUME NEW s \in SUBSET S, NEW v \in V, s # {}, <<rest(s), v>> \in Q
          PROVE  <<s, h[ch[s]][v]>> \in Q
      BY <1>3, <3>2
    <3> QED
      BY <3>1, <3>2
  <2>2. R \subseteq Q
    BY <1>4, <1>5, <2>1
  <2>3. ASSUME NEW v \in V, <<{}, v>> \in R PROVE v = b
    <3>1. <<{}, v>> \in Q /\ <<{}, v>> \in P
      BY <2>2, <2>3
    <3> QED
      BY <3>1
  <2> QED
    BY <1>1, <1>3, <2>3
<1>7. ASSUME NEW s \in SUBSET S, s # {}, \A x \in s : s \ {x} \in G PROVE s \in G
  <2>1. rest(s) \in G
    BY <1>1, <1>7 DEF rest
  <2>2. PICK v \in V : <<rest(s), v>> \in R
    BY <2>1
  <2> DEFINE w == h[ch[s]][v]
             Q == R \ {z \in P : z[1] = s /\ z[2] # w}
  <2>3. <<s, w>> \in R /\ w \in V
    BY <1>2, <1>3, <1>7, <2>2
  <2>4. \A u \in V : <<rest(s), u>> \in R => u = v
    BY <2>1, <2>2
  <2>5. Clo(Q)
    <3>1. <<{}, b>> \in Q
      BY <1>3, <1>7
    <3>2. ASSUME NEW t \in SUBSET S, NEW u \in V, t # {}, <<rest(t), u>> \in Q
          PROVE  <<t, h[ch[t]][u]>> \in Q
      <4>1. <<t, h[ch[t]][u]>> \in R
        BY <1>3, <3>2
      <4>2. CASE t = s
        <5>1. u = v
          BY <2>4, <3>2, <4>2
        <5> QED
          BY <4>1, <4>2, <5>1
      <4> QED
        BY <4>1, <4>2
    <3> QED
      BY <3>1, <3>2
  <2>6. R \subseteq Q
    BY <1>4, <1>5, <2>5
  <2>7. ASSUME NEW u \in V, <<s, u>> \in R PROVE u = w
    <3>1. <<s, u>> \in Q /\ <<s, u>> \in P
      BY <2>6, <2>7
    <3> QED
      BY <3>1
  <2> QED
    BY <2>3, <2>7
<1>8. \A s \in SUBSET S : s \in G
  <2> SUFFICES ASSUME NEW s \in SUBSET S PROVE s \in G
    OBVIOUS
  <2>1. IsFiniteSet(s)
    BY FS_Subset DEF FoldClosed
  <2> HIDE DEF G
  <2>2. \A t \in SUBSET s : (t # {} /\ \A x \in t : t \ {x} \in G) => t \in G
    BY <1>7
  <2> QED
    BY <1>6, <2>1, <2>2, SubsetInduction
<1> DEFINE g == [s \in SUBSET S |-> CHOOSE v \in V : <<s, v>> \in R]
<1>9. ASSUME NEW s \in SUBSET S PROVE g[s] \in V /\ <<s, g[s]>> \in R
  BY <1>8
<1>10. ASSUME NEW s \in SUBSET S, NEW v \in V, <<s, v>> \in R PROVE g[s] = v
  BY <1>8, <1>9, <1>10
<1>11. g \in [SUBSET S -> V]
  BY <1>9
<1> HIDE DEF g
<1>12. ASSUME NEW s \in SUBSET S PROVE g[s] = IF s = {} THEN b ELSE h[ch[s]][g[rest(s)]]
  <2>1. CASE s = {}
    BY <1>1, <1>3, <1>10, <2>1
  <2>2. CASE s # {}
    <3>1. rest(s) \in SUBSET S
      BY <1>1, <2>2
    <3>2. g[rest(s)] \in V /\ <<rest(s), g[rest(s)]>> \in R
      BY <1>9, <3>1
    <3>3. <<s, h[ch[s]][g[rest(s)]]>> \in R /\ h[ch[s]][g[rest(s)]] \in V
      BY <1>2, <1>3, <2>2, <3>2
    <3> QED
      BY <1>10, <2>2, <3>3
  <2> QED
    BY <2>1, <2>2
<1> QED
  BY <1>11, <1>12 DEF Folded, rest

(* Reverting patches, one after the other in some order.                   *)
Reverted(i, p) == IF is_applied(i, p) THEN revert(i, p) ELSE i
RevertedByOne(it, image, ps) ==
    /\ it[{}] = image /\ it[ps] = RevertExact(image, ps)
    /\ \A s \in SUBSET ps : s # {} => \E p \in s : it[s] = Reverted(it[s \ {p}], p)

LEMMA RevertSteps ==
    ASSUME NEW V, NEW image \in V, NEW ps, IsFiniteSet(ps),
           \A p \in ps, i \in V : Reverted(i, p) \in V
    PROVE  \E it \in [SUBSET ps -> V] : RevertedByOne(it, image, ps)
<1> DEFINE op(p, i) == IF is_applied(i, p) THEN revert(i, p) ELSE i
           pick(s) == CHOOSE x \in s : TRUE
           Step(g) == [s \in SUBSET ps |-> IF s = {} THEN image
                                           ELSE op(pick(s), g[s \ {pick(s)}])]
           it == CHOOSE g : g = Step(g)
<1>1. RevertExact(image, ps) = it[ps]
  BY DEF RevertExact, FoldSet, MapThenFoldSet
<1>2. \A p, i : op(p, i) = Reverted(i, p)
  BY DEF Reverted
<1> HIDE DEF op
<1>3. \E g \in [SUBSET ps -> V] : g = Step(g)
  <2> DEFINE ch == [s \in SUBSET ps |-> pick(s)]
             h == [x \in ps |-> [v \in V |-> op(x, v)]]
  <2>1. \A s \in SUBSET ps : s # {} => pick(s) \in s
    OBVIOUS
  <2> HIDE DEF pick
  <2>2. \A x \in ps, v \in V : h[x][v] \in V
    BY <1>2
  <2>3. \A s \in SUBSET ps : ch[s] = pick(s)
    OBVIOUS
  <2>4. \A x \in ps, v \in V : h[x][v] = op(x, v)
    OBVIOUS
  <2> HIDE DEF ch, h
  <2>5. FoldClosed(ps, V, image, ch, h)
    BY <2>1, <2>2, <2>3 DEF FoldClosed
  <2>6. PICK g \in [SUBSET ps -> V] : Folded(g, ps, image, ch, h)
    BY <2>5, FoldExists
  <2>7. \A s \in SUBSET ps : g[s] = IF s = {} THEN image ELSE h[ch[s]][g[s \ {ch[s]}]]
    BY <2>6 DEF Folded
  <2>8. ASSUME NEW s \in SUBSET ps, s # {}
        PROVE  h[ch[s]][g[s \ {ch[s]}]] = op(pick(s), g[s \ {pick(s)}])
    <3>1. pick(s) \in s /\ g[s \ {pick(s)}] \in V /\ ch[s] = pick(s)
      BY <2>1, <2>3, <2>8
    <3> QED
      BY <2>4, <3>1
  <2>9. g = Step(g)
    BY <2>7, <2>8
  <2> QED
    BY <2>6, <2>9
<1>4. it = Step(it)
  <2> HIDE DEF Step
  <2> QED
    BY <1>3
<1> HIDE DEF it
<1> DEFINE G == {s \in SUBSET ps : it[s] \in V}
<1>5. \A s \in SUBSET ps : s # {} => pick(s) \in s
  OBVIOUS
<1>6. \A s \in SUBSET ps : s # {} => it[s] = op(pick(s), it[s \ {pick(s)}])
  BY <1>4
<1> HIDE DEF pick
<1>7. {} \in G
  BY <1>4
<1>8. ASSUME NEW s \in SUBSET ps, s # {}, \A x \in s : s \ {x} \in G PROVE s \in G
  <2>1. pick(s) \in s /\ it[s] = op(pick(s), it[s \ {pick(s)}])
    BY <1>5, <1>6, <1>8
  <2>2. it[s \ {pick(s)}] \in V /\ pick(s) \in ps
    BY <1>8, <2>1
  <2> QED
    BY <1>2, <2>1, <2>2
<1> HIDE DEF G
<1>9. \A s \in SUBSET ps : s \in G
  <2> SUFFICES ASSUME NEW s \in SUBSET ps PROVE s \in G
    OBVIOUS
  <2>1. IsFiniteSet(s) /\ SUBSET s \subseteq SUBSET ps
    BY FS_Subset
  <2>2. \A t \in SUBSET s : (t # {} /\ \A x \in t : t \ {x} \in G) => t \in G
    BY <1>8, <2>1
  <2> QED
    BY <1>7, <2>1, <2>2, SubsetInduction
<1>10. it = [s \in SUBSET ps |-> it[s]] /\ it[{}] = image
  BY <1>4
<1>11. it \in [SUBSET ps -> V]
  BY <1>9, <1>10 DEF G
<1>12. RevertedByOne(it, image, ps)
  BY <1>1, <1>2, <1>5, <1>6, <1>10 DEF RevertedByOne
<1> QED
  BY <1>11, <1>12

(* It stays within whatever one reversion stays within.                    *)
LEMMA RevertFold ==
    ASSUME NEW V, NEW image \in V, NEW ps, IsFiniteSet(ps),
           \A p \in ps, i \in V : (IF is_applied(i, p) THEN revert(i, p) ELSE i) \in V
    PROVE  RevertExact(image, ps) \in V
<1>1. \A p \in ps, i \in V : Reverted(i, p) \in V
  BY DEF Reverted
<1>2. PICK it \in [SUBSET ps -> V] : RevertedByOne(it, image, ps)
  BY <1>1, RevertSteps
<1> QED
  BY <1>2 DEF RevertedByOne

---------------------------------------------------------------------------
(* The folds of the patch engine and of the tab.                           *)

(* The patches of a composition, one after the other in some order.        *)
Unpatched(from, ids, clean) == IF WaitChosen(from, ids) THEN Over(clean, Wait) ELSE clean
Applicative(V, from, ids, clean) ==
    /\ IsFiniteSet(ids) /\ Unpatched(from, ids, clean) \in V
    /\ \A p \in ids, i \in V : Applied(from, i, p) \in V
OneByOne(it, from, ids, clean) ==
    /\ it[{}] = Unpatched(from, ids, clean)
    /\ it[ids] = Patched(from, ids, clean)
    /\ \A s \in SUBSET ids : s # {} => \E p \in s : it[s] = Applied(from, it[s \ {p}], p)

LEMMA PatchedSteps ==
    ASSUME NEW V, NEW from, NEW ids, NEW clean, Applicative(V, from, ids, clean)
    PROVE  \E it \in [SUBSET ids -> V] : OneByOne(it, from, ids, clean)
<1> DEFINE start == Unpatched(from, ids, clean)
           op(p, i) == Applied(from, i, p)
           pick(s) == CHOOSE x \in s : TRUE
           Step(g) == [s \in SUBSET ids |-> IF s = {} THEN start
                                            ELSE op(pick(s), g[s \ {pick(s)}])]
           it == CHOOSE g : g = Step(g)
<1>1. Patched(from, ids, clean) = it[ids]
  BY DEF Patched, Unpatched, FoldSet, MapThenFoldSet
<1>2. start \in V /\ IsFiniteSet(ids)
  BY DEF Applicative
<1>3. \A p \in ids, i \in V : op(p, i) \in V
  BY DEF Applicative
<1> HIDE DEF op, start
<1>4. \E g \in [SUBSET ids -> V] : g = Step(g)
  <2> DEFINE ch == [s \in SUBSET ids |-> pick(s)]
             h == [x \in ids |-> [v \in V |-> op(x, v)]]
  <2>1. \A s \in SUBSET ids : s # {} => pick(s) \in s
    OBVIOUS
  <2> HIDE DEF pick
  <2>2. \A x \in ids, v \in V : h[x][v] \in V
    BY <1>3
  <2>3. \A s \in SUBSET ids : ch[s] = pick(s)
    OBVIOUS
  <2>4. \A x \in ids, v \in V : h[x][v] = op(x, v)
    OBVIOUS
  <2> HIDE DEF ch, h
  <2>5. FoldClosed(ids, V, start, ch, h)
    BY <1>2, <2>1, <2>2, <2>3 DEF FoldClosed
  <2>6. PICK g \in [SUBSET ids -> V] : Folded(g, ids, start, ch, h)
    BY <2>5, FoldExists
  <2>7. \A s \in SUBSET ids : g[s] = IF s = {} THEN start ELSE h[ch[s]][g[s \ {ch[s]}]]
    BY <2>6 DEF Folded
  <2>8. ASSUME NEW s \in SUBSET ids, s # {}
        PROVE  h[ch[s]][g[s \ {ch[s]}]] = op(pick(s), g[s \ {pick(s)}])
    <3>1. pick(s) \in s /\ g[s \ {pick(s)}] \in V /\ ch[s] = pick(s)
      BY <2>1, <2>3, <2>8
    <3> QED
      BY <2>4, <3>1
  <2>9. g = Step(g)
    BY <2>7, <2>8
  <2> QED
    BY <2>6, <2>9
<1>5. it = Step(it)
  <2> HIDE DEF Step
  <2> QED
    BY <1>4
<1> HIDE DEF it
<1> DEFINE G == {s \in SUBSET ids : it[s] \in V}
<1>6. \A s \in SUBSET ids : s # {} => pick(s) \in s
  OBVIOUS
<1>7. \A s \in SUBSET ids : s # {} => it[s] = op(pick(s), it[s \ {pick(s)}])
  BY <1>5
<1> HIDE DEF pick
<1>8. {} \in G
  BY <1>2, <1>5
<1>9. ASSUME NEW s \in SUBSET ids, s # {}, \A x \in s : s \ {x} \in G PROVE s \in G
  <2>1. pick(s) \in s /\ it[s] = op(pick(s), it[s \ {pick(s)}])
    BY <1>6, <1>7, <1>9
  <2>2. it[s \ {pick(s)}] \in V /\ pick(s) \in ids
    BY <1>9, <2>1
  <2> QED
    BY <1>3, <2>1, <2>2
<1> HIDE DEF G
<1>10. \A s \in SUBSET ids : s \in G
  <2> SUFFICES ASSUME NEW s \in SUBSET ids PROVE s \in G
    OBVIOUS
  <2>1. IsFiniteSet(s) /\ SUBSET s \subseteq SUBSET ids
    BY <1>2, FS_Subset
  <2>2. \A t \in SUBSET s : (t # {} /\ \A x \in t : t \ {x} \in G) => t \in G
    BY <1>9, <2>1
  <2> QED
    BY <1>8, <2>1, <2>2, SubsetInduction
<1>11. it = [s \in SUBSET ids |-> it[s]] /\ it[{}] = start
  BY <1>5
<1>12. it \in [SUBSET ids -> V]
  BY <1>10, <1>11 DEF G
<1> QED
  BY <1>1, <1>6, <1>7, <1>11, <1>12 DEF op, start, OneByOne

(* The pending values, one after the other in some order.                  *)
ComposedImage == IF ticked = {} THEN base ELSE build_image(base, ticked)
OneSetting(i, p, v) == IF i = NoImage THEN i ELSE apply_parameter_changes(i, p, v)

Settable(V, ds) ==
    /\ IsFiniteSet(DOMAIN ds) /\ ComposedImage \in V
    /\ \A p \in DOMAIN ds, i \in V : OneSetting(i, p, ds[p]) \in V
SettingByOne(it, ds) ==
    /\ it[{}] = ComposedImage
    /\ it[DOMAIN ds] = _build_patch_image(ds)
    /\ \A s \in SUBSET DOMAIN ds : s # {} => \E p \in s : it[s] = OneSetting(it[s \ {p}], p, ds[p])

LEMMA SettingSteps ==
    ASSUME NEW V, NEW ds, Settable(V, ds)
    PROVE  \E it \in [SUBSET DOMAIN ds -> V] : SettingByOne(it, ds)
<1> DEFINE ps == DOMAIN ds
           start == ComposedImage
           op(p, i) == OneSetting(i, p, ds[p])
           pick(s) == CHOOSE x \in s : TRUE
           Step(g) == [s \in SUBSET ps |-> IF s = {} THEN start
                                           ELSE op(pick(s), g[s \ {pick(s)}])]
           it == CHOOSE g : g = Step(g)
<1>1. _build_patch_image(ds) = it[ps]
  BY DEF _build_patch_image, FoldSet, MapThenFoldSet, OneSetting, ComposedImage
<1>2. start \in V /\ IsFiniteSet(ps)
  BY DEF Settable
<1>3. \A p \in ps, i \in V : op(p, i) \in V
  BY DEF Settable
<1> HIDE DEF op, start, ps
<1>4. \E g \in [SUBSET ps -> V] : g = Step(g)
  <2> DEFINE ch == [s \in SUBSET ps |-> pick(s)]
             h == [x \in ps |-> [v \in V |-> op(x, v)]]
  <2>1. \A s \in SUBSET ps : s # {} => pick(s) \in s
    OBVIOUS
  <2> HIDE DEF pick
  <2>2. \A x \in ps, v \in V : h[x][v] \in V
    BY <1>3
  <2>3. \A s \in SUBSET ps : ch[s] = pick(s)
    OBVIOUS
  <2>4. \A x \in ps, v \in V : h[x][v] = op(x, v)
    OBVIOUS
  <2> HIDE DEF ch, h
  <2>5. FoldClosed(ps, V, start, ch, h)
    BY <1>2, <2>1, <2>2, <2>3 DEF FoldClosed
  <2>6. PICK g \in [SUBSET ps -> V] : Folded(g, ps, start, ch, h)
    BY <2>5, FoldExists
  <2>7. \A s \in SUBSET ps : g[s] = IF s = {} THEN start ELSE h[ch[s]][g[s \ {ch[s]}]]
    BY <2>6 DEF Folded
  <2>8. ASSUME NEW s \in SUBSET ps, s # {}
        PROVE  h[ch[s]][g[s \ {ch[s]}]] = op(pick(s), g[s \ {pick(s)}])
    <3>1. pick(s) \in s /\ g[s \ {pick(s)}] \in V /\ ch[s] = pick(s)
      BY <2>1, <2>3, <2>8
    <3> QED
      BY <2>4, <3>1
  <2>9. g = Step(g)
    BY <2>7, <2>8
  <2> QED
    BY <2>6, <2>9
<1>5. it = Step(it)
  <2> HIDE DEF Step
  <2> QED
    BY <1>4
<1> HIDE DEF it
<1> DEFINE G == {s \in SUBSET ps : it[s] \in V}
<1>6. \A s \in SUBSET ps : s # {} => pick(s) \in s
  OBVIOUS
<1>7. \A s \in SUBSET ps : s # {} => it[s] = op(pick(s), it[s \ {pick(s)}])
  BY <1>5
<1> HIDE DEF pick
<1>8. {} \in G
  BY <1>2, <1>5
<1>9. ASSUME NEW s \in SUBSET ps, s # {}, \A x \in s : s \ {x} \in G PROVE s \in G
  <2>1. pick(s) \in s /\ it[s] = op(pick(s), it[s \ {pick(s)}])
    BY <1>6, <1>7, <1>9
  <2>2. it[s \ {pick(s)}] \in V /\ pick(s) \in ps
    BY <1>9, <2>1
  <2> QED
    BY <1>3, <2>1, <2>2
<1> HIDE DEF G
<1>10. \A s \in SUBSET ps : s \in G
  <2> SUFFICES ASSUME NEW s \in SUBSET ps PROVE s \in G
    OBVIOUS
  <2>1. IsFiniteSet(s) /\ SUBSET s \subseteq SUBSET ps
    BY <1>2, FS_Subset
  <2>2. \A t \in SUBSET s : (t # {} /\ \A x \in t : t \ {x} \in G) => t \in G
    BY <1>9, <2>1
  <2> QED
    BY <1>8, <2>1, <2>2, SubsetInduction
<1>11. it = [s \in SUBSET ps |-> it[s]] /\ it[{}] = start
  BY <1>5
<1>12. it \in [SUBSET ps -> V]
  BY <1>10, <1>11 DEF G
<1> QED
  BY <1>1, <1>6, <1>7, <1>11, <1>12 DEF op, start, ps, SettingByOne

(* The greatest of some numbers up to 5.                                    *)
LEMMA Greatest ==
    ASSUME NEW s \in SUBSET (1..5), s # {}
    PROVE  Max(s) \in s
<1>1. \E x \in s : \A y \in s : x >= y
  <2>1. \A y \in s : y \in {1, 2, 3, 4, 5}
    OBVIOUS
  <2>2. PICK z \in s : TRUE
    OBVIOUS
  <2>3. CASE 5 \in s
    BY <2>1, <2>3
  <2>4. CASE 5 \notin s /\ 4 \in s
    BY <2>1, <2>4
  <2>5. CASE 5 \notin s /\ 4 \notin s /\ 3 \in s
    BY <2>1, <2>5
  <2>6. CASE 5 \notin s /\ 4 \notin s /\ 3 \notin s /\ 2 \in s
    BY <2>1, <2>6
  <2>7. CASE 5 \notin s /\ 4 \notin s /\ 3 \notin s /\ 2 \notin s
    <3>1. \A y \in s : y = 1
      BY <2>1, <2>7
    <3> QED
      BY <2>2, <3>1
  <2> QED
    BY <2>3, <2>4, <2>5, <2>6, <2>7
<1> QED
  BY <1>1 DEF Max

LEMMA FewIndices == IsFiniteSet(1..5)
<1>1. \A a, b \in Int : IsFiniteSet(a..b)
  BY FS_Interval
<1>2. 1 \in Int /\ 5 \in Int
  OBVIOUS
<1> QED
  BY <1>1, <1>2, Zenon

(* The successors, in the order of the catalogue, and the predecessors of  *)
(* one.                                                                    *)
PredecessorsOf(i, p, ids) ==
    FoldLeft(LAMBDA j, old : RevertPredecessor(j, old, ids), i, Supersedes(p))

LEMMA OneSuccessor ==
    ASSUME NEW V, NEW image \in V, NEW ids, NEW p \in ToSet(RevertSuperseded),
           \A i \in V, old \in ToSet(Supersedes(p)) : RevertPredecessor(i, old, ids) \in V
    PROVE  PredecessorsOf(image, p, ids) \in V
<1> DEFINE dom == DOMAIN Supersedes(p)
           op(n, i) == RevertPredecessor(i, Supersedes(p)[n], ids)
           Step(g) == [s \in SUBSET dom |-> IF s = {} THEN image
                                             ELSE op(Max(s), g[s \ {Max(s)}])]
           it == CHOOSE g : g = Step(g)
<1>1. PredecessorsOf(image, p, ids) = it[dom]
  BY DEF PredecessorsOf, FoldLeft, MapThenFoldSet
<1>2. \A n \in dom, i \in V : op(n, i) \in V
  BY DEF ToSet
<1>3. IsFiniteSet(dom) /\ \A s \in SUBSET dom : s # {} => Max(s) \in s
  <2>1. dom \subseteq 1..5
    BY DEF ToSet, RevertSuperseded, Supersedes
  <2> QED
    BY <2>1, FewIndices, FS_Subset, Greatest
<1> HIDE DEF op, dom
<1>4. \E g \in [SUBSET dom -> V] : g = Step(g)
  <2> DEFINE ch == [s \in SUBSET dom |-> Max(s)]
             h == [n \in dom |-> [v \in V |-> op(n, v)]]
  <2>1. \A n \in dom, v \in V : h[n][v] = op(n, v) /\ h[n][v] \in V
    BY <1>2
  <2>2. \A s \in SUBSET dom : ch[s] = Max(s)
    OBVIOUS
  <2> HIDE DEF ch, h
  <2>3. FoldClosed(dom, V, image, ch, h)
    BY <1>3, <2>1, <2>2 DEF FoldClosed
  <2>4. PICK g \in [SUBSET dom -> V] : Folded(g, dom, image, ch, h)
    BY <2>3, FoldExists
  <2>5. \A s \in SUBSET dom : g[s] = IF s = {} THEN image ELSE h[ch[s]][g[s \ {ch[s]}]]
    BY <2>4 DEF Folded
  <2>6. ASSUME NEW s \in SUBSET dom, s # {}
        PROVE  h[ch[s]][g[s \ {ch[s]}]] = op(Max(s), g[s \ {Max(s)}])
    <3>1. Max(s) \in s /\ g[s \ {Max(s)}] \in V /\ ch[s] = Max(s)
      BY <1>3, <2>2, <2>6
    <3> QED
      BY <2>1, <3>1
  <2>7. g = Step(g)
    BY <2>5, <2>6
  <2> QED
    BY <2>4, <2>7
<1>5. it = Step(it)
  <2> HIDE DEF Step
  <2> QED
    BY <1>4
<1> HIDE DEF it
<1> DEFINE G == {s \in SUBSET dom : it[s] \in V}
<1>6. {} \in G
  BY <1>5
<1>7. ASSUME NEW s \in SUBSET dom, s # {}, \A x \in s : s \ {x} \in G PROVE s \in G
  <2>1. Max(s) \in s /\ it[s] = op(Max(s), it[s \ {Max(s)}])
    BY <1>3, <1>5, <1>7
  <2>2. it[s \ {Max(s)}] \in V /\ Max(s) \in dom
    BY <1>7, <2>1
  <2> QED
    BY <1>2, <2>1, <2>2
<1> HIDE DEF G
<1>8. dom \in G
  BY <1>3, <1>6, <1>7, SubsetInduction
<1> QED
  BY <1>1, <1>8 DEF G

LEMMA AllSuccessors ==
    ASSUME NEW V, NEW image \in V, NEW ids,
           \A p \in ToSet(RevertSuperseded) \cap ids : \A i \in V, old \in ToSet(Supersedes(p)) :
              RevertPredecessor(i, old, ids) \in V
    PROVE  WithoutPredecessors(image, ids) \in V
<1> DEFINE dom == DOMAIN RevertSuperseded
           op(n, i) == IF RevertSuperseded[n] \in ids
                       THEN PredecessorsOf(i, RevertSuperseded[n], ids) ELSE i
           Step(g) == [s \in SUBSET dom |-> IF s = {} THEN image
                                             ELSE op(Max(s), g[s \ {Max(s)}])]
           it == CHOOSE g : g = Step(g)
<1>1. WithoutPredecessors(image, ids) = it[dom]
  BY DEF WithoutPredecessors, PredecessorsOf, FoldLeft, MapThenFoldSet
<1>2. \A n \in dom, i \in V : op(n, i) \in V
  BY OneSuccessor DEF ToSet
<1>3. IsFiniteSet(dom) /\ \A s \in SUBSET dom : s # {} => Max(s) \in s
  <2>1. dom \subseteq 1..5
    BY DEF RevertSuperseded
  <2> QED
    BY <2>1, FewIndices, FS_Subset, Greatest
<1> HIDE DEF op, dom
<1>4. \E g \in [SUBSET dom -> V] : g = Step(g)
  <2> DEFINE ch == [s \in SUBSET dom |-> Max(s)]
             h == [n \in dom |-> [v \in V |-> op(n, v)]]
  <2>1. \A n \in dom, v \in V : h[n][v] = op(n, v) /\ h[n][v] \in V
    BY <1>2
  <2>2. \A s \in SUBSET dom : ch[s] = Max(s)
    OBVIOUS
  <2> HIDE DEF ch, h
  <2>3. FoldClosed(dom, V, image, ch, h)
    BY <1>3, <2>1, <2>2 DEF FoldClosed
  <2>4. PICK g \in [SUBSET dom -> V] : Folded(g, dom, image, ch, h)
    BY <2>3, FoldExists
  <2>5. \A s \in SUBSET dom : g[s] = IF s = {} THEN image ELSE h[ch[s]][g[s \ {ch[s]}]]
    BY <2>4 DEF Folded
  <2>6. ASSUME NEW s \in SUBSET dom, s # {}
        PROVE  h[ch[s]][g[s \ {ch[s]}]] = op(Max(s), g[s \ {Max(s)}])
    <3>1. Max(s) \in s /\ g[s \ {Max(s)}] \in V /\ ch[s] = Max(s)
      BY <1>3, <2>2, <2>6
    <3> QED
      BY <2>1, <3>1
  <2>7. g = Step(g)
    BY <2>5, <2>6
  <2> QED
    BY <2>4, <2>7
<1>5. it = Step(it)
  <2> HIDE DEF Step
  <2> QED
    BY <1>4
<1> HIDE DEF it
<1> DEFINE G == {s \in SUBSET dom : it[s] \in V}
<1>6. {} \in G
  BY <1>5
<1>7. ASSUME NEW s \in SUBSET dom, s # {}, \A x \in s : s \ {x} \in G PROVE s \in G
  <2>1. Max(s) \in s /\ it[s] = op(Max(s), it[s \ {Max(s)}])
    BY <1>3, <1>5, <1>7
  <2>2. it[s \ {Max(s)}] \in V /\ Max(s) \in dom
    BY <1>7, <2>1
  <2> QED
    BY <1>2, <2>1, <2>2
<1> HIDE DEF G
<1>8. dom \in G
  BY <1>3, <1>6, <1>7, SubsetInduction
<1> QED
  BY <1>1, <1>8 DEF G

---------------------------------------------------------------------------
(* The catalogue.                                                          *)

Flashes == [Cells -> Contents]
Tunables == {"ignition_cut_v18", "launch_control_v18"}

(* What the catalogue says, once for all the steps that need it.           *)
LEMMA PatchNames ==
    Patches = {"softbsl_loader", "softbsl_loader_v11", "cal_guard", "cal_guard_v5", "amd_flash",
               "amd_flash_v4", "amd_flash_v3", "top_ds2_guard", "door_magic", "door_0x43",
               "alphan_failsafe", "alphan_failsafe_v2", "ignition_cut_v18", "ignition_cut_v17",
               "launch_control_v18", "launch_control_v17"}
  BY DEF Patches, Edits

LEMMA PatchCells ==
    ASSUME NEW p \in Patches
    PROVE  DOMAIN Edits[p] \subseteq Code
<1> USE DEF Edits, Code, BootCells
<1>1. CASE p \in {"softbsl_loader", "softbsl_loader_v11", "cal_guard", "cal_guard_v5"}
  BY <1>1
<1>2. CASE p \in {"amd_flash", "amd_flash_v4", "amd_flash_v3", "top_ds2_guard"}
  BY <1>2
<1>3. CASE p \in {"door_magic", "door_0x43", "alphan_failsafe", "alphan_failsafe_v2"}
  BY <1>3
<1>4. CASE p \in {"ignition_cut_v18", "ignition_cut_v17",
                  "launch_control_v18", "launch_control_v17"}
  BY <1>4
<1> HIDE DEF Edits, Code, BootCells
<1> QED
  BY <1>1, <1>2, <1>3, <1>4, PatchNames

LEMMA EngineCells ==
    /\ \A p \in Patches :
          /\ "ignition" \in DOMAIN Edits[p] => p \in {"ignition_cut_v18", "ignition_cut_v17"}
          /\ "launch" \in DOMAIN Edits[p] => p \in {"launch_control_v18", "launch_control_v17"}
    /\ Edits["ignition_cut_v18"] = [ignition |-> "I18"]
    /\ Edits["ignition_cut_v17"] = [ignition |-> "I17"]
    /\ Edits["launch_control_v18"] = [launch |-> "C18"]
    /\ Edits["launch_control_v17"] = [launch |-> "C17"]
<1>1. ASSUME NEW p \in Patches, p \notin {"ignition_cut_v18", "ignition_cut_v17"}
      PROVE  "ignition" \notin DOMAIN Edits[p]
  BY <1>1, PatchNames DEF Edits
<1>2. ASSUME NEW p \in Patches, p \notin {"launch_control_v18", "launch_control_v17"}
      PROVE  "launch" \notin DOMAIN Edits[p]
  BY <1>2, PatchNames DEF Edits
<1> QED
  BY <1>1, <1>2 DEF Edits

LEMMA CellSets ==
    /\ Code \subseteq Cells /\ Settings \subseteq Cells /\ Code \cap Settings = {}
    /\ {"marker", "startup", "body", "guard", "hook", "driver", "ignition", "launch"} \subseteq Code
    /\ {"cut_range", "launch_range"} = Settings
    /\ BootCells \subseteq Code
  BY DEF Cells, Code, Settings, BootCells

LEMMA FinitePatches ==
    ASSUME NEW ps \in SUBSET Patches
    PROVE  IsFiniteSet(ps)
<1> DEFINE S1 == {"softbsl_loader"} \cup {"softbsl_loader_v11"} \cup {"cal_guard"}
                    \cup {"cal_guard_v5"}
           S2 == {"amd_flash"} \cup {"amd_flash_v4"} \cup {"amd_flash_v3"} \cup {"top_ds2_guard"}
           S3 == {"door_magic"} \cup {"door_0x43"} \cup {"alphan_failsafe"}
                    \cup {"alphan_failsafe_v2"}
           S4 == {"ignition_cut_v18"} \cup {"ignition_cut_v17"} \cup {"launch_control_v18"}
                    \cup {"launch_control_v17"}
<1>1. IsFiniteSet(S1)
  BY FS_Singleton, FS_Union, Zenon
<1>2. IsFiniteSet(S2)
  BY FS_Singleton, FS_Union, Zenon
<1>3. IsFiniteSet(S3)
  BY FS_Singleton, FS_Union, Zenon
<1>4. IsFiniteSet(S4)
  BY FS_Singleton, FS_Union, Zenon
<1>5. Patches = (S1 \cup S2) \cup (S3 \cup S4)
  BY PatchNames
<1> HIDE DEF S1, S2, S3, S4
<1>6. IsFiniteSet(Patches)
  BY <1>1, <1>2, <1>3, <1>4, <1>5, FS_Union
<1> QED
  BY <1>6, FS_Subset

LEMMA Revisions ==
    /\ Deprecated \subseteq Patches
    /\ \A p : ToSet(Supersedes(p)) \subseteq Deprecated
    /\ \A p, old : old \in Deprecated /\ old \in Requires(p) => p \in Deprecated
    /\ \A p : Requires(p) \subseteq Patches
<1>1. Deprecated \subseteq Patches
  BY PatchNames DEF Deprecated
<1>2. ASSUME NEW p PROVE ToSet(Supersedes(p)) \subseteq Deprecated
  BY DEF ToSet, Supersedes, Deprecated
<1>3. ASSUME NEW p, NEW old, old \in Deprecated, old \in Requires(p) PROVE p \in Deprecated
  BY <1>3 DEF Requires, Deprecated
<1>4. ASSUME NEW p PROVE Requires(p) \subseteq Patches
  BY PatchNames DEF Requires
<1> QED
  BY <1>1, <1>2, <1>3, <1>4

---------------------------------------------------------------------------
(* What a composition keeps.                                               *)

(* Every edit of an image leaves an image.                                 *)
LEMMA CellValues ==
    /\ {"-", "W", "G5", "B", "T", "initial"} \subseteq Contents /\ Values \subseteq Contents
    /\ \A sel \in Selections : sel.marker \in Contents
    /\ \A p \in Patches : \A c \in DOMAIN Edits[p] : Edits[p][c] \in Contents
    /\ NoImage \notin Flashes
<1>1. {"-", "W", "G5", "B", "T", "initial"} \subseteq Contents /\ Values \subseteq Contents
  BY DEF Contents
<1>2. ASSUME NEW sel \in Selections PROVE sel.marker \in Contents
  BY DEF Contents
<1>3. ASSUME NEW p \in Patches, NEW c \in DOMAIN Edits[p] PROVE Edits[p][c] \in Contents
  <2>1. Edits[p][c] \in {Edits[p][x] : x \in DOMAIN Edits[p]}
    OBVIOUS
  <2>2. Edits[p][c] \in UNION {{Edits[q][x] : x \in DOMAIN Edits[q]} : q \in Patches}
    BY <2>1, Zenon
  <2> QED
    BY <2>2, Zenon DEF Contents
<1>4. NoImage \notin Flashes
  BY PatchTabAssumption DEF Flashes
<1> QED
  BY <1>1, <1>2, <1>3, <1>4

LEMMA SetCell ==
    ASSUME NEW i \in Flashes, NEW c \in Cells, NEW v \in Contents
    PROVE  [i EXCEPT ![c] = v] \in Flashes
  BY DEF Flashes

LEMMA RevertTyped ==
    ASSUME NEW i \in Flashes, NEW p
    PROVE  revert(i, p) \in Flashes
  BY CellValues DEF revert, Flashes

LEMMA OverTyped ==
    ASSUME NEW i \in Flashes
    PROVE  Over(i, Wait) \in Flashes /\ \A p \in Patches : Over(i, Edits[p]) \in Flashes
  BY CellValues DEF Over, Wait, Flashes

LEMMA AppliedTyped ==
    ASSUME NEW i \in Flashes, NEW from, NEW p \in Patches
    PROVE  Applied(from, i, p) \in Flashes
<1> DEFINE written == Over(i, Edits[p])
           kept == IF p = "softbsl_loader" /\ i["marker"] \in {"B", "T"}
                   THEN [written EXCEPT !["marker"] = i["marker"]] ELSE written
<1>1. written \in Flashes
  BY OverTyped
<1>2. i["marker"] \in Contents /\ "marker" \in Cells
  BY CellSets DEF Flashes
<1> HIDE DEF written
<1>3. kept \in Flashes
  BY <1>1, <1>2, SetCell
<1> HIDE DEF kept
<1>4. Applied(from, i, p) = Initialised(from, kept, p)
  BY DEF Applied, kept, written
<1>5. Setting[p] \in Cells \/ p \notin Configurable
  BY CellSets DEF Setting, Configurable
<1> QED
  BY <1>3, <1>4, <1>5, SetCell, CellValues DEF Initialised

(* What removing retired revisions, and what bringing a base to the state  *)
(* the patches expect, keeps within.                                       *)
Reverting(V) ==
    /\ NoImage \in V /\ V \subseteq Flashes \cup {NoImage}
    /\ \A q \in Deprecated, i \in V \ {NoImage} :
          is_applied(i, q) => \A j \in V \ {NoImage} : revert(j, q) \in V
Carried(V) ==
    /\ Reverting(V)
    /\ \A i \in V \ {NoImage} :
          [i EXCEPT !["startup"] = "-"] \in V /\ [i EXCEPT !["body"] = "G5"] \in V

LEMMA PredecessorsWithin ==
    ASSUME NEW V, Reverting(V), NEW image \in V, NEW ids
    PROVE  WithoutPredecessors(image, ids) \in V
<1>1. ASSUME NEW i \in V, NEW old \in Deprecated
      PROVE  RevertPredecessor(i, old, ids) \in V
  <2> DEFINE dependents == {d \in Patches \ ids : old \in Requires(d)}
             bare == RevertExact(i, dependents)
             W == V \ {NoImage}
  <2>1. CASE i = NoImage \/ old \in ids \/ ~is_applied(i, old)
    BY <2>1 DEF RevertPredecessor
  <2>2. CASE i # NoImage /\ old \notin ids /\ is_applied(i, old)
    <3>1. dependents \subseteq Deprecated /\ dependents \in SUBSET Patches
      BY Revisions
    <3>2. i \in W /\ W \subseteq Flashes
      BY <2>2 DEF Reverting
    <3>3. ASSUME NEW p \in dependents, NEW j \in W
          PROVE  (IF is_applied(j, p) THEN revert(j, p) ELSE j) \in W
      <4>1. CASE ~is_applied(j, p)
        BY <4>1
      <4>2. CASE is_applied(j, p)
        <5>1. revert(j, p) \in V
          BY <3>1, <4>2 DEF Reverting
        <5>2. revert(j, p) \in Flashes
          BY <3>2, RevertTyped
        <5> QED
          BY <4>2, <5>1, <5>2, CellValues
      <4> QED
        BY <4>1, <4>2
    <3>4. IsFiniteSet(dependents)
      BY <3>1, FinitePatches
    <3> HIDE DEF dependents, W
    <3>5. bare \in W
      BY <3>2, <3>3, <3>4, RevertFold
    <3>6. RevertPredecessor(i, old, ids) \in {revert(bare, old), NoImage}
      BY <2>2 DEF RevertPredecessor, dependents
    <3>7. revert(bare, old) \in V /\ NoImage \in V
      <4> HIDE DEF bare
      <4> QED
        BY <2>2, <3>2, <3>5 DEF Reverting, W
    <3> QED
      BY <3>6, <3>7
  <2> QED
    BY <2>1, <2>2
<1>2. \A p : \A i \in V, old \in ToSet(Supersedes(p)) : RevertPredecessor(i, old, ids) \in V
  BY <1>1, Revisions
<1> QED
  BY <1>2, AllSuccessors

LEMMA PreparedWithin ==
    ASSUME NEW V, Carried(V), NEW from \in V, from # NoImage, NEW ids
    PROVE  Prepared(from, ids) \in V
<1>1. Unwaited(from, ids) \in V /\ Unwaited(from, ids) # NoImage
  <2>1. [from EXCEPT !["startup"] = "-"] \in V
    BY DEF Carried, Reverting
  <2>2. [from EXCEPT !["startup"] = "-"] \in Flashes
    BY SetCell, CellSets, CellValues DEF Carried, Reverting
  <2> QED
    BY <2>1, <2>2, CellValues DEF Unwaited
<1>2. restore_missing_calguard_v5_body(Unwaited(from, ids)) \in V
  BY <1>1 DEF Carried, Reverting, restore_missing_calguard_v5_body
<1> QED
  BY <1>1, <1>2, PredecessorsWithin DEF Prepared, Carried

LEMMA AnyImage == Carried(Flashes \cup {NoImage})
<1>1. \A i \in Flashes : /\ [i EXCEPT !["startup"] = "-"] \in Flashes
                         /\ [i EXCEPT !["body"] = "G5"] \in Flashes
  BY SetCell, CellSets, CellValues
<1> QED
  BY <1>1, RevertTyped DEF Carried, Reverting

(* A cell no retired revision that is in the image has bytes in.           *)
LEMMA SteadyCell ==
    ASSUME NEW c \in Cells \ {"marker", "startup", "body"}, NEW v,
           \A q \in Deprecated : c \in DOMAIN Edits[q] => Edits[q][c] # v
    PROVE  Carried({i \in Flashes : i[c] = v} \cup {NoImage})
<1> DEFINE V == {i \in Flashes : i[c] = v} \cup {NoImage}
<1>1. ASSUME NEW i \in V \ {NoImage}
      PROVE  [i EXCEPT !["startup"] = "-"] \in V /\ [i EXCEPT !["body"] = "G5"] \in V
  <2>1. i \in Flashes /\ i[c] = v
    OBVIOUS
  <2>2. /\ [i EXCEPT !["startup"] = "-"] \in Flashes
        /\ [i EXCEPT !["body"] = "G5"] \in Flashes
    BY <2>1, SetCell, CellSets, CellValues
  <2>3. [i EXCEPT !["startup"] = "-"][c] = v /\ [i EXCEPT !["body"] = "G5"][c] = v
    BY <2>1 DEF Flashes
  <2> QED
    BY <2>2, <2>3
<1>2. ASSUME NEW q \in Deprecated, NEW i \in V \ {NoImage}, is_applied(i, q),
             NEW j \in V \ {NoImage}
      PROVE  revert(j, q) \in V
  <2>1. c \notin DOMAIN Edits[q]
    BY <1>2 DEF is_applied, Holds, BankMarker
  <2>2. revert(j, q) \in Flashes /\ revert(j, q)[c] = j[c] /\ j[c] = v
    BY <2>1, RevertTyped DEF revert
  <2> QED
    BY <2>2
<1> QED
  BY <1>1, <1>2 DEF Carried, Reverting

(* A composition gives an image, or none.                                  *)
LEMMA PatchedTyped ==
    ASSUME NEW from, NEW clean \in Flashes, NEW ids \in SUBSET Patches
    PROVE  Patched(from, ids, clean) \in Flashes
<1>1. Applicative(Flashes, from, ids, clean)
  BY FinitePatches, OverTyped, AppliedTyped DEF Applicative, Unpatched
<1>2. PICK it \in [SUBSET ids -> Flashes] : OneByOne(it, from, ids, clean)
  BY <1>1, PatchedSteps
<1> QED
  BY <1>2 DEF OneByOne

LEMMA BuildOfTyped ==
    ASSUME NEW from \in Flashes, NEW ids \in SUBSET Patches, NEW marker \in Contents \cup {""}
    PROVE  BuildOf(from, ids, marker) \in Flashes \cup {NoImage}
<1> DEFINE clean == Prepared(from, ids)
           out == Marked(Patched(from, ids, clean), MarkerOf(from, ids, marker))
<1>1. clean \in Flashes \cup {NoImage}
  BY AnyImage, PreparedWithin, CellValues
<1> HIDE DEF clean
<1>2. ASSUME clean # NoImage PROVE out \in Flashes
  <2>1. Patched(from, ids, clean) \in Flashes
    BY <1>1, <1>2, PatchedTyped
  <2>2. MarkerOf(from, ids, marker) \in Contents \cup {""}
    BY CellValues DEF MarkerOf
  <2>3. "marker" \in Cells
    BY CellSets
  <2> QED
    BY <2>1, <2>2, <2>3, SetCell DEF Marked
<1>3. BuildOf(from, ids, marker) =
        IF Admissible(from, ids, clean) THEN TopBankOnly(out) ELSE NoImage
  BY DEF BuildOf, BuildFrom, clean
<1> QED
  BY <1>2, <1>3 DEF TopBankOnly, Admissible

(* The two patches whose settings the tab edits, and their cells.          *)
EngineCell == [ignition_cut_v18 |-> "ignition", launch_control_v18 |-> "launch"]
Own(p) == IF p = "ignition_cut_v18" THEN "I18" ELSE "C18"

LEMMA EngineApplied ==
    ASSUME NEW p \in Tunables
    PROVE  /\ \A i : is_applied(i, p) <=> i[EngineCell[p]] = Own(p)
           /\ EngineCell[p] \in Code \ {"marker", "startup", "body"}
           /\ Setting[p] \in Settings /\ p \in Configurable /\ p \in Patches
           /\ p \notin Deprecated /\ Own(p) \notin {"-", "I17", "C17"}
<1>1. DOMAIN Edits[p] = {EngineCell[p]} /\ Edits[p][EngineCell[p]] = Own(p)
  BY EngineCells DEF EngineCell, Own, Tunables
<1>2. EngineCell[p] \in Code \ {"marker", "startup", "body"}
  BY CellSets DEF EngineCell, Tunables
<1>3. \A i : is_applied(i, p) <=> i[EngineCell[p]] = Own(p)
  BY <1>1, <1>2 DEF is_applied, Holds, BankMarker
<1>4. p \in Patches /\ p \notin Deprecated
  BY PatchNames DEF Tunables, Deprecated
<1>5. Setting[p] \in Settings /\ p \in Configurable
  BY DEF Tunables, Setting, Settings, Configurable
<1> QED
  BY <1>2, <1>3, <1>4, <1>5 DEF Own

LEMMA EngineAlone ==
    ASSUME NEW p \in Tunables, NEW q \in Patches
    PROVE  /\ EngineCell[p] \in DOMAIN Edits[q] => q = p \/ q \in Deprecated
           /\ Setting[p] \notin DOMAIN Edits[q]
           /\ q \in Deprecated /\ EngineCell[p] \in DOMAIN Edits[q]
                 => Edits[q][EngineCell[p]] # Own(p)
           /\ q \in Configurable /\ Setting[q] = Setting[p] => q = p \/ q \in Deprecated
<1>1. EngineCell[p] \in DOMAIN Edits[q] => q = p \/ q \in {"ignition_cut_v17", "launch_control_v17"}
  BY EngineCells DEF EngineCell, Tunables
<1>2. {"ignition_cut_v17", "launch_control_v17"} \subseteq Deprecated
  BY DEF Deprecated
<1>3. Setting[p] \notin DOMAIN Edits[q]
  BY PatchCells, CellSets, EngineApplied
<1>4. q \in Configurable /\ Setting[q] = Setting[p] => q = p \/ q \in Deprecated
  BY DEF Setting, Configurable, Tunables, Deprecated
<1>5. q \in {"ignition_cut_v17", "launch_control_v17"} /\ EngineCell[p] \in DOMAIN Edits[q]
        => Edits[q][EngineCell[p]] # Own(p)
  BY EngineCells DEF EngineCell, Own, Tunables
<1>6. p \notin Deprecated
  BY EngineApplied
<1> QED
  BY <1>1, <1>2, <1>3, <1>4, <1>5, <1>6

(* One patch applied: its own cell, and its setting if that was erased.    *)
LEMMA AppliedStep ==
    ASSUME NEW from, NEW i \in Flashes, NEW q \in Patches \ Deprecated, NEW p \in Tunables
    PROVE  /\ Applied(from, i, q)[EngineCell[p]] = IF q = p THEN Own(p) ELSE i[EngineCell[p]]
           /\ Applied(from, i, q)[Setting[p]] =
                 IF q = p /\ ~is_applied(from, p) /\ i[Setting[p]] = "ff" THEN "initial"
                 ELSE i[Setting[p]]
<1> DEFINE written == Over(i, Edits[q])
           kept == IF q = "softbsl_loader" /\ i["marker"] \in {"B", "T"}
                   THEN [written EXCEPT !["marker"] = i["marker"]] ELSE written
           e == EngineCell[p]
           t == Setting[p]
<1>1. e \in Cells \ {"marker"} /\ t \in Cells \ {"marker"} /\ e # t
  BY EngineApplied, CellSets
<1>2. written \in Flashes /\ written[e] = (IF q = p THEN Own(p) ELSE i[e]) /\ written[t] = i[t]
  <2>1. written \in Flashes
    BY OverTyped
  <2>2. e \in DOMAIN Edits[q] <=> q = p
    BY EngineAlone, EngineCells DEF EngineCell, Tunables
  <2>3. Edits[p][e] = Own(p)
    BY EngineCells DEF EngineCell, Own, Tunables
  <2>4. t \notin DOMAIN Edits[q]
    BY EngineAlone
  <2> QED
    BY <1>1, <2>1, <2>2, <2>3, <2>4 DEF Over
<1> HIDE DEF written, e, t
<1>3. kept[e] = written[e] /\ kept[t] = written[t] /\ kept \in [Cells -> Contents]
  <2>1. i["marker"] \in Contents /\ "marker" \in Cells
    BY CellSets DEF Flashes
  <2> QED
    BY <1>1, <1>2, <2>1 DEF Flashes
<1> HIDE DEF kept
<1>4. Applied(from, i, q) = Initialised(from, kept, q)
  BY DEF Applied, kept, written
<1>5. q \in Configurable => (Setting[q] = t <=> q = p) /\ Setting[q] \in Settings
  BY EngineAlone DEF t, Setting, Configurable, Settings
<1>6. e \notin Settings
  BY EngineApplied, CellSets DEF e
<1>7. p \in Configurable
  BY EngineApplied
<1>8. Initialised(from, kept, q)[e] = kept[e]
  BY <1>1, <1>3, <1>5, <1>6 DEF Initialised
<1>9. Initialised(from, kept, q)[t] =
        IF q = p /\ ~is_applied(from, p) /\ kept[t] = "ff" THEN "initial" ELSE kept[t]
  <2>1. CASE q = p
    BY <1>1, <1>3, <1>5, <1>7, <2>1 DEF Initialised
  <2>2. CASE q # p
    BY <1>1, <1>3, <1>5, <2>2 DEF Initialised
  <2> QED
    BY <2>1, <2>2
<1> QED
  BY <1>2, <1>3, <1>4, <1>8, <1>9 DEF e, t

(* A composition writes the code of a tunable patch it applies, and its    *)
(* setting only when that is erased and the patch new.                     *)
LEMMA EnginePatched ==
    ASSUME NEW from, NEW clean \in Flashes, NEW ids \in SUBSET (Patches \ Deprecated),
           NEW p \in Tunables
    PROVE  /\ Patched(from, ids, clean)[EngineCell[p]] =
                 IF p \in ids THEN Own(p) ELSE clean[EngineCell[p]]
           /\ Patched(from, ids, clean)[Setting[p]] =
                 IF p \in ids /\ ~is_applied(from, p) /\ clean[Setting[p]] = "ff" THEN "initial"
                 ELSE clean[Setting[p]]
<1> DEFINE e == EngineCell[p]
           t == Setting[p]
           new == ~is_applied(from, p) /\ clean[t] = "ff"
           As(i, s) == /\ i[e] = (IF p \in s THEN Own(p) ELSE clean[e])
                       /\ i[t] = IF p \in s /\ new THEN "initial" ELSE clean[t]
<1>1. Applicative(Flashes, from, ids, clean)
  BY FinitePatches, OverTyped, AppliedTyped DEF Applicative, Unpatched
<1>2. PICK it \in [SUBSET ids -> Flashes] : OneByOne(it, from, ids, clean)
  BY <1>1, PatchedSteps
<1> DEFINE G == {s \in SUBSET ids : As(it[s], s)}
<1>3. {} \in G
  <2>1. e \in Cells \ {"startup"} /\ t \in Cells \ {"startup"}
    BY EngineApplied, CellSets
  <2>2. it[{}] = Unpatched(from, ids, clean)
    BY <1>2 DEF OneByOne
  <2> HIDE DEF e, t
  <2>3. it[{}][e] = clean[e] /\ it[{}][t] = clean[t]
    BY <2>1, <2>2 DEF Unpatched, Over, Wait
  <2> QED
    BY <2>3
<1>4. ASSUME NEW s \in SUBSET ids, s # {}, \A x \in s : s \ {x} \in G PROVE s \in G
  <2>1. PICK q \in s : it[s] = Applied(from, it[s \ {q}], q)
    BY <1>2, <1>4 DEF OneByOne
  <2> DEFINE r == s \ {q}
             i == it[r]
  <2>2. r \in SUBSET ids /\ i \in Flashes /\ q \in Patches \ Deprecated
    BY <1>2
  <2>3. As(i, r)
    BY <1>4
  <2>4. p \in s <=> q = p \/ p \in r
    OBVIOUS
  <2>5. q = p => p \notin r
    OBVIOUS
  <2> HIDE DEF i, r
  <2>6. /\ Applied(from, i, q)[e] = IF q = p THEN Own(p) ELSE i[e]
        /\ Applied(from, i, q)[t] =
              IF q = p /\ ~is_applied(from, p) /\ i[t] = "ff" THEN "initial" ELSE i[t]
    BY <2>2, AppliedStep
  <2>7. it[s] = Applied(from, i, q)
    BY <2>1 DEF i, r
  <2> HIDE DEF e, t
  <2>8. As(it[s], s)
    BY <2>3, <2>4, <2>5, <2>6, <2>7
  <2> QED
    BY <2>8
<1>5. IsFiniteSet(ids)
  BY <1>1 DEF Applicative
<1> HIDE DEF G
<1>6. ids \in G
  BY <1>3, <1>4, <1>5, SubsetInduction
<1> HIDE DEF e, t
<1>7. As(Patched(from, ids, clean), ids)
  BY <1>2, <1>6 DEF OneByOne, G
<1> QED
  BY <1>7 DEF e, t

Expected(from, ids, p) ==
    IF p \in ids /\ ~is_applied(from, p) /\ from[Setting[p]] = "ff" THEN "initial"
    ELSE from[Setting[p]]

(* Preparing the base loses neither a tunable patch nor a setting.         *)
LEMMA EnginePrepared ==
    ASSUME NEW from \in Flashes, NEW ids, NEW p \in Tunables, Prepared(from, ids) # NoImage
    PROVE  /\ is_applied(from, p) => is_applied(Prepared(from, ids), p)
           /\ Prepared(from, ids)[Setting[p]] = from[Setting[p]]
<1> DEFINE clean == Prepared(from, ids)
           Within(c, v) == {i \in Flashes : i[c] = v} \cup {NoImage}
<1>1. from # NoImage
  BY CellValues
<1>2. ASSUME NEW c \in Cells \ {"marker", "startup", "body"}, NEW v, from[c] = v,
             \A q \in Deprecated : c \in DOMAIN Edits[q] => Edits[q][c] # v
      PROVE  clean[c] = v
  <2>1. Carried(Within(c, v))
    BY <1>2, SteadyCell
  <2>2. from \in Within(c, v)
    BY <1>2
  <2> HIDE DEF Within
  <2>3. clean \in Within(c, v)
    BY <1>1, <2>1, <2>2, PreparedWithin
  <2> QED
    BY <2>3 DEF Within
<1> HIDE DEF clean, Within
<1>3. clean[Setting[p]] = from[Setting[p]]
  <2>1. Setting[p] \in Cells \ {"marker", "startup", "body"}
    BY EngineApplied, CellSets
  <2>2. \A q \in Deprecated : Setting[p] \notin DOMAIN Edits[q]
    BY EngineAlone, Revisions
  <2> QED
    BY <1>2, <2>1, <2>2
<1>4. ASSUME is_applied(from, p) PROVE is_applied(clean, p)
  <2>1. from[EngineCell[p]] = Own(p) /\ EngineCell[p] \in Cells \ {"marker", "startup", "body"}
    BY <1>4, EngineApplied, CellSets
  <2>2. \A q \in Deprecated : EngineCell[p] \in DOMAIN Edits[q] => Edits[q][EngineCell[p]] # Own(p)
    BY EngineAlone, Revisions
  <2>3. clean[EngineCell[p]] = Own(p)
    BY <1>2, <2>1, <2>2
  <2> QED
    BY <2>3, EngineApplied
<1> QED
  BY <1>3, <1>4 DEF clean

(* The same for the whole build.                                           *)
LEMMA EngineBuilt ==
    ASSUME NEW from \in Flashes, NEW ids \in SUBSET (Patches \ Deprecated), NEW marker,
           BuildOf(from, ids, marker) # NoImage, NEW p \in Tunables
    PROVE  /\ p \in ids \/ is_applied(from, p) => is_applied(BuildOf(from, ids, marker), p)
           /\ BuildOf(from, ids, marker)[Setting[p]] = Expected(from, ids, p)
<1> DEFINE clean == Prepared(from, ids)
           patched == Patched(from, ids, clean)
           out == Marked(patched, MarkerOf(from, ids, marker))
<1>1. clean # NoImage /\ BuildOf(from, ids, marker) = out
  BY DEF BuildOf, BuildFrom, Admissible, TopBankOnly
<1>2. clean \in Flashes
  BY <1>1, AnyImage, PreparedWithin, CellValues
<1>3. /\ is_applied(from, p) => is_applied(clean, p)
      /\ clean[Setting[p]] = from[Setting[p]]
  BY <1>1, EnginePrepared
<1> HIDE DEF clean
<1>4. /\ patched[EngineCell[p]] = IF p \in ids THEN Own(p) ELSE clean[EngineCell[p]]
      /\ patched[Setting[p]] =
            IF p \in ids /\ ~is_applied(from, p) /\ clean[Setting[p]] = "ff" THEN "initial"
            ELSE clean[Setting[p]]
  BY <1>2, EnginePatched
<1>5. patched \in Flashes
  BY <1>2, PatchedTyped
<1> HIDE DEF patched
<1>6. out[EngineCell[p]] = patched[EngineCell[p]] /\ out[Setting[p]] = patched[Setting[p]]
  <2>1. EngineCell[p] \in Cells \ {"marker"} /\ Setting[p] \in Cells \ {"marker"}
    BY EngineApplied, CellSets
  <2> QED
    BY <1>5, <2>1 DEF Marked, Flashes
<1> QED
  BY <1>1, <1>3, <1>4, <1>6, EngineApplied DEF Expected

LEMMA ResolvedPatches ==
    ASSUME NEW from, NEW sel \in SUBSET (Patches \ Deprecated)
    PROVE  /\ Resolved(from, sel) \in SUBSET (Patches \ Deprecated)
           /\ sel \subseteq Resolved(from, sel)
<1>1. {"launch_control_v18", "cal_guard", "amd_flash"} \subseteq Patches \ Deprecated
  BY PatchNames DEF Deprecated
<1>2. LaunchSuccessor(from, sel) \subseteq {"launch_control_v18"}
  BY DEF LaunchSuccessor
<1>3. ASSUME NEW s \in SUBSET (Patches \ Deprecated)
      PROVE  s \subseteq with_startup_wait(from, s)
                /\ with_startup_wait(from, s) \subseteq s \cup {"cal_guard", "amd_flash"}
  BY DEF with_startup_wait
<1> DEFINE s == sel \cup LaunchSuccessor(from, sel)
<1>4. s \in SUBSET (Patches \ Deprecated)
  BY <1>1, <1>2
<1>5. Resolved(from, sel) = with_startup_wait(from, s)
  BY DEF Resolved
<1> HIDE DEF s
<1>6. sel \subseteq s
  BY DEF s
<1> QED
  BY <1>1, <1>3, <1>4, <1>5, <1>6

LEMMA BuildTyped ==
    ASSUME NEW from \in Flashes, NEW sel \in SUBSET Patches, NEW marker \in Contents \cup {""}
    PROVE  build(from, sel, marker) \in Flashes \cup {NoImage}
<1>1. CASE sel \cap Deprecated = {}
  <2>1. Resolved(from, sel) \in SUBSET Patches
    BY <1>1, ResolvedPatches
  <2> QED
    BY <2>1, BuildOfTyped DEF build
<1>2. CASE sel \cap Deprecated # {}
  BY <1>2 DEF build
<1> QED
  BY <1>1, <1>2

LEMMA EngineInstalled ==
    ASSUME NEW ids, NEW p \in Tunables \cap ids
    PROVE  p \in Effective(ids)
  BY Revisions, EngineApplied DEF Effective, Shadowed

(* Of the tunable patches only the launch control requires another.        *)
LEMMA EngineMissing ==
    ASSUME NEW ids
    PROVE  /\ MissingIn(ids, "ignition_cut_v18") = {}
           /\ MissingIn(ids, "launch_control_v18") = {} <=> "ignition_cut_v18" \in ids
<1>1. Requires("ignition_cut_v18") = {} /\ Requires("launch_control_v18") = {"ignition_cut_v18"}
  BY DEF Requires
<1>2. "ignition_cut_v18" \in ids <=> "ignition_cut_v18" \in Effective(ids)
  BY EngineInstalled DEF Tunables, Effective
<1>3. MissingIn(ids, "ignition_cut_v18") = {}
  BY <1>1 DEF MissingIn
<1>4. MissingIn(ids, "launch_control_v18") =
        {r \in {"ignition_cut_v18"} : ~\E q \in Effective(ids) : r = q}
  BY <1>1 DEF MissingIn
<1> QED
  BY <1>2, <1>3, <1>4

(* The setting a patch has in the result before any pending value.         *)
Given(from, p) ==
    IF ~is_applied(from, p) /\ from[Setting[p]] = "ff" THEN "initial" ELSE from[Setting[p]]

(* What the tab composes holds what was ticked or installed, whole, with   *)
(* the setting it had or the initial one.                                  *)
LEMMA EngineBuiltImage ==
    ASSUME NEW from \in Flashes, NEW sel \in SUBSET Patches, build_image(from, sel) # NoImage
    PROVE  /\ build_image(from, sel) \in Flashes
           /\ \A p \in Tunables :
                 p \in sel \/ is_applied(from, p) =>
                    /\ is_applied(build_image(from, sel), p)
                    /\ build_image(from, sel)[Setting[p]] = Given(from, p)
                    /\ MissingIn(InstalledIn(build_image(from, sel)), p) = {}
<1> DEFINE out == build_image(from, sel)
           ids == Resolved(from, sel)
<1>1. out = build(from, sel, "") /\ Supported(InstalledIn(out))
  BY DEF build_image, SupportedImage
<1>2. sel \cap Deprecated = {} /\ out = BuildOf(from, ids, "")
  BY <1>1 DEF build
<1>3. ids \in SUBSET (Patches \ Deprecated) /\ sel \subseteq ids
  BY <1>2, ResolvedPatches
<1>4. out \in Flashes
  BY <1>1, BuildTyped
<1> HIDE DEF ids
<1>5. ASSUME NEW p \in Tunables, p \in sel \/ is_applied(from, p)
      PROVE  /\ is_applied(out, p) /\ out[Setting[p]] = Given(from, p)
             /\ MissingIn(InstalledIn(out), p) = {}
  <2> HIDE DEF out
  <2>1. is_applied(out, p) /\ out[Setting[p]] = Expected(from, ids, p)
    <3>1. BuildOf(from, ids, "") # NoImage
      BY <1>2 DEF out
    <3>2. p \in ids \/ is_applied(from, p)
      BY <1>3, <1>5
    <3>3. \A m : BuildOf(from, ids, m) # NoImage =>
              /\ p \in ids \/ is_applied(from, p) => is_applied(BuildOf(from, ids, m), p)
              /\ BuildOf(from, ids, m)[Setting[p]] = Expected(from, ids, p)
      BY <1>3, EngineBuilt
    <3>4. /\ p \in ids \/ is_applied(from, p) => is_applied(BuildOf(from, ids, ""), p)
          /\ BuildOf(from, ids, "")[Setting[p]] = Expected(from, ids, p)
      BY <1>3, <3>1, <3>3
    <3>5. out = BuildOf(from, ids, "")
      BY <1>2 DEF out
    <3> HIDE DEF out
    <3> QED
      BY <3>2, <3>4, <3>5
  <2>2. Expected(from, ids, p) = Given(from, p)
    BY <1>3, <1>5 DEF Expected, Given
  <2>3. p \in InstalledIn(out)
    BY <2>1, EngineApplied DEF InstalledIn
  <2> QED
    BY <1>1, <2>1, <2>2, <2>3, EngineInstalled DEF Supported
<1> QED
  BY <1>4, <1>5

(* One pending value, put into an image that holds its patch.              *)
LEMMA SettingChanged ==
    ASSUME NEW i \in Flashes, NEW p \in Tunables, NEW v \in Contents, is_applied(i, p),
           p = "launch_control_v18" => is_applied(i, "ignition_cut_v18"), i[Setting[p]] # v
    PROVE  /\ apply_parameter_changes(i, p, v) = [i EXCEPT ![Setting[p]] = v]
           /\ apply_parameter_changes(i, p, v) \in Flashes
<1>1. MissingIn(InstalledIn(i), p) = {}
  <2>1. "ignition_cut_v18" \in Patches
    BY PatchNames
  <2> QED
    BY <2>1, EngineMissing DEF Tunables, InstalledIn
<1>2. p \in Configurable \ Deprecated /\ Setting[p] \in Cells
  BY EngineApplied, CellSets
<1>3. apply_parameter_changes(i, p, v) = [i EXCEPT ![Setting[p]] = v]
  BY <1>1, <1>2 DEF apply_parameter_changes, editable
<1> QED
  BY <1>2, <1>3, SetCell

(* Nothing chosen: nothing is changed but the marker.                      *)
LEMMA OnlyMarked ==
    ASSUME NEW image \in Flashes
    PROVE  BuildOf(image, {}, "T") \in {NoImage, [image EXCEPT !["marker"] = "T"]}
<1>1. WithoutPredecessors(image, {}) \in {image}
  <2>1. \A p \in ToSet(RevertSuperseded) \cap {} : \A i \in {image}, old \in ToSet(Supersedes(p)) :
           RevertPredecessor(i, old, {}) \in {image}
    OBVIOUS
  <2> QED
    BY <2>1, AllSuccessors
<1>2. Prepared(image, {}) = image
  BY <1>1 DEF Prepared, Unwaited
<1>3. Patched(image, {}, image) = image
  <2>1. Applicative(Flashes, image, {}, image) /\ Unpatched(image, {}, image) = image
    BY FS_EmptySet DEF Applicative, Unpatched, WaitChosen
  <2>2. PICK it \in [SUBSET {} -> Flashes] : OneByOne(it, image, {}, image)
    BY <2>1, PatchedSteps
  <2> QED
    BY <2>1, <2>2 DEF OneByOne
<1>4. MarkerOf(image, {}, "T") = "T"
  BY DEF MarkerOf
<1> QED
  BY <1>2, <1>3, <1>4 DEF BuildOf, BuildFrom, TopBankOnly, Marked

(* A removal touches no other tunable patch and no setting.                *)
LEMMA Removed ==
    ASSUME NEW from \in Flashes, NEW p \in Patches, revert_patch(from, p) # NoImage
    PROVE  /\ revert_patch(from, p) \in Flashes
           /\ \A q \in Tunables \ {p} :
                 /\ is_applied(revert_patch(from, p), q) <=> is_applied(from, q)
                 /\ revert_patch(from, p)[Setting[q]] = from[Setting[q]]
<1> DEFINE bare == revert(from, p)
           settled == Settled(from, p, bare)
           out == revert_patch(from, p)
<1>1. is_applied(from, p) /\ out = Remarked(from, settled)
  BY DEF revert_patch
<1>2. bare \in Flashes
  BY RevertTyped
<1> HIDE DEF bare
<1>3. settled \in {bare, [bare EXCEPT !["startup"] = "-"]}
  BY DEF Settled
<1>4. settled \in Flashes
  BY <1>2, <1>3, SetCell, CellSets, CellValues
<1> HIDE DEF settled
<1>5. out \in {settled, [settled EXCEPT !["marker"] = "T"]}
  <2>1. BuildOf(settled, {}, "T") \in {NoImage, [settled EXCEPT !["marker"] = "T"]}
    BY <1>4, OnlyMarked
  <2> QED
    BY <1>1, <2>1 DEF Remarked
<1>6. out \in Flashes
  BY <1>4, <1>5, SetCell, CellSets, CellValues
<1> HIDE DEF out
<1>7. ASSUME NEW c \in Cells \ {"startup", "marker"} PROVE out[c] = bare[c]
  BY <1>2, <1>3, <1>4, <1>5 DEF Flashes
<1>8. ASSUME NEW q \in Tunables \ {p}
      PROVE  /\ is_applied(out, q) <=> is_applied(from, q)
             /\ out[Setting[q]] = from[Setting[q]]
  <2> DEFINE e == EngineCell[q]
             t == Setting[q]
  <2>1. e \in Cells \ {"startup", "marker"} /\ t \in Cells \ {"startup", "marker"}
    BY EngineApplied, CellSets
  <2>2. t \notin DOMAIN Edits[p]
    BY EngineAlone
  <2>3. e \in DOMAIN Edits[p] => from[e] # Own(q)
    <3>1. e \in DOMAIN Edits[p] => p \in Deprecated /\ Edits[p][e] # Own(q)
      BY EngineAlone
    <3> QED
      BY <1>1, <2>1, <3>1 DEF is_applied, Holds, BankMarker
  <2>4. Own(q) # "-"
    BY EngineApplied
  <2> HIDE DEF e, t
  <2>5. out[t] = from[t]
    BY <1>7, <2>1, <2>2 DEF bare, revert
  <2>6. out[e] = Own(q) <=> from[e] = Own(q)
    BY <1>7, <2>1, <2>3, <2>4 DEF bare, revert
  <2> QED
    BY <2>5, <2>6, EngineApplied DEF e, t
<1> QED
  BY <1>6, <1>8 DEF out

---------------------------------------------------------------------------
(* What the tab composes.                                                  *)

(* What the command line composes is an image, or none.                    *)
LEMMA RevertExactTyped ==
    ASSUME NEW image \in Flashes, NEW ps \in SUBSET Patches
    PROVE  RevertExact(image, ps) \in Flashes
<1>1. IsFiniteSet(ps)
  BY FinitePatches
<1>2. \A p \in ps, i \in Flashes : (IF is_applied(i, p) THEN revert(i, p) ELSE i) \in Flashes
  BY RevertTyped
<1> QED
  BY <1>1, <1>2, RevertFold

LEMMA ComposePlanTyped ==
    ASSUME NEW from \in Flashes, NEW ps \in SUBSET Patches, NEW marker \in {"", "B", "T"}
    PROVE  _compose_image(from, ps, marker) \in Flashes \cup {NoImage}
<1> DEFINE ids == with_startup_wait(from, ps)
           missing == Missing(from, ids)
           start == IF marker # "" /\ "softbsl_loader" \in ids /\ from["marker"] \in {"B", "T"}
                    THEN [from EXCEPT !["marker"] = "B"] ELSE from
<1>1. ids \in SUBSET Patches
  BY PatchNames DEF with_startup_wait
<1> HIDE DEF ids
<1>2. missing \in SUBSET Patches
  BY <1>1 DEF Missing
<1> HIDE DEF missing
<1>3. start \in Flashes
  BY SetCell, CellSets, CellValues
<1> HIDE DEF start
<1>4. marker \in Contents \cup {""}
  BY CellValues
<1>5. build(start, missing, marker) \in Flashes \cup {NoImage}
  BY <1>2, <1>3, <1>4, BuildTyped
<1> QED
  BY <1>5 DEF _compose_image, ComposeWith, ComposeOf, ids, missing, start

LEMMA ComposedTargetTyped ==
    ASSUME NEW from \in Flashes, NEW amd, NEW guard, NEW alphan, NEW bank \in {"", "T"}
    PROVE  compose_persistent_image(from, amd, guard, alphan, bank) \in Flashes \cup {NoImage}
<1> DEFINE marker == IF bank = "" THEN MarkerIn(from) ELSE bank
           normal == restore_missing_calguard_v5_body(from)
           clean == Cleaned(Unwaiting(normal))
           plan == _persistent_patch_plan(from, amd, guard, alphan, marker)
<1>1. marker \in {"", "B", "T"}
  BY DEF MarkerIn
<1> HIDE DEF marker
<1>2. normal \in Flashes
  BY SetCell, CellSets, CellValues DEF restore_missing_calguard_v5_body
<1> HIDE DEF normal
<1>3. Unwaiting(normal) \in Flashes
  BY <1>2, SetCell, CellSets, CellValues DEF Unwaiting
<1>4. clean \in Flashes
  BY <1>3, RevertExactTyped, PatchNames DEF Cleaned
<1> HIDE DEF clean
<1>5. ASSUME NEW ps \in SUBSET Patches, NEW driver
      PROVE  /\ PlanOf(clean, ps, driver).base \in Flashes
             /\ PlanOf(clean, ps, driver).patches = ps
  <2>1. {"door_0x43"} \cup ps \in SUBSET Patches
    BY PatchNames
  <2>2. RevertExact(clean, {"door_0x43"} \cup ps) \in Flashes
    BY <1>4, <2>1, RevertExactTyped
  <2> QED
    BY <2>2 DEF PlanOf, Plan
<1>6. ASSUME NEW g, NEW top, NEW driver \in SUBSET {"amd_flash"}
      PROVE  LET it == PlanFor(clean, g, alphan, top, driver)
             IN it.base \in Flashes /\ it.patches \in SUBSET Patches
  <2> DEFINE ps == {"softbsl_loader", "door_magic"} \cup driver
                      \cup (IF g THEN {"cal_guard"} ELSE {})
                      \cup (IF alphan THEN {"alphan_failsafe"} ELSE {})
                      \cup (IF top THEN {"top_ds2_guard"} ELSE {})
  <2>1. ps \in SUBSET Patches
    BY PatchNames
  <2>2. PlanFor(clean, g, alphan, top, driver) = PlanOf(clean, ps, driver)
    BY DEF PlanFor
  <2> HIDE DEF ps
  <2> QED
    BY <1>5, <2>1, <2>2
<1>7. plan.base = NoImage \/ (plan.base \in Flashes /\ plan.patches \in SUBSET Patches)
  <2> DEFINE g == guard \/ installed_calguard(normal)
             driver == IF amd /\ (\/ from["driver"] = "-"
                                  \/ _patch_state(clean, "amd_flash", BootCells) = "legacy")
                       THEN {"amd_flash"} ELSE {}
             top == amd /\ marker = "T"
             full == PlanFor(clean, g, alphan, top, driver)
  <2>1. plan \in {NoPlan, full}
    BY DEF _persistent_patch_plan, PlanFrom, clean, normal
  <2>2. driver \in SUBSET {"amd_flash"}
    OBVIOUS
  <2> HIDE DEF g, top, driver, plan
  <2>3. full.base \in Flashes /\ full.patches \in SUBSET Patches
    BY <1>6, <2>2
  <2> HIDE DEF full
  <2>4. CASE plan = NoPlan
    <3>1. plan.base = NoImage
      BY <2>4 DEF NoPlan
    <3> QED
      BY <3>1
  <2>5. CASE plan = full
    <3>1. plan.base \in Flashes /\ plan.patches \in SUBSET Patches
      BY <2>3, <2>5, Zenon
    <3> QED
      BY <3>1
  <2> QED
    BY <2>1, <2>4, <2>5
<1>8. compose_persistent_image(from, amd, guard, alphan, bank) = ComposePlan(plan, marker)
  BY DEF compose_persistent_image, marker
<1> HIDE DEF plan
<1> QED
  BY <1>1, <1>7, <1>8, ComposePlanTyped DEF ComposePlan

(* What is composed before any pending value is put in.                    *)
LEMMA ComposedFacts ==
    ASSUME base \in Flashes, ticked \in SUBSET Patches, installed = InstalledIn(base),
           ComposedImage # NoImage
    PROVE  /\ ComposedImage \in Flashes
           /\ \A p \in Tunables \cap (ticked \cup installed) :
                 /\ is_applied(ComposedImage, p)
                 /\ ComposedImage[Setting[p]] = Given(base, p)
                 /\ (p = "launch_control_v18" /\ p \in installed
                        => "ignition_cut_v18" \in installed)
                       => (p = "launch_control_v18"
                             => is_applied(ComposedImage, "ignition_cut_v18"))
<1>1. "ignition_cut_v18" \in Patches
  BY PatchNames
<1>2. CASE ticked = {}
  <2>1. ComposedImage = base
    BY <1>2 DEF ComposedImage
  <2> QED
    BY <1>1, <1>2, <2>1 DEF InstalledIn, Given
<1>3. CASE ticked # {}
  <2>1. ComposedImage = build_image(base, ticked)
    BY <1>3 DEF ComposedImage
  <2>2. ComposedImage \in Flashes
    BY <2>1, EngineBuiltImage
  <2>3. ASSUME NEW p \in Tunables \cap (ticked \cup installed)
        PROVE  /\ is_applied(ComposedImage, p) /\ ComposedImage[Setting[p]] = Given(base, p)
               /\ MissingIn(InstalledIn(ComposedImage), p) = {}
    <3>1. p \in ticked \/ is_applied(base, p)
      BY DEF InstalledIn
    <3> QED
      BY <2>1, <3>1, EngineBuiltImage
  <2>4. MissingIn(InstalledIn(ComposedImage), "launch_control_v18") = {}
          => is_applied(ComposedImage, "ignition_cut_v18")
    <3>1. MissingIn(InstalledIn(ComposedImage), "launch_control_v18") = {}
            => "ignition_cut_v18" \in InstalledIn(ComposedImage)
      BY EngineMissing
    <3> QED
      BY <3>1 DEF InstalledIn
  <2> QED
    BY <2>2, <2>3, <2>4
<1> QED
  BY <1>2, <1>3

(* A value that may be pending: its patch will be in the result, with what *)
(* it requires, and the value differs from the one it has there.           *)
Pending(p, v) ==
    /\ p \in Tunables \cap (ticked \cup installed) /\ v \in Values /\ v # Given(base, p)
    /\ p = "launch_control_v18" /\ p \in installed => "ignition_cut_v18" \in installed

LEMMA FiniteDrafts ==
    ASSUME NEW ds, DOMAIN ds \subseteq Tunables
    PROVE  IsFiniteSet(DOMAIN ds)
<1>1. Tunables \subseteq Patches
  BY EngineApplied
<1> QED
  BY <1>1, FinitePatches

(* Pending values are put in one by one; none is in the way of another.    *)
LEMMA SettingsArrive ==
    ASSUME base \in Flashes, ticked \in SUBSET Patches, installed = InstalledIn(base),
           ComposedImage # NoImage, NEW ds, \A p \in DOMAIN ds : Pending(p, ds[p])
    PROVE  /\ _build_patch_image(ds) \in Flashes
           /\ \A c \in Code : _build_patch_image(ds)[c] = ComposedImage[c]
           /\ \A q \in Tunables : _build_patch_image(ds)[Setting[q]] =
                                  IF q \in DOMAIN ds THEN ds[q] ELSE ComposedImage[Setting[q]]
<1> DEFINE V == Flashes \cup {NoImage}
           composed == ComposedImage
<1>1. /\ composed \in Flashes
      /\ \A p \in DOMAIN ds : /\ p \in Tunables /\ ds[p] \in Contents
                              /\ is_applied(composed, p) /\ composed[Setting[p]] # ds[p]
                              /\ p = "launch_control_v18"
                                    => is_applied(composed, "ignition_cut_v18")
  BY ComposedFacts, CellValues DEF Pending
<1>2. Settable(V, ds)
  <2>1. ASSUME NEW p \in DOMAIN ds, NEW i \in V PROVE OneSetting(i, p, ds[p]) \in V
    <3>1. Setting[p] \in Cells /\ ds[p] \in Contents
      BY <1>1, EngineApplied, CellSets
    <3> QED
      BY <3>1, SetCell DEF OneSetting, apply_parameter_changes
  <2> QED
    BY <1>1, <2>1, FiniteDrafts DEF Settable
<1>3. PICK it \in [SUBSET DOMAIN ds -> V] : SettingByOne(it, ds)
  BY <1>2, SettingSteps
<1> DEFINE As(i, s) == /\ i \in Flashes /\ \A c \in Code : i[c] = composed[c]
                       /\ \A q \in Tunables :
                             i[Setting[q]] = IF q \in s THEN ds[q] ELSE composed[Setting[q]]
           G == {s \in SUBSET DOMAIN ds : As(it[s], s)}
<1>4. {} \in G
  BY <1>1, <1>3 DEF SettingByOne
<1> HIDE DEF composed
<1>5. ASSUME NEW s \in SUBSET DOMAIN ds, s # {}, \A x \in s : s \ {x} \in G PROVE s \in G
  <2>1. PICK p \in s : it[s] = OneSetting(it[s \ {p}], p, ds[p])
    BY <1>3, <1>5 DEF SettingByOne
  <2> DEFINE r == s \ {p}
             i == it[r]
             t == Setting[p]
  <2>2. As(i, r)
    BY <1>5
  <2>3. p \in Tunables /\ p \notin r /\ ds[p] \in Contents
    BY <1>1
  <2> HIDE DEF i
  <2>4. is_applied(i, p) /\ (p = "launch_control_v18" => is_applied(i, "ignition_cut_v18"))
    <3>1. \A q \in Tunables : is_applied(i, q) <=> is_applied(composed, q)
      BY <2>2, EngineApplied
    <3>2. p \in DOMAIN ds /\ "ignition_cut_v18" \in Tunables
      BY DEF Tunables
    <3> QED
      BY <1>1, <2>3, <3>1, <3>2
  <2>5. i[t] # ds[p]
    BY <1>1, <2>2, <2>3
  <2>6. apply_parameter_changes(i, p, ds[p]) = [i EXCEPT ![t] = ds[p]]
          /\ apply_parameter_changes(i, p, ds[p]) \in Flashes
    BY <2>2, <2>3, <2>4, <2>5, SettingChanged
  <2>7. it[s] = [i EXCEPT ![t] = ds[p]] /\ it[s] \in Flashes
    BY <2>1, <2>2, <2>6, CellValues DEF OneSetting, i
  <2>8. \A c \in Code : it[s][c] = composed[c]
    <3>1. t \notin Code /\ Code \subseteq Cells
      BY <2>3, EngineApplied, CellSets
    <3> QED
      BY <2>2, <2>7, <3>1 DEF Flashes
  <2>9. ASSUME NEW q \in Tunables
        PROVE  it[s][Setting[q]] = IF q \in s THEN ds[q] ELSE composed[Setting[q]]
    <3>1. Setting[q] \in Cells /\ (q # p => Setting[q] # t)
      BY <2>3, EngineApplied, EngineAlone, CellSets
    <3>2. i[Setting[q]] = IF q \in r THEN ds[q] ELSE composed[Setting[q]]
      BY <2>2
    <3>3. q = p => Setting[q] = t
      OBVIOUS
    <3> HIDE DEF t
    <3>4. CASE q = p
      BY <2>2, <2>7, <3>1, <3>3, <3>4 DEF Flashes
    <3>5. CASE q # p
      BY <2>2, <2>7, <3>1, <3>2, <3>5 DEF Flashes
    <3> QED
      BY <3>4, <3>5
  <2> QED
    BY <2>7, <2>8, <2>9
<1> HIDE DEF G
<1>6. IsFiniteSet(DOMAIN ds)
  BY <1>2 DEF Settable
<1>7. DOMAIN ds \in G
  BY <1>4, <1>5, <1>6, SubsetInduction
<1> QED
  BY <1>3, <1>7 DEF G, SettingByOne, composed

(* What is refused stays refused.                                          *)
LEMMA SettingsRefused ==
    ASSUME ComposedImage = NoImage, NEW ds, DOMAIN ds \subseteq Tunables
    PROVE  _build_patch_image(ds) = NoImage
<1>1. Settable({NoImage}, ds)
  BY FiniteDrafts DEF Settable, OneSetting
<1>2. PICK it \in [SUBSET DOMAIN ds -> {NoImage}] : SettingByOne(it, ds)
  BY <1>1, SettingSteps
<1> QED
  BY <1>2 DEF SettingByOne

---------------------------------------------------------------------------
(* The tab.                                                                *)

(* Images are images; the tab shows what its base holds; a bank is known   *)
(* only while connected; and every pending value can be put in.            *)
Held ==
    /\ base \in Flashes \cup {NoImage} /\ origin \in Flashes \cup {NoImage}
    /\ evidence \in Flashes \cup {NoImage} /\ ecu \in Flashes
    /\ job.at # "none" => job.image \in Flashes
Shows ==
    /\ installed = IF base = NoImage THEN {} ELSE InstalledIn(base)
    /\ base = NoImage => ticked = {}
    /\ ticked \subseteq Shown /\ removed \subseteq Patches
Bank == half \in {"", "B", "T"} /\ (link = "closed" => half = "")
Drafted == \A p \in DOMAIN drafts : Pending(p, drafts[p])
TabInv == Held /\ Shows /\ Bank /\ Drafted

LEMMA SameTab ==
    ASSUME TabInv, UNCHANGED tab, evidence' \in Flashes \cup {NoImage}, ecu' \in Flashes,
           job'.at # "none" => job'.image \in Flashes, Bank'
    PROVE  TabInv'
  BY DEF TabInv, Held, Shows, Drafted, Pending, tab

LEMMA OnlyTab ==
    ASSUME TabInv, UNCHANGED <<wire, ecu, job>>, base' \in Flashes,
           origin' \in Flashes \cup {NoImage}, installed' = InstalledIn(base'),
           ticked' \subseteq Shown, removed' \subseteq Patches, Drafted'
    PROVE  TabInv'
  BY CellValues DEF TabInv, Held, Shows, Bank, wire

LEMMA FreshTab ==
    ASSUME NEW image \in Flashes, Fresh(image), evidence' \in Flashes \cup {NoImage},
           ecu' \in Flashes, job'.at # "none" => job'.image \in Flashes, Bank'
    PROVE  TabInv'
<1>1. DOMAIN NoDrafts = {}
  BY DEF NoDrafts
<1> QED
  BY <1>1, CellValues DEF Fresh, TabInv, Held, Shows, Drafted

LEMMA NoJobImage == NoJob.at = "none"
  BY DEF NoJob

LEMMA KeptDrafts ==
    ASSUME NEW d, NEW ids
    PROVE  /\ DOMAIN Kept(d, ids) = DOMAIN d \cap ids /\ DOMAIN Drop(d, ids) = DOMAIN d \ ids
           /\ \A p \in DOMAIN d \cap ids : Kept(d, ids)[p] = d[p]
           /\ \A p \in DOMAIN d \ ids : Drop(d, ids)[p] = d[p]
  BY DEF Kept, Drop

LEMMA ShownPatches == Shown \subseteq Patches /\ Configurable \cap Shown \subseteq Tunables
  BY DEF Shown, Configurable, Setting, Deprecated, Tunables

LEMMA RequirementsShown ==
    ASSUME NEW ids, NEW sel \in SUBSET Shown
    PROVE  WithRequirements(ids, sel) \in SUBSET Shown
  BY DEF WithRequirements

LEMMA TickKeeps ==
    ASSUME TabInv, base # NoImage, NEW sel \in SUBSET Shown, _on_patch_selection_changed(sel)
    PROVE  TabInv'
<1>1. /\ ticked' \in SUBSET Shown /\ drafts' = Kept(drafts, ticked' \cup installed)
      /\ UNCHANGED <<base, installed, origin, removed, wire, ecu, job>>
  BY RequirementsShown DEF _on_patch_selection_changed
<1>2. Drafted'
  <2>1. ASSUME NEW p \in DOMAIN drafts' PROVE Pending(p, drafts[p]) /\ drafts'[p] = drafts[p]
                                              /\ p \in ticked' \cup installed
    <3>1. p \in DOMAIN drafts /\ drafts'[p] = drafts[p] /\ p \in ticked' \cup installed
      BY <1>1 DEF Kept, Drop
    <3> QED
      BY <3>1 DEF TabInv, Drafted
  <2> QED
    BY <1>1, <2>1 DEF Drafted, Pending
<1> QED
  BY <1>1, <1>2, OnlyTab DEF TabInv, Held, Shows

(* A value is entered against what the others make of the image.           *)
LEMMA ConfigureKeeps ==
    ASSUME TabInv, NEW p, NEW v \in Values, _on_patch_configure(p, v)
    PROVE  TabInv'
<1> DEFINE ds == Drop(drafts, {p})
           source == _build_patch_image(ds)
           d == IF v = source[Setting[p]] THEN ds
                ELSE [q \in DOMAIN drafts \cup {p} |-> IF q = p THEN v ELSE drafts[q]]
<1>1. /\ base # NoImage /\ p \in Configurable \cap Shown /\ p \in ticked \cup installed
      /\ editable(installed, p) /\ source # NoImage
      /\ ticked' = WithRequirements(installed, ticked) /\ drafts' = Kept(d, ticked' \cup installed)
      /\ UNCHANGED <<base, installed, origin, removed, wire, ecu, job>>
  BY DEF _on_patch_configure
<1>2. /\ base \in Flashes /\ installed = InstalledIn(base) /\ ticked \in SUBSET Shown
      /\ ticked \in SUBSET Patches /\ p \in Tunables /\ Drafted
      /\ ticked' \in SUBSET Shown
  BY <1>1, ShownPatches, RequirementsShown DEF TabInv, Held, Shows
<1>3. /\ DOMAIN ds = DOMAIN drafts \ {p}
      /\ \A q \in DOMAIN ds : Pending(q, ds[q]) /\ ds[q] = drafts[q] /\ q \in Tunables
  <2>1. DOMAIN ds = DOMAIN drafts \ {p} /\ \A q \in DOMAIN ds : ds[q] = drafts[q]
    BY DEF Drop
  <2>2. \A q \in DOMAIN drafts : Pending(q, drafts[q]) /\ q \in Tunables
    BY <1>2 DEF Drafted, Pending
  <2> HIDE DEF ds
  <2> QED
    BY <2>1, <2>2
<1> HIDE DEF ds
<1>4. ComposedImage # NoImage
  BY <1>1, <1>3, SettingsRefused
<1>5. source[Setting[p]] = Given(base, p)
  <2>1. source[Setting[p]] = ComposedImage[Setting[p]]
    BY <1>2, <1>3, <1>4, SettingsArrive
  <2>2. ComposedImage[Setting[p]] = Given(base, p)
    BY <1>1, <1>2, <1>4, ComposedFacts
  <2> QED
    BY <2>1, <2>2
<1> HIDE DEF source
<1>6. v # source[Setting[p]] => Pending(p, v)
  BY <1>1, <1>2, <1>5, EngineMissing DEF editable, Pending
<1>7. ASSUME NEW q \in DOMAIN d PROVE Pending(q, d[q])
  <2>1. CASE v = source[Setting[p]]
    BY <1>3, <1>7, <2>1
  <2>2. CASE v # source[Setting[p]]
    BY <1>2, <1>6, <1>7, <2>2 DEF Drafted
  <2> QED
    BY <2>1, <2>2
<1> HIDE DEF d
<1>8. Drafted'
  <2>1. ASSUME NEW q \in DOMAIN drafts'
        PROVE  Pending(q, d[q]) /\ drafts'[q] = d[q] /\ q \in ticked' \cup installed
    <3>1. q \in DOMAIN d /\ drafts'[q] = d[q] /\ q \in ticked' \cup installed
      BY <1>1 DEF Kept, Drop
    <3> QED
      BY <1>7, <3>1
  <2> QED
    BY <1>1, <2>1 DEF Drafted, Pending
<1> QED
  BY <1>1, <1>2, <1>8, OnlyTab DEF TabInv, Held, Shows

(* A removal drops the value of what it removes, and of what it unticks.   *)
LEMMA RemoveKeeps ==
    ASSUME TabInv, NEW p \in Patches, _on_patch_remove(p)
    PROVE  TabInv'
<1> DEFINE image == revert_patch(base, p)
           d == Drop(drafts, {p})
<1>1. /\ base # NoImage /\ p \in Removable /\ image # NoImage
      /\ base' = image /\ installed' = InstalledIn(image)
      /\ ticked' = WithRequirements(installed', ticked \ installed')
      /\ drafts' = Kept(d, ticked' \cup installed')
      /\ removed' = removed \cup {p} /\ UNCHANGED <<origin, wire, ecu, job>>
  BY DEF _on_patch_remove
<1>2. /\ base \in Flashes /\ installed = InstalledIn(base) /\ ticked \in SUBSET Shown /\ Drafted
      /\ removed \in SUBSET Patches /\ origin \in Flashes \cup {NoImage}
  BY <1>1 DEF TabInv, Held, Shows
<1>3. /\ image \in Flashes
      /\ \A q \in Tunables \ {p} : /\ is_applied(image, q) <=> is_applied(base, q)
                                   /\ image[Setting[q]] = base[Setting[q]]
  BY <1>1, <1>2, Removed
<1> HIDE DEF image
<1>4. ticked' \in SUBSET Shown
  BY <1>1, <1>2, RequirementsShown
<1>5. \A q \in Tunables \ {p} :
         (q \in installed' <=> q \in installed) /\ Given(image, q) = Given(base, q)
  BY <1>1, <1>2, <1>3 DEF InstalledIn, Given
<1>6. "launch_control_v18" \in installed => p # "ignition_cut_v18"
  <2>1. "launch_control_v18" \in installed => "launch_control_v18" \in Effective(installed)
    BY EngineInstalled DEF Tunables
  <2>2. "ignition_cut_v18" \in Requires("launch_control_v18")
    BY DEF Requires
  <2>3. _dependent_ids(installed, p) = {}
    BY <1>1 DEF Removable
  <2> QED
    BY <2>1, <2>2, <2>3 DEF _dependent_ids, _installed_revision_satisfies
<1>7. ASSUME NEW q \in DOMAIN drafts' PROVE Pending(q, drafts[q])'
  <2>1. /\ q \in DOMAIN drafts /\ q # p /\ drafts'[q] = drafts[q]
        /\ q \in ticked' \cup installed'
    BY <1>1 DEF Kept, Drop
  <2>2. Pending(q, drafts[q])
    BY <1>2, <2>1 DEF Drafted
  <2>3. q \in Tunables /\ "ignition_cut_v18" \in Tunables
    BY <2>2 DEF Pending, Tunables
  <2>4. q = "launch_control_v18" /\ q \in installed' => "ignition_cut_v18" \in installed'
    BY <1>5, <1>6, <2>1, <2>2, <2>3 DEF Pending
  <2>5. drafts'[q] # Given(base', q) /\ drafts'[q] \in Values
    BY <1>1, <1>5, <2>1, <2>2, <2>3 DEF Pending
  <2> QED
    BY <2>1, <2>3, <2>4, <2>5 DEF Pending
<1> QED
  BY <1>1, <1>2, <1>3, <1>4, <1>7, OnlyTab DEF Drafted

LEMMA BuildKeeps ==
    ASSUME TabInv, _on_patches_build
    PROVE  TabInv'
<1> DEFINE out == _build_patch_image(drafts)
<1>1. /\ base # NoImage /\ out # NoImage /\ Fresh(out) /\ UNCHANGED <<wire, ecu>>
      /\ job' \in {NoJob, [at |-> "asked", image |-> out, from |-> origin,
                           require |-> \E c \in BootCells : out[c] # origin[c]]}
  BY DEF _on_patches_build
<1>2. /\ base \in Flashes /\ installed = InstalledIn(base) /\ ticked \in SUBSET Patches /\ Drafted
  BY <1>1, ShownPatches DEF TabInv, Held, Shows
<1>3. DOMAIN drafts \subseteq Tunables
  BY <1>2 DEF Drafted, Pending
<1>4. ComposedImage # NoImage
  BY <1>1, <1>3, SettingsRefused
<1>5. out \in Flashes
  BY <1>2, <1>4, SettingsArrive DEF Drafted
<1> HIDE DEF out
<1>6. job'.at # "none" => job'.image \in Flashes
  BY <1>1, <1>5, NoJobImage
<1> QED
  BY <1>1, <1>5, <1>6, FreshTab DEF TabInv, Held, Bank, wire

LEMMA ComposeKeeps ==
    ASSUME TabInv, Compose
    PROVE  TabInv'
<1>1. CASE _on_patches_build
  BY <1>1, BuildKeeps
<1>2. ASSUME NEW image \in Flashes \cup {NoImage}, image # NoImage, Fresh(image),
             UNCHANGED <<wire, ecu, job>>
      PROVE  TabInv'
  BY <1>2, FreshTab DEF TabInv, Held, Bank, wire
<1>3. ASSUME Untouched PROVE base \in Flashes
  BY <1>3 DEF Untouched, TabInv, Held
<1>4. ASSUME NEW s \in Selections, cmd_apply(s.patches, s.marker) PROVE TabInv'
  <2> DEFINE out == build(base, s.patches, s.marker)
  <2>1. Untouched /\ out # NoImage /\ Fresh(out) /\ UNCHANGED <<wire, ecu, job>>
    BY <1>4 DEF cmd_apply
  <2>2. s.patches \in SUBSET Patches /\ s.marker \in Contents \cup {""}
    BY PatchTabAssumption, CellValues
  <2>3. out \in Flashes \cup {NoImage}
    BY <1>3, <2>1, <2>2, BuildTyped
  <2> HIDE DEF out
  <2> QED
    BY <1>2, <2>1, <2>3
<1>5. ASSUME NEW amd \in BOOLEAN, NEW guard \in BOOLEAN, NEW bank \in {"", "T"},
             compose_target(amd, guard, guard, bank)
      PROVE  TabInv'
  <2> DEFINE out == compose_persistent_image(base, amd, guard, guard, bank)
  <2>1. Untouched /\ out # NoImage /\ Fresh(out) /\ UNCHANGED <<wire, ecu, job>>
    BY <1>5 DEF compose_target
  <2>2. out \in Flashes \cup {NoImage}
    BY <1>3, <2>1, ComposedTargetTyped
  <2> HIDE DEF out
  <2> QED
    BY <1>2, <2>1, <2>2
<1> QED
  BY <1>1, <1>4, <1>5 DEF Compose

LEMMA OpenTabKeeps ==
    ASSUME TabInv, Open
    PROVE  TabInv'
<1>1. CASE _on_patches_read_ecu
  BY <1>1, FreshTab DEF _on_patches_read_ecu, TabInv, Held, Bank
<1>2. ASSUME NEW image \in Library, _load_patch_base_path(image) PROVE TabInv'
  <2>1. image \in Flashes
    BY PatchTabAssumption DEF Flashes
  <2> QED
    BY <1>2, <2>1, FreshTab DEF _load_patch_base_path, TabInv, Held, Bank, wire
<1> QED
  BY <1>1, <1>2 DEF Open

LEMMA EditTabKeeps ==
    ASSUME TabInv, Edit
    PROVE  TabInv'
<1>1. ASSUME NEW p \in Patches, Tick(p) \/ Untick(p) PROVE TabInv'
  <2>1. CASE Tick(p)
    <3>1. /\ base # NoImage /\ ticked \cup {p} \in SUBSET Shown
          /\ _on_patch_selection_changed(ticked \cup {p})
      BY <2>1 DEF Tick, TabInv, Shows
    <3> QED
      BY <3>1, TickKeeps
  <2>2. CASE Untick(p)
    <3>1. /\ base # NoImage /\ ticked \ {p} \in SUBSET Shown
          /\ _on_patch_selection_changed(ticked \ {p})
      BY <2>2 DEF Untick, TabInv, Shows
    <3> QED
      BY <3>1, TickKeeps
  <2> QED
    BY <1>1, <2>1, <2>2
<1> QED
  BY <1>1, RemoveKeeps, ConfigureKeeps DEF Edit

LEMMA ConnectionTabKeeps ==
    ASSUME TabInv, Connection
    PROVE  TabInv'
<1>1. CASE _disconnect
  <2>1. /\ UNCHANGED <<tab, ecu, job>> /\ evidence' = NoImage /\ half' = ""
    BY <1>1 DEF _disconnect, Closed
  <2> QED
    BY <2>1, SameTab DEF TabInv, Held, Bank
<1>2. ASSUME NEW r \in {"ds2", "fast", "direct"}, Connect(r) PROVE TabInv'
  BY <1>2, SameTab DEF Connect, TabInv, Held, Bank
<1>3. ASSUME NEW other \in Ecus, Swap(other) PROVE TabInv'
  <2>1. other \in Flashes
    BY PatchTabAssumption DEF Flashes
  <2> QED
    BY <1>3, <2>1, SameTab DEF Swap, wire, TabInv, Held, Bank
<1> QED
  BY <1>1, <1>2, <1>3 DEF Connection

LEMMA WriteTabKeeps ==
    ASSUME TabInv, AInv, FullWrite
    PROVE  TabInv'
<1>1. CASE _on_backup_flash
  <2>1. /\ UNCHANGED <<tab, wire, ecu>> /\ base \in Flashes /\ job'.image = base
    BY <1>1 DEF _on_backup_flash, TabInv, Held
  <2> QED
    BY <2>1, SameTab DEF wire, TabInv, Held, Bank
<1>2. CASE Declined
  BY <1>2, SameTab, NoJobImage DEF Declined, wire, TabInv, Held, Bank
<1>3. CASE BootGate
  <2>1. UNCHANGED <<tab, wire, ecu>> /\ job.at = "gate"
    BY <1>3 DEF BootGate
  <2>2. job' \in {NoJob, [job EXCEPT !.at = "write"],
                  [at |-> "asked", image |-> job.image, from |-> job.from, require |-> TRUE]}
    BY <1>3 DEF BootGate
  <2>3. CASE job' = NoJob
    BY <2>1, <2>3, SameTab, NoJobImage DEF wire, TabInv, Held, Bank
  <2>4. CASE job' # NoJob
    <3>1. job'.image = job.image
      <4>1. job = [at |-> "gate", image |-> job.image, from |-> job.from, boot |-> job.boot]
        BY <2>1 DEF AInv, Shaped
      <4>2. CASE job' = [job EXCEPT !.at = "write"]
        BY <4>1, <4>2
      <4> QED
        BY <2>2, <2>4, <4>2
    <3>2. job.image \in Flashes
      BY <2>1 DEF TabInv, Held
    <3> QED
      BY <2>1, <3>1, <3>2, SameTab DEF wire, TabInv, Held, Bank
  <2> QED
    BY <2>3, <2>4
<1>4. CASE Write
  <2>1. job.image \in Flashes /\ ecu \in Flashes
    BY <1>4 DEF Write, TabInv, Held
  <2>2. Written \in Flashes
    BY <2>1 DEF Written, Flashes
  <2>3. /\ UNCHANGED tab /\ ecu' = Written /\ job' = NoJob
        /\ link' = "closed" /\ half' = "" /\ evidence' = NoImage
    BY <1>4 DEF Write, Closed
  <2> QED
    BY <2>2, <2>3, SameTab, NoJobImage DEF Bank
<1>5. ASSUME NEW box \in BOOLEAN, _ds2_write_full(box) PROVE TabInv'
  <2>1. /\ UNCHANGED <<tab, link, half, ecu>> /\ job.at = "asked"
        /\ evidence' \in {evidence, NoImage}
    BY <1>5 DEF _ds2_write_full
  <2>2. job' = NoJob \/ job'.image = job.image
    BY <1>5 DEF _ds2_write_full
  <2>3. job.image \in Flashes
    BY <2>1 DEF TabInv, Held
  <2>4. Bank'
    BY <2>1 DEF TabInv, Bank
  <2> QED
    BY <2>1, <2>2, <2>3, <2>4, SameTab, NoJobImage DEF TabInv, Held
<1> QED
  BY <1>1, <1>2, <1>3, <1>4, <1>5 DEF FullWrite

(* The tab shows what its base holds, and every value that is pending can  *)
(* be put into the result, for any history.                                *)
THEOREM TabInvariant == Spec => []TabInv
<1>1. Init => TabInv
  <2> SUFFICES ASSUME Init PROVE TabInv
    OBVIOUS
  <2>1. ecu \in Flashes
    BY PatchTabAssumption DEF Init, Flashes
  <2>2. DOMAIN drafts = {}
    BY DEF Init, NoDrafts
  <2> QED
    BY <2>1, <2>2, NoJobImage DEF Init, TabInv, Held, Shows, Bank, Drafted
<1>2. TabInv /\ AInv /\ [Next]_vars => TabInv'
  <2> SUFFICES ASSUME TabInv, AInv, [Next]_vars PROVE TabInv'
    OBVIOUS
  <2>1. CASE UNCHANGED vars
    BY <2>1, SameTab DEF vars, wire, TabInv, Held, Bank
  <2> QED
    BY <2>1, EditTabKeeps, ComposeKeeps, OpenTabKeeps, ConnectionTabKeeps, WriteTabKeeps DEF Next
<1> QED
  BY <1>1, <1>2, WriteInvariant, PTL DEF Spec

(* The variables keep their types.                                         *)
THEOREM TabTyped == Spec => []TypeOK
<1>1. TabInv /\ AInv => TypeOK
  <2> SUFFICES ASSUME TabInv, AInv PROVE TypeOK
    OBVIOUS
  <2>1. DOMAIN drafts \subseteq Configurable
    BY EngineApplied DEF TabInv, Drafted, Pending
  <2>2. base = NoImage \/ Image(base)
    BY DEF TabInv, Held, Image, Flashes
  <2>3. Image(ecu)
    BY DEF TabInv, Held, Image, Flashes
  <2> QED
    BY <2>1, <2>2, <2>3 DEF TypeOK, TabInv, Shows, Bank, AInv, Connected, Shaped
<1> QED
  BY <1>1, TabInvariant, WriteInvariant, PTL

(* A setting that is pending never makes the build fail, whatever was      *)
(* ticked, removed or configured since it was entered.                     *)
THEOREM DraftsStand == Spec => []DraftsApply
<1>1. TabInv => DraftsApply
  <2> SUFFICES ASSUME TabInv, DOMAIN drafts # {}, _build_patch_image(NoDrafts) # NoImage
               PROVE  _build_patch_image(drafts) # NoImage
    BY DEF DraftsApply
  <2>1. ComposedImage # NoImage
    <3>1. DOMAIN NoDrafts \subseteq Tunables
      BY DEF NoDrafts
    <3> QED
      BY <3>1, SettingsRefused
  <2>2. PICK p \in DOMAIN drafts : Pending(p, drafts[p])
    BY DEF TabInv, Drafted
  <2>3. base # NoImage
    BY <2>2 DEF TabInv, Shows, Pending
  <2>4. /\ base \in Flashes /\ ticked \in SUBSET Patches /\ installed = InstalledIn(base)
        /\ \A q \in DOMAIN drafts : Pending(q, drafts[q])
    BY <2>3, ShownPatches DEF TabInv, Held, Shows, Drafted
  <2>5. _build_patch_image(drafts) \in Flashes
    BY <2>1, <2>4, SettingsArrive
  <2> QED
    BY <2>5, CellValues
<1> QED
  BY <1>1, TabInvariant, PTL
---------------------------------------------------------------------------
(* What a change of the image leaves behind.                               *)

(* Which patches write a cell, and what.                                   *)
Writing ==
    [ loader   |-> {"softbsl_loader", "softbsl_loader_v11"},
      crc      |-> {"softbsl_loader_v11", "cal_guard"},
      marker   |-> {"softbsl_loader", "softbsl_loader_v11"},
      guard    |-> {"cal_guard", "cal_guard_v5"},
      hooks    |-> {"cal_guard"},
      hook     |-> {"cal_guard_v5"},
      body     |-> {"cal_guard_v5"},
      driver   |-> {"amd_flash", "amd_flash_v4", "amd_flash_v3"},
      tail     |-> {"amd_flash"},
      startup  |-> {"amd_flash_v3"},
      top      |-> {"top_ds2_guard"},
      door     |-> {"door_magic"},
      entry    |-> {"door_0x43"},
      cave     |-> {"door_0x43", "alphan_failsafe", "alphan_failsafe_v2"},
      alphan   |-> {"alphan_failsafe", "alphan_failsafe_v2"},
      ignition |-> {"ignition_cut_v18", "ignition_cut_v17"},
      launch   |-> {"launch_control_v18", "launch_control_v17"} ]
(* The driver whose code another revision has too: it differs in what it   *)
(* expects of the startup.                                                 *)
Retired == "amd_flash_v3"

LEMMA WrittenBy ==
    ASSUME NEW p \in Patches, NEW c \in DOMAIN Edits[p]
    PROVE  c \in DOMAIN Writing /\ p \in Writing[c]
<1> USE DEF Edits, Writing
<1>1. CASE p \in {"softbsl_loader", "softbsl_loader_v11", "cal_guard", "cal_guard_v5"}
  BY <1>1
<1>2. CASE p \in {"amd_flash", "amd_flash_v4", "amd_flash_v3", "top_ds2_guard"}
  BY <1>2
<1>3. CASE p \in {"door_magic", "door_0x43", "alphan_failsafe", "alphan_failsafe_v2"}
  BY <1>3
<1>4. CASE p \in {"ignition_cut_v18", "ignition_cut_v17",
                  "launch_control_v18", "launch_control_v17"}
  BY <1>4
<1> HIDE DEF Edits, Writing
<1> QED
  BY <1>1, <1>2, <1>3, <1>4, PatchNames

LEMMA Stated ==
    ASSUME NEW p \in Patches \ {Retired}, NEW c \in DOMAIN Edits[p]
    PROVE  Edits[p][c] # "-" /\ c \in Code \ {"startup"}
<1>1. c \in Code
  BY PatchCells
<1> USE DEF Edits, Retired
<1>2. CASE p \in {"softbsl_loader", "softbsl_loader_v11", "cal_guard", "cal_guard_v5"}
  <2>1. Edits[p][c] # "-" /\ c # "startup"
    BY <1>2
  <2> QED
    BY <1>1, <2>1
<1>3. CASE p \in {"amd_flash", "amd_flash_v4", "top_ds2_guard"}
  <2>1. Edits[p][c] # "-" /\ c # "startup"
    BY <1>3
  <2> QED
    BY <1>1, <2>1
<1>4. CASE p \in {"door_magic", "door_0x43", "alphan_failsafe", "alphan_failsafe_v2"}
  <2>1. Edits[p][c] # "-" /\ c # "startup"
    BY <1>4
  <2> QED
    BY <1>1, <2>1
<1>5. CASE p \in {"ignition_cut_v18", "ignition_cut_v17",
                  "launch_control_v18", "launch_control_v17"}
  <2>1. Edits[p][c] # "-" /\ c # "startup"
    BY <1>5
  <2> QED
    BY <1>1, <2>1
<1> HIDE DEF Edits
<1> QED
  BY <1>2, <1>3, <1>4, <1>5, PatchNames

(* Two patches that are wholly in an image have no cell in common; but the *)
(* two retired drivers differ only in what they expect of the startup.     *)
LEMMA Apart ==
    ASSUME NEW i, NEW p \in Patches \ {Retired}, NEW q \in Patches \ {Retired}, p # q,
           is_applied(i, p), is_applied(i, q)
    PROVE  DOMAIN Edits[p] \cap DOMAIN Edits[q] = {}
<1> SUFFICES ASSUME NEW c \in DOMAIN Edits[p], c \in DOMAIN Edits[q] PROVE FALSE
  OBVIOUS
<1>1. c \in DOMAIN Writing /\ {p, q} \subseteq Writing[c]
  BY WrittenBy
<1>2. c # "marker" => i[c] = Edits[p][c] /\ i[c] = Edits[q][c]
  BY DEF is_applied, Holds, BankMarker
<1>3. CASE c = "marker"
  <2>1. {p, q} = {"softbsl_loader", "softbsl_loader_v11"}
    BY <1>1, <1>3 DEF Writing
  <2>2. is_applied(i, "softbsl_loader") /\ is_applied(i, "softbsl_loader_v11")
    BY <2>1
  <2>3. i["loader"] = "L12" /\ i["loader"] = "L11"
    BY <2>2 DEF is_applied, Holds, BankMarker, Edits
  <2> QED
    BY <2>3
<1>4. CASE c \in {"loader", "crc", "guard"}
  BY <1>1, <1>2, <1>4 DEF Writing, Edits
<1>5. CASE c \in {"driver"}
  BY <1>1, <1>2, <1>5 DEF Writing, Edits, Retired
<1>6. CASE c \in {"cave", "alphan"}
  BY <1>1, <1>2, <1>6 DEF Writing, Edits
<1>7. CASE c \in {"ignition", "launch"}
  BY <1>1, <1>2, <1>7 DEF Writing, Edits
<1>8. CASE c \in {"hooks", "hook", "body", "tail", "startup", "top", "door", "entry"}
  BY <1>1, <1>8 DEF Writing
<1>9. c \in {"loader", "crc", "marker", "guard", "hooks", "hook", "body", "driver", "tail",
             "startup", "top", "door", "entry", "cave", "alphan", "ignition", "launch"}
  BY <1>1 DEF Writing
<1> QED
  BY <1>3, <1>4, <1>5, <1>6, <1>7, <1>8, <1>9

(* What only removals make of an image: every cell is as it was or stock,  *)
(* and a patch that was in it is there or gone.                            *)
Gone(i, p) == \A c \in DOMAIN Edits[p] : i[c] = "-"
Remains(from) ==
    {i \in Flashes :
        /\ \A c \in Cells : i[c] \in {from[c], "-"}
        /\ \A c \in Settings : i[c] = from[c]
        /\ \A p \in Patches \ {Retired} : is_applied(from, p) => is_applied(i, p) \/ Gone(i, p)}

LEMMA RemainsItself ==
    ASSUME NEW from \in Flashes
    PROVE  from \in Remains(from)
  BY DEF Remains

LEMMA RemainsApplied ==
    ASSUME NEW from \in Flashes, NEW i \in Remains(from), NEW p \in Patches \ {Retired},
           is_applied(i, p)
    PROVE  is_applied(from, p)
<1> SUFFICES ASSUME NEW c \in DOMAIN Edits[p] PROVE Holds(from, p, c)
  BY DEF is_applied
<1>1. Edits[p][c] # "-" /\ c \in Cells
  BY Stated, CellSets
<1>2. Holds(i, p, c) /\ i[c] \in {from[c], "-"}
  BY <1>1 DEF is_applied, Remains
<1> QED
  BY <1>1, <1>2 DEF Holds

LEMMA RevertRemains ==
    ASSUME NEW from \in Flashes, NEW i \in Remains(from), NEW j \in Remains(from),
           NEW q \in Patches, is_applied(i, q)
    PROVE  revert(j, q) \in Remains(from)
<1> DEFINE out == revert(j, q)
<1>1. out \in Flashes /\ \A c \in Cells : out[c] = IF c \in DOMAIN Edits[q] THEN "-" ELSE j[c]
  BY RevertTyped DEF Remains, revert
<1>2. /\ \A c \in Cells : out[c] \in {from[c], "-"}
      /\ \A c \in Settings : out[c] = from[c]
  BY <1>1, PatchCells, CellSets DEF Remains
<1> HIDE DEF out
<1>3. ASSUME NEW p \in Patches \ {Retired}, is_applied(from, p)
      PROVE  is_applied(out, p) \/ Gone(out, p)
  <2>1. DOMAIN Edits[p] \subseteq Cells
    BY PatchCells, CellSets
  <2>2. CASE Gone(j, p) \/ DOMAIN Edits[p] \subseteq DOMAIN Edits[q]
    BY <1>1, <2>1, <2>2 DEF Gone
  <2>3. CASE is_applied(j, p) /\ DOMAIN Edits[p] \cap DOMAIN Edits[q] = {}
    <3>1. \A c \in DOMAIN Edits[p] : out[c] = j[c]
      BY <1>1, <2>1, <2>3
    <3> QED
      BY <2>3, <3>1 DEF is_applied, Holds
  <2>4. CASE p # q /\ q # Retired
    <3>1. is_applied(from, q)
      BY <2>4, RemainsApplied
    <3> QED
      BY <1>3, <2>2, <2>3, <2>4, <3>1, Apart DEF Remains
  <2>5. CASE q = Retired
    <3>1. from["driver"] = "A4"
      <4>1. i["driver"] = "A4" /\ "driver" \in Cells
        BY <2>5, CellSets DEF is_applied, Holds, BankMarker, Edits, Retired
      <4> QED
        BY <4>1 DEF Remains
    <3>2. p # "amd_flash"
      BY <1>3, <3>1 DEF is_applied, Holds, BankMarker, Edits
    <3>3. DOMAIN Edits[q] = {"driver", "startup"} /\ DOMAIN Edits["amd_flash_v4"] = {"driver"}
      BY <2>5 DEF Edits, Retired
    <3>4. "startup" \notin DOMAIN Edits[p]
      BY Stated
    <3>5. "driver" \in DOMAIN Edits[p] => p = "amd_flash_v4"
      BY <3>2, WrittenBy DEF Writing, Retired
    <3> QED
      BY <1>3, <2>2, <2>3, <3>3, <3>4, <3>5 DEF Remains
  <2> QED
    BY <2>2, <2>4, <2>5
<1> QED
  BY <1>1, <1>2, <1>3 DEF Remains, out

LEMMA RemainsReverting ==
    ASSUME NEW from \in Flashes
    PROVE  Reverting(Remains(from) \cup {NoImage})
<1>1. Deprecated \subseteq Patches
  BY Revisions
<1>2. Remains(from) \subseteq Flashes
  BY DEF Remains
<1> QED
  BY <1>1, <1>2, RevertRemains, CellValues DEF Reverting

LEMMA RevertExactRemains ==
    ASSUME NEW from \in Flashes, NEW ps \in SUBSET Patches
    PROVE  RevertExact(from, ps) \in Remains(from)
<1>1. IsFiniteSet(ps) /\ from \in Remains(from)
  BY FinitePatches, RemainsItself
<1>2. ASSUME NEW p \in ps, NEW i \in Remains(from)
      PROVE  (IF is_applied(i, p) THEN revert(i, p) ELSE i) \in Remains(from)
  BY RevertRemains
<1> QED
  BY <1>1, <1>2, RevertFold


(* One patch applied, cell by cell.                                        *)
LEMMA AppliedCells ==
    ASSUME NEW from, NEW i \in Flashes, NEW q \in Patches, NEW c \in Code
    PROVE  Applied(from, i, q)[c] =
              IF q = "softbsl_loader" /\ c = "marker" /\ i["marker"] \in {"B", "T"} THEN i["marker"]
              ELSE IF c \in DOMAIN Edits[q] THEN Edits[q][c] ELSE i[c]
<1> DEFINE written == Over(i, Edits[q])
           kept == IF q = "softbsl_loader" /\ i["marker"] \in {"B", "T"}
                   THEN [written EXCEPT !["marker"] = i["marker"]] ELSE written
<1>1. c \in Cells /\ c \notin Settings
  BY CellSets
<1>2. written \in Flashes /\ written[c] = IF c \in DOMAIN Edits[q] THEN Edits[q][c] ELSE i[c]
  BY <1>1, OverTyped DEF Over
<1> HIDE DEF written
<1>3. kept[c] = IF q = "softbsl_loader" /\ c = "marker" /\ i["marker"] \in {"B", "T"}
                THEN i["marker"] ELSE written[c]
  BY <1>1, <1>2 DEF Flashes
<1>4. kept \in Flashes
  <2>1. i["marker"] \in Contents /\ "marker" \in Cells
    BY CellSets DEF Flashes
  <2> QED
    BY <1>2, <2>1, SetCell
<1> HIDE DEF kept
<1>5. Applied(from, i, q) = Initialised(from, kept, q)
  BY DEF Applied, kept, written
<1>6. q \in Configurable => Setting[q] \in Settings
  BY DEF Setting, Configurable, Settings
<1>7. Initialised(from, kept, q)[c] = kept[c]
  BY <1>1, <1>4, <1>6 DEF Initialised, Flashes
<1> QED
  BY <1>2, <1>3, <1>5, <1>7

(* Patches that share no cell, applied one after the other.                *)
KeptMarker(start) == IF start["marker"] \in {"B", "T"} THEN start["marker"] ELSE "B"
CellsOf(i, start, s) ==
    /\ \A p \in s : \A c \in DOMAIN Edits[p] \ {"marker"} : i[c] = Edits[p][c]
    /\ \A c \in Code \ {"marker"} : (\A p \in s : c \notin DOMAIN Edits[p]) => i[c] = start[c]
    /\ i["marker"] = IF "softbsl_loader" \in s THEN KeptMarker(start) ELSE start["marker"]

LEMMA PatchedCells ==
    ASSUME NEW from, NEW clean \in Flashes, NEW ids \in SUBSET (Patches \ Deprecated),
           \A p, q \in ids : p # q => ~Collide(p, q)
    PROVE  CellsOf(Patched(from, ids, clean), Unpatched(from, ids, clean), ids)
<1> DEFINE start == Unpatched(from, ids, clean)
<1>1. Applicative(Flashes, from, ids, clean)
  BY FinitePatches, OverTyped, AppliedTyped DEF Applicative, Unpatched
<1>2. PICK it \in [SUBSET ids -> Flashes] : OneByOne(it, from, ids, clean)
  BY <1>1, PatchedSteps
<1> DEFINE G == {s \in SUBSET ids : CellsOf(it[s], start, s)}
<1>3. {} \in G
  BY <1>2 DEF OneByOne, CellsOf
<1>4. ASSUME NEW s \in SUBSET ids, s # {}, \A x \in s : s \ {x} \in G PROVE s \in G
  <2>1. PICK q \in s : it[s] = Applied(from, it[s \ {q}], q)
    BY <1>2, <1>4 DEF OneByOne
  <2> DEFINE r == s \ {q}
             i == it[r]
             out == it[s]
  <2>2. r \in SUBSET ids /\ i \in Flashes /\ q \in Patches \ Deprecated
    BY <1>2
  <2>3. CellsOf(i, start, r)
    BY <1>4
  <2>4. s = r \cup {q} /\ q \notin r
    OBVIOUS
  <2>5. out = Applied(from, i, q)
    BY <2>1
  <2> HIDE DEF i, r, start, out
  <2>6. ASSUME NEW c \in Code
        PROVE  out[c] = IF q = "softbsl_loader" /\ c = "marker" /\ i["marker"] \in {"B", "T"}
                        THEN i["marker"]
                        ELSE IF c \in DOMAIN Edits[q] THEN Edits[q][c] ELSE i[c]
    BY <2>2, <2>5, AppliedCells
  <2>7. ASSUME NEW p \in s, NEW c \in DOMAIN Edits[p] \ {"marker"} PROVE out[c] = Edits[p][c]
    <3>1. c \in Code
      BY PatchCells
    <3>2. CASE p = q
      BY <2>6, <2>7, <3>1, <3>2
    <3>3. CASE p # q
      <4>1. c \notin DOMAIN Edits[q] /\ p \in r
        BY <2>2, <2>4, <2>7, <3>3 DEF Collide
      <4> QED
        BY <2>3, <2>6, <2>7, <3>1, <4>1 DEF CellsOf
    <3> QED
      BY <3>2, <3>3
  <2>8. ASSUME NEW c \in Code \ {"marker"}, \A p \in s : c \notin DOMAIN Edits[p]
        PROVE  out[c] = start[c]
    BY <2>3, <2>4, <2>6, <2>8 DEF CellsOf
  <2>9. out["marker"] = IF "softbsl_loader" \in s THEN KeptMarker(start) ELSE start["marker"]
    <3>1. "marker" \in Code /\ Edits["softbsl_loader"]["marker"] = "B"
             /\ "marker" \in DOMAIN Edits["softbsl_loader"]
      BY CellSets DEF Edits
    <3>2. q # "softbsl_loader" => "marker" \notin DOMAIN Edits[q]
      BY <2>2, WrittenBy DEF Writing, Deprecated
    <3> QED
      BY <2>3, <2>4, <2>6, <3>1, <3>2 DEF CellsOf, KeptMarker
  <2> QED
    BY <2>7, <2>8, <2>9 DEF CellsOf, out
<1>5. IsFiniteSet(ids)
  BY <1>1 DEF Applicative
<1> HIDE DEF G
<1>6. ids \in G
  BY <1>3, <1>4, <1>5, SubsetInduction
<1> QED
  BY <1>2, <1>6 DEF OneByOne, G

(* A patch goes onto one that is wholly in the image only where it is to   *)
(* replace all its cells.                                                  *)
LEMMA Replaces ==
    ASSUME NEW i, NEW p \in Patches \ {Retired}, NEW q \in Patches \ Deprecated, p # q,
           is_applied(i, p), Applicable(i, q)
    PROVE  \/ DOMAIN Edits[p] \cap DOMAIN Edits[q] = {}
           \/ DOMAIN Edits[p] \subseteq DOMAIN Edits[q] /\ p \in Deprecated
<1> SUFFICES ASSUME NEW c \in DOMAIN Edits[p], c \in DOMAIN Edits[q]
             PROVE  DOMAIN Edits[p] \subseteq DOMAIN Edits[q] /\ p \in Deprecated
  OBVIOUS
<1>1. c \in DOMAIN Writing /\ {p, q} \subseteq Writing[c] /\ Edits[p][c] # "-"
  BY WrittenBy, Stated
<1>2. c # "marker" => i[c] = Edits[p][c] /\ i[c] \in {"-", Edits[q][c]} \cup UpgradeExpect(q)
  BY DEF is_applied, Applicable, Holds, BankMarker
<1>3. CASE c = "marker"
  <2>1. p = "softbsl_loader_v11" /\ q = "softbsl_loader"
    BY <1>1, <1>3 DEF Writing, Deprecated
  <2>2. i["loader"] = "L11"
    BY <2>1 DEF is_applied, Holds, BankMarker, Edits
  <2>3. i["loader"] \in {"-", "L12"}
    BY <2>1 DEF Applicable, Holds, BankMarker, Edits, UpgradeExpect
  <2> QED
    BY <2>2, <2>3
<1>4. CASE c \in {"loader", "crc", "guard"}
  BY <1>1, <1>2, <1>4 DEF Writing, Edits, Deprecated, UpgradeExpect
<1>5. CASE c \in {"driver"}
  BY <1>1, <1>2, <1>5 DEF Writing, Edits, Retired, Deprecated, UpgradeExpect
<1>6. CASE c \in {"cave", "alphan"}
  BY <1>1, <1>2, <1>6 DEF Writing, Edits, Deprecated, UpgradeExpect
<1>7. CASE c \in {"ignition", "launch"}
  BY <1>1, <1>2, <1>7 DEF Writing, Edits, Deprecated, UpgradeExpect
<1>8. CASE c \in {"hooks", "hook", "body", "tail", "startup", "top", "door", "entry"}
  BY <1>1, <1>8 DEF Writing
<1>9. c \in {"loader", "crc", "marker", "guard", "hooks", "hook", "body", "driver", "tail",
             "startup", "top", "door", "entry", "cave", "alphan", "ignition", "launch"}
  BY <1>1 DEF Writing
<1> QED
  BY <1>3, <1>4, <1>5, <1>6, <1>7, <1>8, <1>9


(* What a composition is, next to the base brought to the state its        *)
(* patches expect.                                                         *)
Markers == {"", "B", "T"}
Composes(out, from, ids) ==
    LET clean == Prepared(from, ids)
    IN /\ clean \in Flashes /\ out \in Flashes
       /\ \A p \in ids : is_applied(out, p)
       /\ \A p \in Patches \ {Retired} : is_applied(clean, p) =>
             \/ is_applied(out, p)
             \/ p \in Deprecated /\ \E q \in ids : DOMAIN Edits[p] \subseteq DOMAIN Edits[q]
       /\ \A c \in Code \ {"marker", "startup"} :
             (\A p \in ids : c \notin DOMAIN Edits[p]) => out[c] = clean[c]
       /\ out["startup"] = IF WaitChosen(from, ids) THEN "W" ELSE clean["startup"]

LEMMA BuiltCells ==
    ASSUME NEW from \in Flashes, NEW ids \in SUBSET (Patches \ Deprecated),
           NEW marker \in Markers, BuildOf(from, ids, marker) # NoImage
    PROVE  Composes(BuildOf(from, ids, marker), from, ids)
<1> DEFINE clean == Prepared(from, ids)
           start == Unpatched(from, ids, clean)
           patched == Patched(from, ids, clean)
           bank == MarkerOf(from, ids, marker)
           out == Marked(patched, bank)
<1>1. Admissible(from, ids, clean) /\ BuildOf(from, ids, marker) = out
  BY DEF BuildOf, BuildFrom, TopBankOnly
<1>2. clean # NoImage
  BY <1>1 DEF Admissible
<1>3. clean \in Flashes
  BY <1>2, AnyImage, PreparedWithin, CellValues
<1> HIDE DEF clean
<1>4. CellsOf(patched, start, ids)
  BY <1>1, <1>3, PatchedCells DEF Admissible
<1>5. /\ \A c \in Cells \ {"startup"} : start[c] = clean[c]
      /\ start["startup"] = IF WaitChosen(from, ids) THEN "W" ELSE clean["startup"]
  BY CellSets DEF Unpatched, Over, Wait
<1> HIDE DEF start
<1>6. patched \in Flashes
  BY <1>3, PatchedTyped
<1>7. bank \in Markers
  BY DEF MarkerOf, Markers
<1> HIDE DEF patched, bank
<1>8. /\ out \in Flashes
      /\ \A c \in Cells \ {"marker"} : out[c] = patched[c]
      /\ out["marker"] = IF bank = "" THEN patched["marker"] ELSE bank
  <2>1. "marker" \in Cells /\ {"B", "T"} \subseteq Contents
    BY CellSets, CellValues
  <2> QED
    BY <1>6, <1>7, <2>1, SetCell DEF Marked, Markers, Flashes
<1> HIDE DEF out
<1>9. /\ "softbsl_loader" \in ids => out["marker"] \in {"B", "T"}
      /\ clean["marker"] \in {"B", "T"} => out["marker"] \in {"B", "T"}
  <2>1. "marker" \in Cells \ {"startup"}
    BY CellSets
  <2> QED
    BY <1>4, <1>5, <1>7, <1>8, <2>1 DEF CellsOf, KeptMarker, Markers
<1>10. Code \subseteq Cells
  BY CellSets
<1>11. \A p \in ids : "startup" \notin DOMAIN Edits[p]
  BY WrittenBy DEF Writing, Deprecated
<1>12. ASSUME NEW p \in Patches, "marker" \in DOMAIN Edits[p]
       PROVE  p \in {"softbsl_loader", "softbsl_loader_v11"}
  BY <1>12, WrittenBy DEF Writing
<1>13. ASSUME NEW p \in ids PROVE is_applied(out, p)
  <2> SUFFICES ASSUME NEW c \in DOMAIN Edits[p] PROVE Holds(out, p, c)
    BY DEF is_applied
  <2>1. c \in Cells
    BY <1>10, PatchCells
  <2>2. CASE c # "marker"
    BY <1>4, <1>8, <2>1, <2>2 DEF CellsOf, Holds
  <2>3. CASE c = "marker"
    <3>1. p = "softbsl_loader"
      BY <1>12, <2>3 DEF Deprecated
    <3> QED
      BY <1>9, <2>3, <3>1 DEF Holds, BankMarker
  <2> QED
    BY <2>2, <2>3
<1>14. ASSUME NEW p \in Patches \ {Retired}, is_applied(clean, p),
              \A q \in ids : ~(p \in Deprecated /\ DOMAIN Edits[p] \subseteq DOMAIN Edits[q])
       PROVE  is_applied(out, p)
  <2>1. CASE p \in ids
    BY <1>13, <2>1
  <2>2. CASE p \notin ids
    <3> SUFFICES ASSUME NEW c \in DOMAIN Edits[p] PROVE Holds(out, p, c)
      BY DEF is_applied
    <3>1. \A q \in ids : c \notin DOMAIN Edits[q]
      BY <1>1, <1>14, <2>2, Replaces DEF Admissible
    <3>2. c \in Code \ {"startup"} /\ Holds(clean, p, c)
      BY <1>14, Stated DEF is_applied
    <3>3. CASE c = "marker"
      <4>1. BankMarker(p, c)
        BY <1>12, <3>3 DEF BankMarker
      <4>2. clean["marker"] \in {"B", "T"}
        BY <3>2, <3>3, <1>12 DEF Holds, Edits
      <4> QED
        BY <1>9, <3>3, <4>1, <4>2 DEF Holds
    <3>4. CASE c # "marker"
      <4>1. out[c] = clean[c]
        BY <1>4, <1>5, <1>8, <1>10, <3>1, <3>2, <3>4 DEF CellsOf
      <4> QED
        BY <3>2, <3>4, <4>1 DEF Holds, BankMarker
    <3> QED
      BY <3>3, <3>4
  <2> QED
    BY <2>1, <2>2
<1>15. ASSUME NEW c \in Code \ {"marker", "startup"}, \A p \in ids : c \notin DOMAIN Edits[p]
       PROVE  out[c] = clean[c]
  BY <1>4, <1>5, <1>8, <1>10, <1>15 DEF CellsOf
<1>16. out["startup"] = IF WaitChosen(from, ids) THEN "W" ELSE clean["startup"]
  <2>1. "startup" \in Code \ {"marker"}
    BY CellSets
  <2> QED
    BY <1>4, <1>5, <1>8, <1>10, <1>11, <2>1 DEF CellsOf
<1> QED
  BY <1>1, <1>3, <1>8, <1>13, <1>14, <1>15, <1>16 DEF Composes, clean


(* Nothing is left behind between two images, which composes.              *)
LeftAt(from, out, c) ==
    \/ out[c] = "-" \/ Accounted(InstalledIn(out), c)
    \/ out[c] = from[c] /\ ~Accounted(InstalledIn(from), c)
NothingLeft(from, out) == \A c \in Code : LeftAt(from, out, c)
Plain == Code \ {"marker", "startup"}

LEMMA NothingLeftTwice ==
    ASSUME NEW i, NEW j, NEW k, NothingLeft(i, j), NothingLeft(j, k)
    PROVE  NothingLeft(i, k)
<1> SUFFICES ASSUME NEW c \in Code PROVE LeftAt(i, k, c)
  BY DEF NothingLeft
<1>1. LeftAt(i, j, c) /\ LeftAt(j, k, c)
  BY DEF NothingLeft
<1> QED
  BY <1>1 DEF LeftAt

(* A retired driver stands for the code cell of another.                   *)
LEMMA AccountedPlain ==
    ASSUME NEW i, NEW c \in Plain
    PROVE  /\ Accounted(InstalledIn(i), c) <=>
                 \E p \in Patches \ {Retired} : is_applied(i, p) /\ c \in DOMAIN Edits[p]
<1>1. ASSUME Accounted(InstalledIn(i), c)
      PROVE  \E p \in Patches \ {Retired} : is_applied(i, p) /\ c \in DOMAIN Edits[p]
  <2>1. PICK p \in Patches : is_applied(i, p) /\ c \in DOMAIN Edits[p]
    BY <1>1 DEF Accounted, InstalledIn, Plain
  <2>2. CASE p = Retired
    <3>1. is_applied(i, "amd_flash_v4") /\ c = "driver" /\ c \in DOMAIN Edits["amd_flash_v4"]
      BY <2>1, <2>2 DEF is_applied, Holds, BankMarker, Edits, Retired, Plain
    <3>2. "amd_flash_v4" \in Patches \ {Retired}
      BY PatchNames DEF Retired
    <3> QED
      BY <3>1, <3>2
  <2> QED
    BY <2>1, <2>2
<1> QED
  BY <1>1 DEF Accounted, InstalledIn

(* What a composition starts from: the base, without the startup wait and  *)
(* with the guard's body where they are to be.                             *)
Started(from, ids) ==
    IF ids \cap {"softbsl_loader", "cal_guard"} # {}
    THEN restore_missing_calguard_v5_body(Unwaited(from, ids)) ELSE Unwaited(from, ids)

LEMMA Restored ==
    ASSUME NEW i \in Flashes
    PROVE  LET normal == restore_missing_calguard_v5_body(i)
           IN /\ normal \in Flashes /\ \A c \in Cells \ {"body"} : normal[c] = i[c]
              /\ normal["body"] = i["body"] \/ is_applied(normal, "cal_guard_v5")
              /\ \A p \in Patches : is_applied(i, p) => is_applied(normal, p)
<1> DEFINE normal == restore_missing_calguard_v5_body(i)
<1>1. normal \in Flashes /\ \A c \in Cells \ {"body"} : normal[c] = i[c]
  BY SetCell, CellSets, CellValues DEF restore_missing_calguard_v5_body, Flashes
<1>2. normal = i \/ /\ normal["body"] = "G5" /\ i["body"] = "-"
                    /\ i["guard"] = "G5" /\ i["hook"] = "G5"
  BY CellSets DEF restore_missing_calguard_v5_body, Flashes
<1>3. {"guard", "hook"} \subseteq Cells
  BY CellSets
<1> HIDE DEF normal
<1>4. normal["body"] = i["body"] \/ is_applied(normal, "cal_guard_v5")
  BY <1>1, <1>2, <1>3 DEF is_applied, Holds, Edits
<1>5. ASSUME NEW p \in Patches, is_applied(i, p) PROVE is_applied(normal, p)
  <2>1. CASE "body" \notin DOMAIN Edits[p]
    <3>1. \A c \in DOMAIN Edits[p] : normal[c] = i[c]
      BY <1>1, <2>1, PatchCells, CellSets
    <3> QED
      BY <1>5, <3>1 DEF is_applied, Holds
  <2>2. CASE "body" \in DOMAIN Edits[p]
    <3>1. p = "cal_guard_v5"
      BY <2>2, WrittenBy DEF Writing
    <3>2. i["body"] = "G5"
      BY <1>5, <3>1 DEF is_applied, Holds, BankMarker, Edits
    <3> QED
      BY <1>2, <1>5, <3>2
  <2> QED
    BY <2>1, <2>2
<1> QED
  BY <1>1, <1>4, <1>5 DEF normal

LEMMA Unstarted ==
    ASSUME NEW i \in Flashes
    PROVE  LET still == [i EXCEPT !["startup"] = "-"]
           IN /\ still \in Flashes /\ still["startup"] = "-"
              /\ \A c \in Cells \ {"startup"} : still[c] = i[c]
              /\ \A p \in Patches \ {Retired} : is_applied(i, p) <=> is_applied(still, p)
<1> DEFINE still == [i EXCEPT !["startup"] = "-"]
<1>1. still \in Flashes /\ still["startup"] = "-"
         /\ \A c \in Cells \ {"startup"} : still[c] = i[c]
  BY SetCell, CellSets, CellValues DEF Flashes
<1>2. ASSUME NEW p \in Patches \ {Retired}, NEW c \in DOMAIN Edits[p]
      PROVE  c \in Cells \ {"startup"}
  BY Stated, CellSets
<1> HIDE DEF still
<1> QED
  BY <1>1, <1>2 DEF is_applied, Holds, still

LEMMA StartedCells ==
    ASSUME NEW from \in Flashes, NEW ids
    PROVE  LET start == Started(from, ids)
           IN /\ start \in Flashes
              /\ \A c \in Cells \ {"startup", "body"} : start[c] = from[c]
              /\ start["body"] = from["body"] \/ is_applied(start, "cal_guard_v5")
              /\ start["startup"] = Unwaited(from, ids)["startup"]
              /\ \A p \in Patches \ {Retired} : is_applied(from, p) => is_applied(start, p)
<1> DEFINE still == Unwaited(from, ids)
           start == Started(from, ids)
<1>1. /\ still \in Flashes /\ \A c \in Cells \ {"startup"} : still[c] = from[c]
      /\ \A p \in Patches \ {Retired} : is_applied(from, p) => is_applied(still, p)
  BY Unstarted DEF Unwaited
<1>2. start \in {still, restore_missing_calguard_v5_body(still)}
  BY DEF Started
<1> HIDE DEF still, start
<1>3. /\ start \in Flashes /\ \A c \in Cells \ {"body"} : start[c] = still[c]
      /\ start["body"] = still["body"] \/ is_applied(start, "cal_guard_v5")
      /\ \A p \in Patches : is_applied(still, p) => is_applied(start, p)
  BY <1>1, <1>2, Restored
<1>4. {"body", "startup"} \subseteq Cells
  BY CellSets
<1> QED
  BY <1>1, <1>3, <1>4 DEF still, start

LEMMA PreparedRemains ==
    ASSUME NEW from \in Flashes, NEW ids, Prepared(from, ids) # NoImage
    PROVE  Prepared(from, ids) \in Remains(Started(from, ids))
<1> DEFINE start == Started(from, ids)
<1>1. start \in Flashes
  BY StartedCells
<1>2. Prepared(from, ids) = WithoutPredecessors(start, ids)
  BY DEF Prepared, Started
<1> HIDE DEF start
<1>3. start \in Remains(start) \cup {NoImage}
  BY <1>1, RemainsItself
<1>4. WithoutPredecessors(start, ids) \in Remains(start) \cup {NoImage}
  BY <1>1, <1>3, RemainsReverting, PredecessorsWithin
<1> QED
  BY <1>2, <1>4 DEF start

LEMMA BuiltPlain ==
    ASSUME NEW from \in Flashes, NEW ids \in SUBSET (Patches \ Deprecated),
           NEW marker \in Markers, BuildOf(from, ids, marker) # NoImage, NEW c \in Plain
    PROVE  LeftAt(from, BuildOf(from, ids, marker), c)
<1> DEFINE out == BuildOf(from, ids, marker)
           clean == Prepared(from, ids)
           start == Started(from, ids)
<1>1. Composes(out, from, ids)
  BY BuiltCells
<1>2. clean \in Remains(start)
  BY <1>1, PreparedRemains, CellValues DEF Composes
<1>3. /\ start \in Flashes
      /\ \A x \in Cells \ {"startup", "body"} : start[x] = from[x]
      /\ start["body"] = from["body"] \/ is_applied(start, "cal_guard_v5")
      /\ \A p \in Patches \ {Retired} : is_applied(from, p) => is_applied(start, p)
  BY StartedCells
<1> SUFFICES ASSUME out[c] # "-", ~Accounted(InstalledIn(out), c)
             PROVE  out[c] = from[c] /\ ~Accounted(InstalledIn(from), c)
  BY DEF LeftAt
<1> HIDE DEF out, start
<1>4. \A p \in Patches \ {Retired} : c \in DOMAIN Edits[p] => ~is_applied(out, p)
  BY AccountedPlain
<1>5. \A p \in ids : c \notin DOMAIN Edits[p]
  <2>1. Retired \in Deprecated
    BY DEF Retired, Deprecated
  <2> QED
    BY <1>1, <1>4, <2>1 DEF Composes
<1>6. out[c] = clean[c] /\ clean[c] = start[c]
  BY <1>1, <1>2, <1>5, CellSets DEF Composes, Plain, Remains
<1>7. \A p \in Patches \ {Retired} : c \in DOMAIN Edits[p] => ~is_applied(start, p)
  BY <1>1, <1>2, <1>4, <1>5, <1>6 DEF Composes, Remains, Gone
<1>8. start[c] = from[c]
  <2>1. "body" \in DOMAIN Edits["cal_guard_v5"] /\ "cal_guard_v5" \in Patches \ {Retired}
    BY PatchNames DEF Edits, Retired
  <2> QED
    BY <1>3, <1>7, <2>1, CellSets DEF Plain
<1>9. ~Accounted(InstalledIn(from), c)
  BY <1>3, <1>7, AccountedPlain
<1> QED
  BY <1>6, <1>8, <1>9


Guards == {"cal_guard", "cal_guard_v5"}

(* A guard stays where neither it nor the loader is replaced.              *)
LEMMA GuardStays ==
    ASSUME NEW from \in Flashes, NEW ids \in SUBSET (Patches \ Deprecated),
           NEW marker \in Markers, BuildOf(from, ids, marker) # NoImage,
           ids \cap {"softbsl_loader", "cal_guard"} = {}, NEW g \in Guards, is_applied(from, g)
    PROVE  is_applied(BuildOf(from, ids, marker), g)
<1> DEFINE out == BuildOf(from, ids, marker)
           W == {i \in Flashes : is_applied(i, g)}
           V == W \cup {NoImage}
           clean == Prepared(from, ids)
           still == Unwaited(from, ids)
<1>1. g \in Patches \ {Retired}
  BY PatchNames DEF Guards, Retired
<1>2. still \in W
  BY <1>1, Unstarted DEF Unwaited
<1>3. clean = WithoutPredecessors(still, ids)
  BY DEF Prepared
<1> HIDE DEF still
<1>4. ASSUME NEW q \in {"amd_flash_v4", "amd_flash_v3", "ignition_cut_v17", "launch_control_v17"},
             NEW i \in W
      PROVE  revert(i, q) \in W
  <2>1. q \in Patches
    BY PatchNames
  <2>2. DOMAIN Edits[g] \cap DOMAIN Edits[q] = {}
    <3> SUFFICES ASSUME NEW c \in DOMAIN Edits[g], c \in DOMAIN Edits[q] PROVE FALSE
      OBVIOUS
    <3>1. c \in DOMAIN Writing /\ {g, q} \subseteq Writing[c]
      BY <1>1, <2>1, WrittenBy
    <3> QED
      BY <3>1 DEF Writing, Guards
  <2>3. \A c \in DOMAIN Edits[g] : revert(i, q)[c] = i[c]
    BY <1>1, <2>2, PatchCells, CellSets DEF revert
  <2>4. revert(i, q) \in Flashes
    BY RevertTyped
  <2> QED
    BY <2>3, <2>4 DEF is_applied, Holds
<1>5. W \subseteq Flashes /\ NoImage \notin W
  BY CellValues
<1> HIDE DEF W
<1>6. ASSUME NEW i \in V,
             NEW old \in {"amd_flash_v4", "amd_flash_v3", "ignition_cut_v17", "launch_control_v17"}
      PROVE  RevertPredecessor(i, old, ids) \in V
  <2> DEFINE dependents == {d \in Patches \ ids : old \in Requires(d)}
             bare == RevertExact(i, dependents)
  <2>1. CASE i = NoImage \/ old \in ids \/ ~is_applied(i, old)
    BY <2>1 DEF RevertPredecessor
  <2>2. CASE i # NoImage
    <3>1. dependents \subseteq {"launch_control_v17"} /\ dependents \in SUBSET Patches
      BY DEF Requires
    <3>2. i \in W
      BY <2>2
    <3>3. ASSUME NEW p \in dependents, NEW j \in W
          PROVE  (IF is_applied(j, p) THEN revert(j, p) ELSE j) \in W
      BY <1>4, <3>1
    <3>4. IsFiniteSet(dependents)
      BY <3>1, FinitePatches
    <3> HIDE DEF dependents
    <3>5. bare \in W
      BY <3>2, <3>3, <3>4, RevertFold
    <3>6. RevertPredecessor(i, old, ids) \in {revert(bare, old), NoImage, i}
      BY DEF RevertPredecessor, dependents
    <3> HIDE DEF bare
    <3> QED
      BY <1>4, <3>5, <3>6
  <2> QED
    BY <2>1, <2>2
<1>7. \A p \in ToSet(RevertSuperseded) \cap ids : \A i \in V, old \in ToSet(Supersedes(p)) :
         RevertPredecessor(i, old, ids) \in V
  <2>1. ASSUME NEW p \in ToSet(RevertSuperseded) \cap ids, NEW old \in ToSet(Supersedes(p))
        PROVE  old \in {"amd_flash_v4", "amd_flash_v3", "ignition_cut_v17", "launch_control_v17"}
    <3>1. p \in {"amd_flash", "ignition_cut_v18", "launch_control_v18"}
      BY DEF ToSet, RevertSuperseded
    <3> QED
      BY <3>1 DEF ToSet, Supersedes
  <2> QED
    BY <1>6, <2>1
<1>8. clean \in V
  <2>1. still \in V
    BY <1>2
  <2> HIDE DEF V, clean
  <2>2. WithoutPredecessors(still, ids) \in V
    BY <1>7, <2>1, AllSuccessors
  <2> QED
    BY <1>3, <2>2
<1> HIDE DEF clean
<1>9. Composes(out, from, ids)
  BY BuiltCells
<1>10. is_applied(clean, g)
  BY <1>8, <1>9, CellValues DEF Composes, W, clean
<1>11. \A q \in ids : ~(DOMAIN Edits[g] \subseteq DOMAIN Edits[q])
  <2>1. "guard" \in DOMAIN Edits[g]
    BY DEF Edits, Guards
  <2>2. ASSUME NEW q \in ids PROVE "guard" \notin DOMAIN Edits[q]
    BY WrittenBy DEF Writing, Deprecated
  <2> QED
    BY <2>1, <2>2
<1> QED
  BY <1>1, <1>9, <1>10, <1>11 DEF Composes, clean

LEMMA BuiltStartup ==
    ASSUME NEW from \in Flashes, NEW ids \in SUBSET (Patches \ Deprecated),
           NEW marker \in Markers, BuildOf(from, ids, marker) # NoImage,
           "softbsl_loader" \in ids /\ installed_calguard(from) => "cal_guard" \in ids
    PROVE  LeftAt(from, BuildOf(from, ids, marker), "startup")
<1> DEFINE out == BuildOf(from, ids, marker)
           clean == Prepared(from, ids)
<1>1. Composes(out, from, ids) /\ WaitAdmissible(from, ids)
  BY BuiltCells DEF BuildOf, BuildFrom, Admissible
<1>2. "startup" \in Cells
  BY CellSets
<1>3. clean["startup"] \in {Unwaited(from, ids)["startup"], "-"}
  <2>1. clean \in Remains(Started(from, ids))
    BY <1>1, PreparedRemains, CellValues DEF Composes
  <2> QED
    BY <1>2, <2>1, StartedCells DEF Remains
<1> SUFFICES ASSUME out["startup"] # "-", ~Accounted(InstalledIn(out), "startup")
             PROVE  out["startup"] = from["startup"] /\ ~Accounted(InstalledIn(from), "startup")
  BY DEF LeftAt
<1> HIDE DEF out, clean
<1>4. Guards \subseteq Patches
  BY PatchNames DEF Guards
<1>5. \A g \in Guards : ~is_applied(out, g)
  BY <1>4 DEF Accounted, InstalledIn, Guards
<1>6. "cal_guard" \notin ids
  BY <1>1, <1>5 DEF Composes, Guards
<1>7. CASE installed_calguard(from)
  <2>1. ids \cap {"softbsl_loader", "cal_guard"} = {}
    BY <1>6, <1>7
  <2>2. PICK g \in Guards : is_applied(from, g)
    BY <1>7 DEF installed_calguard, Guards
  <2> QED
    BY <1>5, <2>1, <2>2, GuardStays DEF out
<1>8. CASE ~installed_calguard(from)
  <2>1. ~WaitChosen(from, ids)
    BY <1>6, <1>8 DEF WaitChosen
  <2>2. out["startup"] = clean["startup"]
    BY <1>1, <2>1 DEF Composes, clean
  <2>3. CASE ids \cap StartupOwners # {}
    <3>1. Unwaited(from, ids)["startup"] = "-"
      BY <1>1, <1>2, <2>1, <2>3 DEF WaitAdmissible, Unwaited, Flashes
    <3> QED
      BY <1>3, <2>2, <3>1
  <2>4. CASE ids \cap StartupOwners = {}
    <3>1. Unwaited(from, ids) = from
      BY <2>4 DEF Unwaited
    <3>2. out["startup"] = from["startup"]
      BY <1>3, <2>2, <3>1
    <3>3. ASSUME NEW p \in Patches, is_applied(from, p) PROVE "startup" \notin DOMAIN Edits[p]
      <4>1. CASE p # Retired
        BY <4>1, Stated
      <4>2. CASE p = Retired
        BY <3>2, <3>3, <4>2 DEF is_applied, Holds, BankMarker, Edits, Retired
      <4> QED
        BY <4>1, <4>2
    <3> QED
      BY <1>8, <3>2, <3>3 DEF Accounted, InstalledIn, installed_calguard
  <2> QED
    BY <2>3, <2>4
<1> QED
  BY <1>7, <1>8

LEMMA ResolvedGuard ==
    ASSUME NEW from \in Flashes, NEW sel, "softbsl_loader" \in Resolved(from, sel),
           installed_calguard(from)
    PROVE  "cal_guard" \in Resolved(from, sel)
<1> DEFINE s == sel \cup LaunchSuccessor(from, sel)
           normal == restore_missing_calguard_v5_body(from)
<1>1. is_applied(normal, "cal_guard") \/ is_applied(normal, "cal_guard_v5")
  BY Restored, PatchNames DEF installed_calguard
<1>2. Resolved(from, sel) = with_startup_wait(from, s)
  BY DEF Resolved
<1> HIDE DEF s, normal
<1>3. "softbsl_loader" \in s
  BY <1>2 DEF with_startup_wait
<1> QED
  BY <1>1, <1>2, <1>3 DEF with_startup_wait, normal

LEMMA BuildLeavesNothing ==
    ASSUME NEW from \in Flashes, NEW sel \in SUBSET Patches, NEW marker \in Markers,
           build(from, sel, marker) # NoImage
    PROVE  NothingLeft(from, build(from, sel, marker))
<1> DEFINE ids == Resolved(from, sel)
<1>1. sel \cap Deprecated = {} /\ build(from, sel, marker) = BuildOf(from, ids, marker)
  BY DEF build
<1>2. ids \in SUBSET (Patches \ Deprecated)
  BY <1>1, ResolvedPatches
<1>3. "softbsl_loader" \in ids /\ installed_calguard(from) => "cal_guard" \in ids
  BY ResolvedGuard
<1> HIDE DEF ids
<1>4. BuildOf(from, ids, marker) # NoImage
  BY <1>1
<1>5. LeftAt(from, BuildOf(from, ids, marker), "startup")
  BY <1>2, <1>3, <1>4, BuiltStartup
<1>6. \A c \in Plain : LeftAt(from, BuildOf(from, ids, marker), c)
  BY <1>2, <1>4, BuiltPlain
<1>7. LeftAt(from, BuildOf(from, ids, marker), "marker")
  BY DEF LeftAt, Accounted
<1> QED
  BY <1>1, <1>5, <1>6, <1>7 DEF NothingLeft, Plain


LEMMA LeftTwice ==
    ASSUME NEW i, NEW j, NEW k, NEW c, LeftAt(i, j, c), LeftAt(j, k, c)
    PROVE  LeftAt(i, k, c)
  BY DEF LeftAt

LEMMA LeftStill ==
    ASSUME NEW i, NEW j, NEW c, j[c] = i[c],
           Accounted(InstalledIn(i), c) => Accounted(InstalledIn(j), c)
    PROVE  LeftAt(i, j, c)
  BY DEF LeftAt

(* Removals leave nothing of a patch behind.                               *)
LEMMA RemainsLeft ==
    ASSUME NEW from \in Flashes, NEW i \in Remains(from), NEW c \in Plain
    PROVE  LeftAt(from, i, c)
<1> SUFFICES ASSUME i[c] # "-", ~Accounted(InstalledIn(i), c)
             PROVE  i[c] = from[c] /\ ~Accounted(InstalledIn(from), c)
  BY DEF LeftAt
<1>1. i[c] = from[c]
  BY CellSets DEF Plain, Remains
<1>2. \A p \in Patches \ {Retired} : c \in DOMAIN Edits[p] => ~is_applied(i, p) /\ ~Gone(i, p)
  BY AccountedPlain DEF Gone
<1>3. ~Accounted(InstalledIn(from), c)
  BY <1>2, AccountedPlain DEF Remains
<1> QED
  BY <1>1, <1>3

LEMMA RevertExactLeavesNothing ==
    ASSUME NEW from \in Flashes, NEW ps \in SUBSET Patches, from["startup"] = "-"
    PROVE  LET out == RevertExact(from, ps)
           IN out \in Flashes /\ out["startup"] = "-" /\ NothingLeft(from, out)
<1> DEFINE out == RevertExact(from, ps)
<1>1. out \in Remains(from)
  BY RevertExactRemains
<1> HIDE DEF out
<1>2. out \in Flashes /\ out["startup"] = "-"
  BY <1>1, CellSets DEF Remains
<1>3. LeftAt(from, out, "startup") /\ LeftAt(from, out, "marker")
  BY <1>2 DEF LeftAt, Accounted
<1>4. \A c \in Plain : LeftAt(from, out, c)
  BY <1>1, RemainsLeft
<1> QED
  BY <1>2, <1>3, <1>4 DEF out, NothingLeft, Plain

LEMMA RestoredLeavesNothing ==
    ASSUME NEW from \in Flashes
    PROVE  NothingLeft(from, restore_missing_calguard_v5_body(from))
<1> DEFINE out == restore_missing_calguard_v5_body(from)
<1>1. /\ out \in Flashes /\ \A c \in Cells \ {"body"} : out[c] = from[c]
      /\ out["body"] = from["body"] \/ is_applied(out, "cal_guard_v5")
      /\ \A p \in Patches : is_applied(from, p) => is_applied(out, p)
  BY Restored
<1> HIDE DEF out
<1>2. "cal_guard_v5" \in Patches /\ "body" \in DOMAIN Edits["cal_guard_v5"]
  BY PatchNames DEF Edits
<1>3. ASSUME NEW c \in Code PROVE LeftAt(from, out, c)
  <2>1. Accounted(InstalledIn(from), c) => Accounted(InstalledIn(out), c)
    BY <1>1 DEF Accounted, InstalledIn
  <2>2. out[c] = from[c] \/ Accounted(InstalledIn(out), c)
    BY <1>1, <1>2, CellSets DEF Accounted, InstalledIn
  <2> QED
    BY <2>1, <2>2 DEF LeftAt
<1> QED
  BY <1>3 DEF out, NothingLeft

LEMMA UnstartedLeavesNothing ==
    ASSUME NEW from \in Flashes
    PROVE  NothingLeft(from, [from EXCEPT !["startup"] = "-"])
<1> DEFINE out == [from EXCEPT !["startup"] = "-"]
<1>1. /\ out \in Flashes /\ out["startup"] = "-"
      /\ \A c \in Cells \ {"startup"} : out[c] = from[c]
      /\ \A p \in Patches \ {Retired} : is_applied(from, p) => is_applied(out, p)
  BY Unstarted
<1> HIDE DEF out
<1>2. ASSUME NEW c \in Plain PROVE LeftAt(from, out, c)
  <2>1. out[c] = from[c]
    BY <1>1, CellSets DEF Plain
  <2>2. Accounted(InstalledIn(from), c) => Accounted(InstalledIn(out), c)
    BY <1>1, AccountedPlain
  <2> QED
    BY <2>1, <2>2, LeftStill
<1>3. LeftAt(from, out, "startup") /\ LeftAt(from, out, "marker")
  BY <1>1 DEF LeftAt, Accounted
<1> QED
  BY <1>2, <1>3 DEF out, NothingLeft, Plain

(* The marker alone.                                                       *)
LEMMA MarkedLeavesNothing ==
    ASSUME NEW from \in Flashes, NEW bank \in {"B", "T"}
    PROVE  LET out == [from EXCEPT !["marker"] = bank]
           IN /\ out \in Flashes /\ NothingLeft(from, out)
              /\ \A p \in Patches : is_applied(from, p) => is_applied(out, p)
<1> DEFINE out == [from EXCEPT !["marker"] = bank]
<1>1. /\ out \in Flashes /\ out["marker"] = bank
      /\ \A c \in Cells \ {"marker"} : out[c] = from[c]
  BY SetCell, CellSets, CellValues DEF Flashes
<1> HIDE DEF out
<1>2. ASSUME NEW p \in Patches, is_applied(from, p) PROVE is_applied(out, p)
  <2>1. "marker" \in DOMAIN Edits[p] => p \in {"softbsl_loader", "softbsl_loader_v11"}
    BY WrittenBy DEF Writing
  <2>2. DOMAIN Edits[p] \subseteq Cells
    BY PatchCells, CellSets
  <2> QED
    BY <1>1, <1>2, <2>1, <2>2 DEF is_applied, Holds, BankMarker
<1>3. ASSUME NEW c \in Code PROVE LeftAt(from, out, c)
  BY <1>1, <1>2, LeftStill, CellSets DEF LeftAt, Accounted, InstalledIn
<1> QED
  BY <1>1, <1>2, <1>3 DEF out, NothingLeft

LEMMA RemovalLeavesNothing ==
    ASSUME NEW from \in Flashes, NEW p \in Patches, revert_patch(from, p) # NoImage
    PROVE  NothingLeft(from, revert_patch(from, p))
<1> DEFINE bare == revert(from, p)
           settled == Settled(from, p, bare)
           out == revert_patch(from, p)
<1>1. /\ is_applied(from, p) /\ out = Remarked(from, settled)
      /\ p \in ToSet(WaitOwners) => from["startup"] \in {"-", "W"}
  BY DEF revert_patch
<1>2. bare \in Remains(from) /\ bare \in Flashes
  BY <1>1, RemainsItself, RevertRemains, RevertTyped
<1> HIDE DEF bare
<1>3. settled \in {bare, [bare EXCEPT !["startup"] = "-"]}
  BY DEF Settled
<1>4. settled \in Flashes
  BY <1>2, <1>3, SetCell, CellSets, CellValues
<1>5. LeftAt(bare, settled, "marker") /\ \A c \in Plain : LeftAt(bare, settled, c)
  <2>1. NothingLeft(bare, [bare EXCEPT !["startup"] = "-"])
    BY <1>2, UnstartedLeavesNothing
  <2>2. NothingLeft(bare, bare)
    BY LeftStill DEF NothingLeft
  <2> QED
    BY <1>3, <2>1, <2>2, CellSets DEF NothingLeft, Plain
<1>6. \A c \in Plain : LeftAt(from, settled, c)
  BY <1>2, <1>5, RemainsLeft, LeftTwice
<1>7. LeftAt(from, settled, "startup")
  <2> SUFFICES ASSUME settled["startup"] # "-", ~Accounted(InstalledIn(settled), "startup")
               PROVE  /\ settled["startup"] = from["startup"]
                      /\ ~Accounted(InstalledIn(from), "startup")
    BY DEF LeftAt
  <2>1. settled = bare
    BY <1>2, <1>3, CellSets DEF Flashes
  <2>2. bare["startup"] = from["startup"]
    BY <1>2, <2>1, CellSets DEF Remains
  <2>3. Guards \subseteq Patches \ {Retired}
    BY PatchNames DEF Guards, Retired
  <2>4. \A g \in Guards : ~is_applied(bare, g)
    BY <2>1, <2>3 DEF Accounted, InstalledIn, Guards
  <2>5. p \notin ToSet(WaitOwners)
    <3> SUFFICES ASSUME p \in ToSet(WaitOwners) PROVE FALSE
      OBVIOUS
    <3>1. from["startup"] = "W" /\ ~installed_calguard(bare)
      BY <1>1, <2>1, <2>2, <2>4 DEF installed_calguard, Guards
    <3>2. settled = [bare EXCEPT !["startup"] = "-"]
      BY <3>1 DEF Settled
    <3> QED
      BY <1>2, <3>2, CellSets DEF Flashes
  <2>6. p \notin Guards /\ p # Retired
    <3>1. ToSet(WaitOwners) = {"cal_guard", "cal_guard_v5", "softbsl_loader", "amd_flash",
                               "amd_flash_v4", "amd_flash_v3"}
      BY DEF ToSet, WaitOwners
    <3> QED
      BY <2>5, <3>1 DEF Guards, Retired
  <2>7. ASSUME NEW g \in Guards PROVE ~is_applied(from, g)
    <3> SUFFICES ASSUME is_applied(from, g) PROVE FALSE
      OBVIOUS
    <3>1. DOMAIN Edits[g] \cap DOMAIN Edits[p] = {}
      BY <1>1, <2>3, <2>6, Apart
    <3>2. \A c \in DOMAIN Edits[g] : bare[c] = from[c]
      BY <2>3, <3>1, PatchCells, CellSets DEF bare, revert
    <3>3. is_applied(bare, g)
      BY <3>2 DEF is_applied, Holds
    <3> QED
      BY <2>4, <3>3
  <2>8. ASSUME NEW q \in Patches, is_applied(from, q) PROVE "startup" \notin DOMAIN Edits[q]
    <3>1. CASE q # Retired
      BY <3>1, Stated
    <3>2. CASE q = Retired
      BY <2>1, <2>2, <2>8, <3>2 DEF is_applied, Holds, BankMarker, Edits, Retired
    <3> QED
      BY <3>1, <3>2
  <2> QED
    BY <2>1, <2>2, <2>7, <2>8 DEF Accounted, InstalledIn, Guards
<1>8. NothingLeft(from, settled)
  BY <1>6, <1>7 DEF NothingLeft, Plain, LeftAt, Accounted
<1>9. NothingLeft(settled, [settled EXCEPT !["marker"] = "T"])
  BY <1>4, MarkedLeavesNothing
<1>10. out \in {settled, [settled EXCEPT !["marker"] = "T"]} \cup {NoImage}
  BY <1>1, <1>4, OnlyMarked DEF Remarked
<1> HIDE DEF settled, out
<1>11. \A i : NothingLeft(settled, i) => NothingLeft(from, i)
  BY <1>8, LeftTwice DEF NothingLeft
<1> QED
  BY <1>8, <1>9, <1>10, <1>11 DEF out


LEMMA PlanLeavesNothing ==
    ASSUME NEW from \in Flashes, NEW ps \in SUBSET Patches, NEW marker \in Markers,
           _compose_image(from, ps, marker) # NoImage
    PROVE  NothingLeft(from, _compose_image(from, ps, marker))
<1> DEFINE ids == with_startup_wait(from, ps)
           missing == Missing(from, ids)
           start == IF marker # "" /\ "softbsl_loader" \in ids /\ from["marker"] \in {"B", "T"}
                    THEN [from EXCEPT !["marker"] = "B"] ELSE from
           out == _compose_image(from, ps, marker)
<1>1. ids \in SUBSET Patches
  BY PatchNames DEF with_startup_wait
<1> HIDE DEF ids
<1>2. missing \in SUBSET Patches
  BY <1>1 DEF Missing
<1>3. out = IF missing = {} /\ marker = "" THEN from ELSE build(start, missing, marker)
  BY DEF _compose_image, ComposeWith, ComposeOf, ids
<1> HIDE DEF missing, out
<1>4. NothingLeft(from, from)
  BY LeftStill DEF NothingLeft
<1>5. start \in Flashes /\ NothingLeft(from, start)
  BY <1>4, MarkedLeavesNothing
<1> HIDE DEF start
<1>6. CASE missing = {} /\ marker = ""
  BY <1>3, <1>4, <1>6 DEF out
<1>7. CASE ~(missing = {} /\ marker = "")
  <2>1. build(start, missing, marker) # NoImage
    BY <1>3, <1>7 DEF out
  <2>2. NothingLeft(start, build(start, missing, marker))
    BY <1>2, <1>5, <2>1, BuildLeavesNothing
  <2> QED
    BY <1>3, <1>5, <1>7, <2>2, NothingLeftTwice DEF out
<1> QED
  BY <1>6, <1>7

LEMMA TargetLeavesNothing ==
    ASSUME NEW from \in Flashes, NEW amd, NEW guard, NEW alphan, NEW bank \in {"", "T"},
           compose_persistent_image(from, amd, guard, alphan, bank) # NoImage
    PROVE  NothingLeft(from, compose_persistent_image(from, amd, guard, alphan, bank))
<1> DEFINE marker == IF bank = "" THEN MarkerIn(from) ELSE bank
           normal == restore_missing_calguard_v5_body(from)
           still == Unwaiting(normal)
           clean == Cleaned(still)
           plan == _persistent_patch_plan(from, amd, guard, alphan, marker)
           out == compose_persistent_image(from, amd, guard, alphan, bank)
<1>1. marker \in Markers
  BY DEF MarkerIn, Markers
<1>2. out = ComposePlan(plan, marker)
  BY DEF compose_persistent_image
<1> HIDE DEF marker
<1>3. plan.base # NoImage
  BY <1>2 DEF ComposePlan
<1>4. from["startup"] \in {"-", "W"}
  BY <1>3 DEF _persistent_patch_plan, NoPlan, BaseAdmissible, wait_partial
<1>5. normal \in Flashes /\ normal["startup"] = from["startup"] /\ NothingLeft(from, normal)
  BY Restored, RestoredLeavesNothing, CellSets
<1> HIDE DEF normal
<1>6. still \in Flashes /\ still["startup"] = "-" /\ NothingLeft(from, still)
  <2>1. CASE normal["startup"] = "W"
    <3>1. still = [normal EXCEPT !["startup"] = "-"]
      BY <2>1 DEF Unwaiting
    <3> QED
      BY <1>5, <3>1, Unstarted, UnstartedLeavesNothing, NothingLeftTwice
  <2>2. CASE normal["startup"] # "W"
    BY <1>4, <1>5, <2>2 DEF Unwaiting
  <2> QED
    BY <2>1, <2>2
<1> HIDE DEF still
<1>7. clean \in Flashes /\ clean["startup"] = "-" /\ NothingLeft(from, clean)
  <2>1. {"top_ds2_guard", "cal_guard_v5", "softbsl_loader_v11"} \in SUBSET Patches
    BY PatchNames
  <2> QED
    BY <1>6, <2>1, RevertExactLeavesNothing, NothingLeftTwice DEF Cleaned
<1> HIDE DEF clean
<1>8. ASSUME NEW ps \in SUBSET Patches, NEW driver
      PROVE  LET it == PlanOf(clean, ps, driver)
             IN it.base \in Flashes /\ NothingLeft(from, it.base) /\ it.patches = ps
  <2>1. {"door_0x43"} \cup ps \in SUBSET Patches
    BY PatchNames
  <2> DEFINE bare == RevertExact(clean, {"door_0x43"} \cup ps)
  <2>2. bare \in Flashes /\ NothingLeft(clean, bare)
    BY <1>7, <2>1, RevertExactLeavesNothing
  <2>3. PlanOf(clean, ps, driver).base = bare /\ PlanOf(clean, ps, driver).patches = ps
    BY DEF PlanOf, Plan
  <2> HIDE DEF bare
  <2>4. NothingLeft(from, bare)
    BY <1>7, <2>2, NothingLeftTwice
  <2> QED
    BY <2>2, <2>3, <2>4
<1>9. ASSUME NEW g, NEW top, NEW driver \in SUBSET {"amd_flash"}
      PROVE  LET it == PlanFor(clean, g, alphan, top, driver)
             IN it.base \in Flashes /\ NothingLeft(from, it.base) /\ it.patches \in SUBSET Patches
  <2> DEFINE ps == {"softbsl_loader", "door_magic"} \cup driver
                      \cup (IF g THEN {"cal_guard"} ELSE {})
                      \cup (IF alphan THEN {"alphan_failsafe"} ELSE {})
                      \cup (IF top THEN {"top_ds2_guard"} ELSE {})
  <2>1. ps \in SUBSET Patches
    BY PatchNames
  <2>2. PlanFor(clean, g, alphan, top, driver) = PlanOf(clean, ps, driver)
    BY DEF PlanFor
  <2> HIDE DEF ps
  <2> QED
    BY <1>8, <2>1, <2>2
<1>10. plan.base \in Flashes /\ NothingLeft(from, plan.base) /\ plan.patches \in SUBSET Patches
  <2> DEFINE g == guard \/ installed_calguard(normal)
             driver == IF amd /\ (\/ from["driver"] = "-"
                                  \/ _patch_state(clean, "amd_flash", BootCells) = "legacy")
                       THEN {"amd_flash"} ELSE {}
             top == amd /\ marker = "T"
             full == PlanFor(clean, g, alphan, top, driver)
  <2>1. plan \in {NoPlan, full}
    BY DEF _persistent_patch_plan, PlanFrom, clean, still, normal
  <2>2. driver \in SUBSET {"amd_flash"}
    OBVIOUS
  <2> HIDE DEF g, top, driver, plan
  <2>3. full.base \in Flashes /\ NothingLeft(from, full.base) /\ full.patches \in SUBSET Patches
    BY <1>9, <2>2
  <2> HIDE DEF full
  <2>4. plan # NoPlan
    <3>1. NoPlan.base = NoImage
      BY DEF NoPlan
    <3> QED
      BY <1>3, <3>1
  <2> QED
    BY <2>1, <2>3, <2>4
<1> HIDE DEF plan
<1>11. out = _compose_image(plan.base, plan.patches, marker)
  BY <1>2, <1>3 DEF ComposePlan
<1>12. NothingLeft(plan.base, _compose_image(plan.base, plan.patches, marker))
  BY <1>1, <1>10, <1>11, PlanLeavesNothing
<1> HIDE DEF out
<1>13. NothingLeft(from, out)
  BY <1>10, <1>11, <1>12, NothingLeftTwice
<1> QED
  BY <1>13 DEF out

(* What the tab builds is composed, and then only settings are put in.     *)
LEMMA TabBuildLeavesNothing ==
    ASSUME base \in Flashes, ticked \in SUBSET Patches, installed = InstalledIn(base), Drafted,
           _build_patch_image(drafts) # NoImage
    PROVE  NothingLeft(base, _build_patch_image(drafts))
<1> DEFINE out == _build_patch_image(drafts)
<1>1. DOMAIN drafts \subseteq Tunables
  BY DEF Drafted, Pending
<1>2. ComposedImage # NoImage
  BY <1>1, SettingsRefused
<1>3. \A c \in Code : out[c] = ComposedImage[c]
  BY <1>2, SettingsArrive DEF Drafted
<1> HIDE DEF out
<1>4. \A p \in Patches : is_applied(out, p) <=> is_applied(ComposedImage, p)
  BY <1>3, PatchCells DEF is_applied, Holds
<1>5. NothingLeft(base, ComposedImage)
  <2>1. CASE ticked = {}
    BY <2>1, LeftStill DEF ComposedImage, NothingLeft
  <2>2. CASE ticked # {}
    <3>1. ComposedImage = build(base, ticked, "")
      BY <1>2, <2>2 DEF ComposedImage, build_image, SupportedImage
    <3>2. build(base, ticked, "") # NoImage
      BY <1>2, <3>1
    <3> QED
      BY <3>1, <3>2, BuildLeavesNothing DEF Markers
  <2> QED
    BY <2>1, <2>2
<1>6. \A c \in Code : LeftAt(ComposedImage, out, c)
  BY <1>3, <1>4, LeftStill DEF Accounted, InstalledIn
<1> QED
  BY <1>5, <1>6, LeftTwice DEF NothingLeft, out

(* A code cell that no installed patch accounts for is stock, unless it was *)
(* unaccounted for before and kept: a build, a removal and a composition   *)
(* leave nothing of what they replace or remove, for any history.          *)
THEOREM NothingIsLeft == Spec => NothingLeftBehind
<1> DEFINE Left == Change => \A c \in Code :
                      \/ base'[c] = "-" \/ Accounted(installed', c)
                      \/ base'[c] = base[c] /\ ~Accounted(installed, c)
<1>1. TabInv /\ [Next]_vars => [Left]_vars
  <2> SUFFICES ASSUME TabInv, Next, Change PROVE Left
    OBVIOUS
  <2>1. ops' # ops /\ base' # base
    BY DEF Change
  <2>2. ASSUME base \in Flashes, installed = InstalledIn(base), installed' = InstalledIn(base'),
               NothingLeft(base, base')
        PROVE  Left
    BY <2>2 DEF NothingLeft, LeftAt
  <2>3. base # NoImage => base \in Flashes /\ installed = InstalledIn(base)
    BY DEF TabInv, Held, Shows
  <2>4. ASSUME NEW p \in Patches, _on_patch_remove(p) PROVE Left
    <3>1. /\ base # NoImage /\ revert_patch(base, p) # NoImage /\ base' = revert_patch(base, p)
          /\ installed' = InstalledIn(base')
      BY <2>4 DEF _on_patch_remove
    <3> QED
      BY <2>2, <2>3, <3>1, RemovalLeavesNothing
  <2>5. ASSUME _on_patches_build PROVE Left
    <3>1. /\ base # NoImage /\ _build_patch_image(drafts) # NoImage
          /\ base' = _build_patch_image(drafts) /\ installed' = InstalledIn(base')
      BY <2>5 DEF _on_patches_build, Fresh
    <3>2. ticked \in SUBSET Patches /\ Drafted
      BY ShownPatches DEF TabInv, Shows
    <3> QED
      BY <2>2, <2>3, <3>1, <3>2, TabBuildLeavesNothing
  <2>6. ASSUME NEW s \in Selections, cmd_apply(s.patches, s.marker) PROVE Left
    <3>1. /\ base # NoImage /\ build(base, s.patches, s.marker) # NoImage
          /\ base' = build(base, s.patches, s.marker) /\ installed' = InstalledIn(base')
      BY <2>6 DEF cmd_apply, Fresh, Untouched
    <3>2. s.patches \in SUBSET Patches /\ s.marker \in Markers
      BY PatchTabAssumption DEF Markers
    <3> QED
      BY <2>2, <2>3, <3>1, <3>2, BuildLeavesNothing
  <2>7. ASSUME NEW amd \in BOOLEAN, NEW guard \in BOOLEAN, NEW bank \in {"", "T"},
               compose_target(amd, guard, guard, bank)
        PROVE  Left
    <3> DEFINE out == compose_persistent_image(base, amd, guard, guard, bank)
    <3>1. base # NoImage /\ out # NoImage /\ base' = out /\ installed' = InstalledIn(base')
      BY <2>7 DEF compose_target, Fresh, Untouched
    <3>2. NothingLeft(base, out)
      BY <2>3, <3>1, TargetLeavesNothing
    <3> QED
      BY <2>2, <2>3, <3>1, <3>2
  <2>8. ~(\E p \in Patches : Tick(p) \/ Untick(p))
    BY <2>1 DEF Tick, Untick, _on_patch_selection_changed
  <2>9. ~(\E p \in Configurable, v \in Values : _on_patch_configure(p, v))
    BY <2>1 DEF _on_patch_configure
  <2>10. ~Open /\ ~Connection
    BY <2>1
       DEF Open, _on_patches_read_ecu, _load_patch_base_path, Preparing, Free, Connection,
           _disconnect, Connect, Swap
  <2>11. ~FullWrite
    BY <2>1
       DEF FullWrite, _on_backup_flash, Declined, BootGate, Write, _ds2_write_full, Free, tab
  <2> QED
    BY <2>4, <2>5, <2>6, <2>7, <2>8, <2>9, <2>10, <2>11 DEF Next, Edit, Compose
<1> QED
  BY <1>1, TabInvariant, PTL DEF Spec, NothingLeftBehind

---------------------------------------------------------------------------
(* What a change of the image keeps.                                       *)

(* What meets a requirement: the patch, or the earlier driver.             *)
Covered(i, r) == is_applied(i, r) \/ (r = "amd_flash" /\ is_applied(i, "amd_flash_v4"))

LEMMA RetiredTwin ==
    /\ Retired \in Patches /\ Retired \in Deprecated /\ "amd_flash_v4" \in Patches \ {Retired}
    /\ \A i : is_applied(i, Retired) => is_applied(i, "amd_flash_v4")
<1>1. Retired \in Patches /\ Retired \in Deprecated /\ "amd_flash_v4" \in Patches \ {Retired}
  BY PatchNames DEF Retired, Deprecated
<1>2. ASSUME NEW i, is_applied(i, Retired) PROVE is_applied(i, "amd_flash_v4")
  BY <1>2 DEF is_applied, Holds, BankMarker, Edits, Retired
<1> QED
  BY <1>1, <1>2

LEMMA Successors ==
    ASSUME NEW p \in Patches, NEW q \in Patches, p \in ToSet(Supersedes(q))
    PROVE  /\ p \in Deprecated /\ p # q
           /\ DOMAIN Edits[p] \cap DOMAIN Edits[q] # {}
           /\ q \notin Deprecated \/ (p = Retired /\ q = "amd_flash_v4")
<1>1. \/ q = "softbsl_loader" /\ p = "softbsl_loader_v11"
      \/ q = "cal_guard" /\ p = "cal_guard_v5"
      \/ q = "amd_flash" /\ p \in {"amd_flash_v4", "amd_flash_v3"}
      \/ q = "amd_flash_v4" /\ p = "amd_flash_v3"
      \/ q = "alphan_failsafe" /\ p = "alphan_failsafe_v2"
      \/ q = "ignition_cut_v18" /\ p = "ignition_cut_v17"
      \/ q = "launch_control_v18" /\ p = "launch_control_v17"
  BY DEF ToSet, Supersedes
<1>2. p \in Deprecated /\ p # q /\ (q \notin Deprecated \/ (p = Retired /\ q = "amd_flash_v4"))
  BY <1>1 DEF Deprecated, Retired
<1>3. DOMAIN Edits[p] \cap DOMAIN Edits[q] # {}
  <2>1. CASE q = "softbsl_loader"
    <3>1. "loader" \in DOMAIN Edits[p] /\ "loader" \in DOMAIN Edits[q]
      BY <1>1, <2>1 DEF Edits
    <3> QED
      BY <3>1
  <2>2. CASE q = "cal_guard"
    <3>1. "guard" \in DOMAIN Edits[p] /\ "guard" \in DOMAIN Edits[q]
      BY <1>1, <2>2 DEF Edits
    <3> QED
      BY <3>1
  <2>3. CASE q = "amd_flash"
    <3>1. "driver" \in DOMAIN Edits[p] /\ "driver" \in DOMAIN Edits[q]
      BY <1>1, <2>3 DEF Edits
    <3> QED
      BY <3>1
  <2>4. CASE q = "amd_flash_v4"
    <3>1. "driver" \in DOMAIN Edits[p] /\ "driver" \in DOMAIN Edits[q]
      BY <1>1, <2>4 DEF Edits
    <3> QED
      BY <3>1
  <2>5. CASE q = "alphan_failsafe"
    <3>1. "cave" \in DOMAIN Edits[p] /\ "cave" \in DOMAIN Edits[q]
      BY <1>1, <2>5 DEF Edits
    <3> QED
      BY <3>1
  <2>6. CASE q = "ignition_cut_v18"
    <3>1. "ignition" \in DOMAIN Edits[p] /\ "ignition" \in DOMAIN Edits[q]
      BY <1>1, <2>6 DEF Edits
    <3> QED
      BY <3>1
  <2>7. CASE q = "launch_control_v18"
    <3>1. "launch" \in DOMAIN Edits[p] /\ "launch" \in DOMAIN Edits[q]
      BY <1>1, <2>7 DEF Edits
    <3> QED
      BY <3>1
  <2> QED
    BY <1>1, <2>1, <2>2, <2>3, <2>4, <2>5, <2>6, <2>7
<1> QED
  BY <1>2, <1>3

(* What is in force in an image.                                           *)
LEMMA EffectiveIn ==
    ASSUME NEW i
    PROVE  Effective(InstalledIn(i)) = {p \in Patches \ {Retired} : is_applied(i, p)}
<1>1. ASSUME NEW p \in Effective(InstalledIn(i)) PROVE p \in Patches \ {Retired} /\ is_applied(i, p)
  <2>1. p \in Patches /\ is_applied(i, p)
    BY DEF Effective, InstalledIn
  <2>2. p # Retired
    <3> SUFFICES ASSUME p = Retired PROVE FALSE
      OBVIOUS
    <3>1. "amd_flash_v4" \in InstalledIn(i)
      BY <2>1, RetiredTwin DEF InstalledIn
    <3>2. Retired \in ToSet(Supersedes("amd_flash_v4"))
      BY DEF ToSet, Supersedes, Retired
    <3> QED
      BY <2>1, <3>1, <3>2 DEF Effective, Shadowed
  <2> QED
    BY <2>1, <2>2
<1>2. ASSUME NEW p \in Patches \ {Retired}, is_applied(i, p) PROVE p \in Effective(InstalledIn(i))
  <2>1. p \in InstalledIn(i)
    BY <1>2 DEF InstalledIn
  <2>2. ASSUME NEW q \in InstalledIn(i), p \in ToSet(Supersedes(q)) PROVE FALSE
    <3>1. q \in Patches /\ is_applied(i, q)
      BY DEF InstalledIn
    <3>2. p # q /\ DOMAIN Edits[p] \cap DOMAIN Edits[q] # {} /\ q # Retired
      BY <2>2, <3>1, Successors, RetiredTwin DEF Retired
    <3> QED
      BY <1>2, <3>1, <3>2, Apart
  <2> QED
    BY <2>1, <2>2 DEF Effective, Shadowed
<1> QED
  BY <1>1, <1>2

LEMMA MissingCovered ==
    ASSUME NEW i, NEW p
    PROVE  MissingIn(InstalledIn(i), p) = {r \in Requires(p) : ~Covered(i, r)}
<1>1. ASSUME NEW r \in Requires(p)
      PROVE  (\E q \in Effective(InstalledIn(i)) :
                 r = q \/ (r = "amd_flash" /\ _installed_revision_satisfies(r, q)))
              <=> Covered(i, r)
  <2>1. r \in Patches \ {Retired}
    BY Revisions DEF Requires, Retired
  <2>2. \A q : _installed_revision_satisfies("amd_flash", q)
                 <=> q \in {"amd_flash", "amd_flash_v4", Retired}
    BY DEF _installed_revision_satisfies, ToSet, Supersedes, Retired
  <2>3. \A q : q \in Effective(InstalledIn(i)) <=> q \in Patches \ {Retired} /\ is_applied(i, q)
    BY EffectiveIn
  <2> QED
    BY <2>1, <2>2, <2>3, RetiredTwin DEF Covered
<1> QED
  BY <1>1 DEF MissingIn

(* The requirements of the catalogue.                                      *)
LEMMA Needed ==
    ASSUME NEW p \in Patches, NEW r \in Requires(p)
    PROVE  /\ r \in Patches \ {Retired} /\ p # Retired
           /\ "marker" \notin DOMAIN Edits[p] /\ "startup" \notin DOMAIN Edits[p]
           /\ \/ r \notin Deprecated
              \/ p = "cal_guard_v5" /\ r = "softbsl_loader_v11"
              \/ p = "launch_control_v17" /\ r = "ignition_cut_v17"
<1>1. \/ p \in {"cal_guard", "door_magic"} /\ r = "softbsl_loader"
      \/ p = "cal_guard_v5" /\ r = "softbsl_loader_v11"
      \/ p = "top_ds2_guard" /\ r = "amd_flash"
      \/ p = "launch_control_v18" /\ r = "ignition_cut_v18"
      \/ p = "launch_control_v17" /\ r = "ignition_cut_v17"
  BY DEF Requires
<1>2. /\ r \in Patches \ {Retired} /\ p # Retired
      /\ \/ r \notin Deprecated
         \/ p = "cal_guard_v5" /\ r = "softbsl_loader_v11"
         \/ p = "launch_control_v17" /\ r = "ignition_cut_v17"
  BY <1>1, Revisions DEF Deprecated, Retired
<1>3. "marker" \notin DOMAIN Edits[p] /\ "startup" \notin DOMAIN Edits[p]
  BY <1>1, WrittenBy DEF Writing
<1> QED
  BY <1>2, <1>3

(* Preparing a base removes only what a patch of the composition           *)
(* supersedes, when the guard goes along with its loader and the launch    *)
(* control with its ignition engine.                                       *)
Along(from, ids) ==
    /\ "softbsl_loader" \in ids /\ is_applied(Started(from, ids), "cal_guard_v5")
          => "cal_guard" \in ids
    /\ "ignition_cut_v18" \in ids /\ is_applied(from, "launch_control_v17")
          => "launch_control_v18" \in ids
SupersededBy(ids, p) == \E q \in ids : p \in ToSet(Supersedes(q))

LEMMA StaysApplied ==
    ASSUME NEW i \in Flashes, NEW p \in Patches \ {Retired}, NEW q \in Patches, p # q,
           is_applied(i, p), is_applied(i, q), q = Retired => p # "amd_flash_v4",
           NEW j \in Flashes, is_applied(j, p)
    PROVE  is_applied(revert(j, q), p)
<1>1. DOMAIN Edits[p] \cap DOMAIN Edits[q] = {}
  <2>1. CASE q # Retired
    BY <2>1, Apart
  <2>2. CASE q = Retired
    <3> SUFFICES ASSUME NEW c \in DOMAIN Edits[p], c \in DOMAIN Edits[q] PROVE FALSE
      OBVIOUS
    <3>1. c = "driver"
      BY <2>2, Stated DEF Edits, Retired
    <3>2. p = "amd_flash"
      BY <2>2, <3>1, WrittenBy DEF Writing, Retired
    <3> QED
      BY <2>2, <3>2 DEF is_applied, Holds, BankMarker, Edits, Retired
  <2> QED
    BY <2>1, <2>2
<1>2. \A c \in DOMAIN Edits[p] : revert(j, q)[c] = j[c]
  BY <1>1, PatchCells, CellSets DEF revert
<1> QED
  BY <1>2 DEF is_applied, Holds

LEMMA PreparedKeeps ==
    ASSUME NEW from \in Flashes, NEW ids \in SUBSET (Patches \ Deprecated), Along(from, ids),
           Prepared(from, ids) # NoImage,
           NEW p \in Patches \ {Retired}, is_applied(from, p), ~SupersededBy(ids, p)
    PROVE  is_applied(Prepared(from, ids), p)
<1> DEFINE start == Started(from, ids)
           W == {i \in Flashes : is_applied(i, p)}
           V == W \cup {NoImage}
<1>1. start \in W
  BY StartedCells
<1>2. Prepared(from, ids) = WithoutPredecessors(start, ids)
  BY DEF Prepared, Started
<1>3. W \subseteq Flashes /\ NoImage \notin W /\ \A i \in W : is_applied(i, p)
  BY CellValues
<1>4. ASSUME NEW i \in W, NEW q \in Patches, is_applied(i, q), q # p,
             q = Retired => p # "amd_flash_v4", NEW j \in W
      PROVE  revert(j, q) \in W
  <2>1. is_applied(revert(j, q), p)
    BY <1>3, <1>4, StaysApplied
  <2> QED
    BY <1>3, <2>1, RevertTyped
<1>5. is_applied(start, "cal_guard_v5") \/ p # "cal_guard_v5"
  BY StartedCells
<1> HIDE DEF W, start
<1>6. ASSUME NEW q \in ToSet(RevertSuperseded) \cap ids, NEW old \in ToSet(Supersedes(q)),
             NEW i \in V
      PROVE  RevertPredecessor(i, old, ids) \in V
  <2> DEFINE dependents == {d \in Patches \ ids : old \in Requires(d)}
             bare == RevertExact(i, dependents)
  <2>1. old \in Patches /\ old # p /\ (old = Retired => p # "amd_flash_v4")
    <3>1. old \in Patches /\ p # old
      BY <1>6, Revisions DEF SupersededBy
    <3>2. old = Retired => q \in {"amd_flash", "amd_flash_v4"}
      BY DEF ToSet, Supersedes, Retired
    <3>3. q \in {"amd_flash", "amd_flash_v4"} => q = "amd_flash"
      BY DEF Deprecated
    <3>4. "amd_flash_v4" \in ToSet(Supersedes("amd_flash"))
      BY DEF ToSet, Supersedes
    <3> QED
      BY <3>1, <3>2, <3>3, <3>4 DEF SupersededBy
  <2>2. CASE i = NoImage \/ old \in ids \/ ~is_applied(i, old)
    BY <2>2 DEF RevertPredecessor
  <2>3. CASE i # NoImage /\ is_applied(i, old)
    <3>1. i \in W /\ dependents \in SUBSET Patches
      BY <2>3
    <3>2. ASSUME NEW d \in dependents PROVE d # p /\ d # Retired
      <4>1. \/ old = "softbsl_loader_v11" /\ d = "cal_guard_v5" /\ q = "softbsl_loader"
            \/ old = "ignition_cut_v17" /\ d = "launch_control_v17" /\ q = "ignition_cut_v18"
        <5>1. old \in Requires(d) /\ d \in Patches /\ old \in Deprecated
          BY Revisions
        <5>2. \/ old = "softbsl_loader_v11" /\ d = "cal_guard_v5"
              \/ old = "ignition_cut_v17" /\ d = "launch_control_v17"
          BY <5>1, Needed
        <5>3. \/ old = "softbsl_loader_v11" /\ q = "softbsl_loader"
              \/ old = "ignition_cut_v17" /\ q = "ignition_cut_v18"
              \/ old \notin {"softbsl_loader_v11", "ignition_cut_v17"}
          BY DEF ToSet, Supersedes
        <5> QED
          BY <5>2, <5>3
      <4>2. d = p => \/ "cal_guard" \in ids /\ d = "cal_guard_v5"
                     \/ "launch_control_v18" \in ids /\ d = "launch_control_v17"
        BY <1>5, <4>1 DEF Along, start
      <4>3. "cal_guard_v5" \in ToSet(Supersedes("cal_guard"))
              /\ "launch_control_v17" \in ToSet(Supersedes("launch_control_v18"))
        BY DEF ToSet, Supersedes
      <4>4. d # Retired
        BY <4>1 DEF Retired
      <4> QED
        BY <4>2, <4>3, <4>4 DEF SupersededBy
    <3>3. ASSUME NEW d \in dependents, NEW j \in W
          PROVE  (IF is_applied(j, d) THEN revert(j, d) ELSE j) \in W
      <4>1. d # p /\ d # Retired /\ d \in Patches
        BY <3>1, <3>2
      <4> QED
        BY <1>4, <4>1
    <3>4. IsFiniteSet(dependents)
      BY <3>1, FinitePatches
    <3>5. RevertPredecessor(i, old, ids) \in {revert(bare, old), NoImage, i}
      BY DEF RevertPredecessor
    <3> HIDE DEF dependents
    <3>6. bare \in W
      BY <3>1, <3>3, <3>4, RevertFold
    <3> HIDE DEF bare
    <3>7. revert(bare, old) \in W
      BY <1>4, <2>1, <2>3, <3>1, <3>6
    <3> QED
      BY <3>5, <3>7
  <2> QED
    BY <2>2, <2>3
<1>7. WithoutPredecessors(start, ids) \in V
  <2>1. start \in V
    BY <1>1
  <2> HIDE DEF V
  <2> QED
    BY <1>6, <2>1, AllSuccessors
<1> QED
  BY <1>2, <1>3, <1>7

(* A retired revision that a patch covers wholly is one it supersedes.      *)
LEMMA Displaced ==
    ASSUME NEW p \in Deprecated \ {Retired}, NEW q \in Patches \ Deprecated,
           DOMAIN Edits[p] \subseteq DOMAIN Edits[q]
    PROVE  p \in ToSet(Supersedes(q))
<1>1. \A c \in DOMAIN Edits[p] : c \in DOMAIN Writing /\ q \in Writing[c]
  BY WrittenBy
<1>2. CASE p = "softbsl_loader_v11"
  <2>1. "loader" \in DOMAIN Edits[p]
    BY <1>2 DEF Edits
  <2>2. q = "softbsl_loader"
    BY <1>1, <2>1 DEF Writing, Deprecated
  <2> QED
    BY <1>2, <2>2 DEF ToSet, Supersedes
<1>3. CASE p = "cal_guard_v5"
  <2>1. "guard" \in DOMAIN Edits[p]
    BY <1>3 DEF Edits
  <2>2. q = "cal_guard"
    BY <1>1, <2>1 DEF Writing, Deprecated
  <2> QED
    BY <1>3, <2>2 DEF ToSet, Supersedes
<1>4. CASE p = "amd_flash_v4"
  <2>1. "driver" \in DOMAIN Edits[p]
    BY <1>4 DEF Edits
  <2>2. q = "amd_flash"
    BY <1>1, <2>1 DEF Writing, Deprecated
  <2> QED
    BY <1>4, <2>2 DEF ToSet, Supersedes
<1>5. CASE p = "alphan_failsafe_v2"
  <2>1. "alphan" \in DOMAIN Edits[p]
    BY <1>5 DEF Edits
  <2>2. q = "alphan_failsafe"
    BY <1>1, <2>1 DEF Writing, Deprecated
  <2> QED
    BY <1>5, <2>2 DEF ToSet, Supersedes
<1>6. CASE p = "ignition_cut_v17"
  <2>1. "ignition" \in DOMAIN Edits[p]
    BY <1>6 DEF Edits
  <2>2. q = "ignition_cut_v18"
    BY <1>1, <2>1 DEF Writing, Deprecated
  <2> QED
    BY <1>6, <2>2 DEF ToSet, Supersedes
<1>7. CASE p = "launch_control_v17"
  <2>1. "launch" \in DOMAIN Edits[p]
    BY <1>7 DEF Edits
  <2>2. q = "launch_control_v18"
    BY <1>1, <2>1 DEF Writing, Deprecated
  <2> QED
    BY <1>7, <2>2 DEF ToSet, Supersedes
<1> QED
  BY <1>2, <1>3, <1>4, <1>5, <1>6, <1>7 DEF Deprecated, Retired

(* A composition keeps every patch of its base or one that supersedes it.  *)
LEMMA BuildHolds ==
    ASSUME NEW from \in Flashes, NEW ids \in SUBSET (Patches \ Deprecated), Along(from, ids),
           NEW marker \in Markers, BuildOf(from, ids, marker) # NoImage,
           NEW p \in Patches \ {Retired}, is_applied(from, p)
    PROVE  is_applied(BuildOf(from, ids, marker), p) \/ SupersededBy(ids, p)
<1> DEFINE out == BuildOf(from, ids, marker)
<1>1. Composes(out, from, ids)
  BY BuiltCells
<1> HIDE DEF out
<1> SUFFICES ASSUME ~SupersededBy(ids, p), ~is_applied(out, p) PROVE FALSE
  BY DEF out
<1>2. Prepared(from, ids) # NoImage
  BY <1>1, CellValues DEF Composes
<1>3. is_applied(Prepared(from, ids), p)
  BY <1>2, PreparedKeeps
<1>4. PICK q \in ids : p \in Deprecated /\ DOMAIN Edits[p] \subseteq DOMAIN Edits[q]
  BY <1>1, <1>3 DEF Composes
<1>5. p \in ToSet(Supersedes(q))
  BY <1>4, Displaced
<1> QED
  BY <1>5 DEF SupersededBy

(* What a composition has besides its patches was in its base.             *)
LEMMA BuildBrings ==
    ASSUME NEW from \in Flashes, NEW ids \in SUBSET (Patches \ Deprecated), Along(from, ids),
           NEW marker \in Markers, BuildOf(from, ids, marker) # NoImage,
           NEW p \in Patches \ {Retired}, p \notin ids,
           "marker" \notin DOMAIN Edits[p], is_applied(BuildOf(from, ids, marker), p)
    PROVE  is_applied(from, p)
<1> DEFINE out == BuildOf(from, ids, marker)
           clean == Prepared(from, ids)
           start == Started(from, ids)
<1>1. Composes(out, from, ids)
  BY BuiltCells
<1>2. clean \in Remains(start) /\ start \in Flashes
  <2>1. clean # NoImage
    BY <1>1, CellValues DEF Composes
  <2> QED
    BY <2>1, PreparedRemains, StartedCells
<1>3. /\ \A c \in Cells \ {"startup", "body"} : start[c] = from[c]
      /\ start["body"] = from["body"] \/ is_applied(start, "cal_guard_v5")
  BY StartedCells
<1>4. "softbsl_loader" \in ids /\ is_applied(start, "cal_guard_v5") => "cal_guard" \in ids
  BY DEF Along
<1> HIDE DEF out, start
<1>5. ASSUME NEW q \in ids, is_applied(out, p) PROVE DOMAIN Edits[p] \cap DOMAIN Edits[q] = {}
  <2>1. q \in Patches \ {Retired} /\ q # p /\ is_applied(out, q)
    BY <1>1, RetiredTwin DEF Composes
  <2> QED
    BY <1>5, <2>1, Apart
<1>6. \A c \in DOMAIN Edits[p] : clean[c] = out[c] /\ c \in Code \ {"startup"}
  <2> SUFFICES ASSUME NEW c \in DOMAIN Edits[p] PROVE clean[c] = out[c] /\ c \in Code \ {"startup"}
    OBVIOUS
  <2>1. c \in Code \ {"marker", "startup"}
    BY Stated
  <2>2. \A q \in ids : c \notin DOMAIN Edits[q]
    BY <1>5 DEF out
  <2> QED
    BY <1>1, <2>1, <2>2 DEF Composes
<1> HIDE DEF clean
<1>7. is_applied(clean, p)
  BY <1>6 DEF is_applied, Holds, out
<1>8. is_applied(start, p)
  BY <1>2, <1>7, RemainsApplied
<1>9. CASE p # "cal_guard_v5"
  <2>1. "body" \notin DOMAIN Edits[p]
    BY <1>9, WrittenBy DEF Writing
  <2>2. \A c \in DOMAIN Edits[p] : start[c] = from[c]
    BY <1>3, <1>6, <2>1, CellSets
  <2> QED
    BY <1>8, <2>2 DEF is_applied, Holds
<1>10. CASE p = "cal_guard_v5"
  <2>1. "cal_guard" \notin ids
    <3> SUFFICES ASSUME "cal_guard" \in ids PROVE FALSE
      OBVIOUS
    <3>1. DOMAIN Edits[p] \cap DOMAIN Edits["cal_guard"] = {}
      BY <1>5 DEF out
    <3>2. "guard" \in DOMAIN Edits[p] /\ "guard" \in DOMAIN Edits["cal_guard"]
      BY <1>10 DEF Edits
    <3> QED
      BY <3>1, <3>2
  <2>2. "softbsl_loader" \notin ids
    BY <1>4, <1>8, <1>10, <2>1
  <2>3. start = Unwaited(from, ids)
    BY <2>1, <2>2 DEF Started, start
  <2>4. start["body"] = from["body"]
    BY <2>3, CellSets DEF Unwaited, Flashes
  <2>5. \A c \in DOMAIN Edits[p] : start[c] = from[c]
    BY <1>3, <1>6, <2>4, CellSets
  <2> QED
    BY <1>8, <2>5 DEF is_applied, Holds
<1> QED
  BY <1>9, <1>10

(* The requirements of a patch are met in an image.                        *)
Met(i, p) == \A r \in Requires(p) : Covered(i, r)

LEMMA MetMissing ==
    ASSUME NEW i, NEW p
    PROVE  MissingIn(InstalledIn(i), p) = {} <=> Met(i, p)
  BY MissingCovered DEF Met

(* What an image keeps of another: a patch stays or one that supersedes it *)
(* comes, and a requirement that is met stays so.                          *)
Continued(j, p) ==
    \/ is_applied(j, p)
    \/ \E q \in Patches \ Deprecated : p \in ToSet(Supersedes(q)) /\ is_applied(j, q)
KeepsMet(i, j) ==
    \A p \in Patches \ {Retired} :
        is_applied(j, p) => Met(j, p) \/ (is_applied(i, p) /\ ~Met(i, p))

(* What meets a requirement of a current patch goes on meeting it.         *)
LEMMA CoveredStill ==
    ASSUME NEW i, NEW j, NEW r \in Patches \ Deprecated, Covered(i, r),
           \A p \in Patches \ {Retired} :
               is_applied(i, p) /\ p \in {r, "amd_flash_v4"} => Continued(j, p)
    PROVE  Covered(j, r)
<1>1. CASE is_applied(i, r)
  <2>1. Continued(j, r)
    BY <1>1, RetiredTwin
  <2>2. is_applied(j, r)
    BY <2>1, Revisions DEF Continued
  <2> QED
    BY <2>2 DEF Covered
<1>2. CASE ~is_applied(i, r)
  <2>1. r = "amd_flash" /\ is_applied(i, "amd_flash_v4")
    BY <1>2 DEF Covered
  <2>2. Continued(j, "amd_flash_v4")
    BY <2>1, RetiredTwin
  <2>3. \A q \in Patches \ Deprecated : "amd_flash_v4" \in ToSet(Supersedes(q)) => q = "amd_flash"
    BY DEF ToSet, Supersedes
  <2> QED
    BY <2>1, <2>2, <2>3 DEF Continued, Covered
<1> QED
  BY <1>1, <1>2

LEMMA BuildMet ==
    ASSUME NEW from \in Flashes, NEW ids \in SUBSET (Patches \ Deprecated),
           NEW marker \in Markers, BuildOf(from, ids, marker) # NoImage, NEW p \in ids
    PROVE  Met(BuildOf(from, ids, marker), p)
<1> DEFINE out == BuildOf(from, ids, marker)
           clean == Prepared(from, ids)
<1>1. Composes(out, from, ids)
  BY BuiltCells
<1>2. Admissible(from, ids, clean)
  BY DEF BuildOf, BuildFrom
<1> HIDE DEF out
<1> SUFFICES ASSUME NEW r \in Requires(p) PROVE Covered(out, r)
  BY DEF Met, out
<1>3. RequirementMet(clean, ids, r)
  BY <1>2 DEF Admissible
<1>4. r \in Patches \ {Retired} /\ r \notin Deprecated
  BY Needed, Revisions
<1>5. ASSUME NEW q \in Patches \ {Retired}, is_applied(clean, q)
      PROVE  \/ is_applied(out, q)
             \/ q \in Deprecated /\ \E h \in ids : q \in ToSet(Supersedes(h))
  BY <1>1, <1>5, Displaced DEF Composes
<1>6. CASE r \in ids
  BY <1>1, <1>6 DEF Composes, Covered
<1>7. CASE is_applied(clean, r)
  BY <1>4, <1>5, <1>7 DEF Covered
<1>8. CASE r = "amd_flash" /\ \E old \in ToSet(Supersedes(r)) : is_applied(clean, old)
  <2>1. ToSet(Supersedes("amd_flash")) = {"amd_flash_v4", Retired}
    BY DEF ToSet, Supersedes, Retired
  <2>2. is_applied(clean, "amd_flash_v4")
    BY <1>8, <2>1, RetiredTwin
  <2>3. \A h \in ids : "amd_flash_v4" \in ToSet(Supersedes(h)) => h = "amd_flash"
    BY DEF ToSet, Supersedes, Deprecated
  <2>4. is_applied(out, "amd_flash_v4") \/ "amd_flash" \in ids
    BY <1>5, <2>2, <2>3, RetiredTwin
  <2>5. "amd_flash" \in ids => is_applied(out, "amd_flash")
    BY <1>1 DEF Composes
  <2> QED
    BY <1>8, <2>4, <2>5 DEF Covered
<1> QED
  BY <1>3, <1>6, <1>7, <1>8 DEF RequirementMet

LEMMA BuildKeepsMet ==
    ASSUME NEW from \in Flashes, NEW ids \in SUBSET (Patches \ Deprecated), Along(from, ids),
           NEW marker \in Markers, BuildOf(from, ids, marker) # NoImage
    PROVE  KeepsMet(from, BuildOf(from, ids, marker))
<1> DEFINE out == BuildOf(from, ids, marker)
<1>1. Composes(out, from, ids)
  BY BuiltCells
<1> HIDE DEF out
<1> SUFFICES ASSUME NEW p \in Patches \ {Retired}, is_applied(out, p)
             PROVE  Met(out, p) \/ (is_applied(from, p) /\ ~Met(from, p))
  BY DEF KeepsMet, out
<1>2. CASE p \in ids
  BY <1>2, BuildMet DEF out
<1>3. CASE p \notin ids /\ "marker" \in DOMAIN Edits[p]
  <2>1. Requires(p) = {}
    BY <1>3, Needed
  <2> QED
    BY <2>1 DEF Met
<1>4. CASE p \notin ids /\ "marker" \notin DOMAIN Edits[p]
  <2>1. is_applied(from, p)
    BY <1>4, BuildBrings DEF out
  <2> SUFFICES ASSUME Met(from, p), NEW r \in Requires(p) PROVE Covered(out, r)
    BY <2>1 DEF Met
  <2>2. Covered(from, r) /\ r \in Patches \ {Retired}
    BY Needed DEF Met
  <2>3. ASSUME NEW q \in Patches \ {Retired}, is_applied(from, q)
        PROVE  is_applied(out, q) \/ SupersededBy(ids, q)
    BY <2>3, BuildHolds DEF out
  <2>4. CASE r \notin Deprecated
    <3>1. \A q \in Patches \ {Retired} : is_applied(from, q) => Continued(out, q)
      BY <1>1, <2>3 DEF SupersededBy, Composes, Continued
    <3> QED
      BY <2>2, <2>4, <3>1, CoveredStill
  <2>5. CASE p = "cal_guard_v5" /\ r = "softbsl_loader_v11"
    <3>1. is_applied(from, r)
      BY <2>2, <2>5 DEF Covered
    <3>2. SupersededBy(ids, r) => "softbsl_loader" \in ids
      BY <2>5 DEF SupersededBy, ToSet, Supersedes
    <3>3. "softbsl_loader" \notin ids
      <4> SUFFICES ASSUME "softbsl_loader" \in ids PROVE FALSE
        OBVIOUS
      <4>1. is_applied(Started(from, ids), p)
        BY <2>1, StartedCells
      <4>2. "cal_guard" \in ids
        BY <2>5, <4>1 DEF Along
      <4>3. is_applied(out, "cal_guard") /\ "cal_guard" \in Patches \ {Retired}
        BY <1>1, <4>2 DEF Composes, Retired
      <4>4. DOMAIN Edits[p] \cap DOMAIN Edits["cal_guard"] = {}
        BY <2>5, <4>3, Apart
      <4>5. "guard" \in DOMAIN Edits[p] /\ "guard" \in DOMAIN Edits["cal_guard"]
        BY <2>5 DEF Edits
      <4> QED
        BY <4>4, <4>5
    <3> QED
      BY <2>2, <2>3, <3>1, <3>2, <3>3 DEF Covered
  <2>6. CASE p = "launch_control_v17" /\ r = "ignition_cut_v17"
    <3>1. is_applied(from, r)
      BY <2>2, <2>6 DEF Covered
    <3>2. SupersededBy(ids, r) => "ignition_cut_v18" \in ids
      BY <2>6 DEF SupersededBy, ToSet, Supersedes
    <3>3. "ignition_cut_v18" \notin ids
      <4> SUFFICES ASSUME "ignition_cut_v18" \in ids PROVE FALSE
        OBVIOUS
      <4>2. "launch_control_v18" \in ids
        BY <2>1, <2>6 DEF Along
      <4>3. is_applied(out, "launch_control_v18") /\ "launch_control_v18" \in Patches \ {Retired}
        BY <1>1, <4>2 DEF Composes, Retired
      <4>4. DOMAIN Edits[p] \cap DOMAIN Edits["launch_control_v18"] = {}
        BY <2>6, <4>3, Apart
      <4>5. "launch" \in DOMAIN Edits[p] /\ "launch" \in DOMAIN Edits["launch_control_v18"]
        BY <2>6 DEF Edits
      <4> QED
        BY <4>4, <4>5
    <3> QED
      BY <2>2, <2>3, <3>1, <3>2, <3>3 DEF Covered
  <2> QED
    BY <2>4, <2>5, <2>6, Needed
<1> QED
  BY <1>2, <1>3, <1>4

(* What is selected besides goes along as the composition needs it.        *)
LEMMA ResolvedAlong ==
    ASSUME NEW from \in Flashes, NEW sel
    PROVE  Along(from, Resolved(from, sel))
<1> DEFINE s == sel \cup LaunchSuccessor(from, sel)
           ids == Resolved(from, sel)
           normal == restore_missing_calguard_v5_body(from)
           still == Unwaited(from, ids)
<1>1. /\ s \subseteq ids /\ ids \subseteq s \cup {"cal_guard", "amd_flash"}
      /\ "softbsl_loader" \in s /\ is_applied(normal, "cal_guard_v5") => "cal_guard" \in ids
  BY DEF Resolved, with_startup_wait
<1>2. LaunchSuccessor(from, sel) \subseteq {"launch_control_v18"}
  BY DEF LaunchSuccessor
<1>3. ASSUME "ignition_cut_v18" \in ids, is_applied(from, "launch_control_v17")
      PROVE  "launch_control_v18" \in ids
  <2>1. "ignition_cut_v18" \in sel
    BY <1>1, <1>2, <1>3
  <2>2. "launch_control_v18" \in s
    BY <1>3, <2>1 DEF LaunchSuccessor
  <2> QED
    BY <1>1, <2>2
<1>4. ASSUME "softbsl_loader" \in ids, is_applied(Started(from, ids), "cal_guard_v5")
      PROVE  "cal_guard" \in ids
  <2>1. "softbsl_loader" \in s
    BY <1>1, <1>4
  <2>2. is_applied(restore_missing_calguard_v5_body(still), "cal_guard_v5")
    BY <1>4 DEF Started
  <2>3. still \in Flashes /\ \A c \in Cells \ {"startup"} : still[c] = from[c]
    BY Unstarted DEF Unwaited
  <2> HIDE DEF still
  <2>4. {"guard", "hook", "body", "loader", "crc", "marker"} \subseteq Cells \ {"startup"}
    BY DEF Cells, Code, BootCells
  <2>5. is_applied(normal, "cal_guard_v5")
    <3>1. \A i : is_applied(i, "cal_guard_v5")
                   <=> i["guard"] = "G5" /\ i["hook"] = "G5" /\ i["body"] = "G5"
      BY DEF is_applied, Holds, BankMarker, Edits
    <3>2. is_applied(still, "softbsl_loader_v11") <=> is_applied(from, "softbsl_loader_v11")
      BY <2>3, <2>4 DEF is_applied, Holds, BankMarker, Edits
    <3>3. restore_missing_calguard_v5_body(still)["body"] = normal["body"]
      BY <2>3, <2>4, <3>2 DEF restore_missing_calguard_v5_body, Flashes
    <3>4. \A c \in {"guard", "hook"} :
             restore_missing_calguard_v5_body(still)[c] = still[c] /\ normal[c] = from[c]
      BY <2>3, <2>4, Restored
    <3> HIDE DEF normal
    <3> QED
      BY <2>2, <2>3, <2>4, <3>1, <3>3, <3>4
  <2> QED
    BY <1>1, <2>1, <2>5
<1> QED
  BY <1>3, <1>4 DEF Along

(* A patch has one current successor.                                      *)
LEMMA OneHeir ==
    ASSUME NEW p \in Patches \ Deprecated, NEW q \in Patches \ Deprecated,
           NEW old \in ToSet(Supersedes(p)), old \in ToSet(Supersedes(q))
    PROVE  p = q
<1>1. ASSUME NEW d \in Patches \ Deprecated, old \in ToSet(Supersedes(d))
      PROVE  \/ d = "softbsl_loader" /\ old = "softbsl_loader_v11"
             \/ d = "cal_guard" /\ old = "cal_guard_v5"
             \/ d = "amd_flash" /\ old \in {"amd_flash_v4", "amd_flash_v3"}
             \/ d = "alphan_failsafe" /\ old = "alphan_failsafe_v2"
             \/ d = "ignition_cut_v18" /\ old = "ignition_cut_v17"
             \/ d = "launch_control_v18" /\ old = "launch_control_v17"
  BY <1>1 DEF ToSet, Supersedes, Deprecated
<1>2. \/ p = "softbsl_loader" /\ old = "softbsl_loader_v11"
      \/ p = "cal_guard" /\ old = "cal_guard_v5"
      \/ p = "amd_flash" /\ old \in {"amd_flash_v4", "amd_flash_v3"}
      \/ p = "alphan_failsafe" /\ old = "alphan_failsafe_v2"
      \/ p = "ignition_cut_v18" /\ old = "ignition_cut_v17"
      \/ p = "launch_control_v18" /\ old = "launch_control_v17"
  BY <1>1
<1>3. \/ q = "softbsl_loader" /\ old = "softbsl_loader_v11"
      \/ q = "cal_guard" /\ old = "cal_guard_v5"
      \/ q = "amd_flash" /\ old \in {"amd_flash_v4", "amd_flash_v3"}
      \/ q = "alphan_failsafe" /\ old = "alphan_failsafe_v2"
      \/ q = "ignition_cut_v18" /\ old = "ignition_cut_v17"
      \/ q = "launch_control_v18" /\ old = "launch_control_v17"
  BY <1>1
<1> QED
  BY <1>2, <1>3

(* A feature stays when each of its revisions goes on.                     *)
LEMMA FeatureStays ==
    ASSUME NEW i, NEW j, NEW p \in Patches \ Deprecated, Has(InstalledIn(i), p),
           \A q \in Patches \ {Retired} : is_applied(i, q) /\ q \in Feature(p) => Continued(j, q)
    PROVE  Has(InstalledIn(j), p)
<1>1. PICK f \in Feature(p) : f \in Patches /\ is_applied(i, f)
  BY DEF Has, InstalledIn
<1>2. PICK q \in Feature(p) : q \in Patches \ {Retired} /\ is_applied(i, q)
  <2>1. CASE f # Retired
    BY <1>1, <2>1
  <2>2. CASE f = Retired
    <3>1. p = "amd_flash"
      BY <1>1, <2>2, RetiredTwin DEF Feature, ToSet, Supersedes, Deprecated, Retired
    <3>2. "amd_flash_v4" \in Feature(p)
      BY <3>1 DEF Feature, ToSet, Supersedes
    <3> QED
      BY <1>1, <2>2, <3>2, RetiredTwin
  <2> QED
    BY <2>1, <2>2
<1>3. Continued(j, q)
  BY <1>2
<1>4. CASE is_applied(j, q)
  BY <1>2, <1>4 DEF Has, InstalledIn
<1>5. CASE ~is_applied(j, q)
  <2>1. PICK h \in Patches \ Deprecated : q \in ToSet(Supersedes(h)) /\ is_applied(j, h)
    BY <1>3, <1>5 DEF Continued
  <2>2. q \in ToSet(Supersedes(p))
    BY <1>2, <2>1, Revisions DEF Feature
  <2>3. h = p
    BY <2>1, <2>2, OneHeir
  <2> QED
    BY <2>1, <2>3 DEF Has, InstalledIn, Feature
<1> QED
  BY <1>4, <1>5

(* A composition keeps its base: every patch goes on, a met requirement    *)
(* stays so, and a setting changes from erased when its feature is new.    *)
SettingKept(i, j, p) ==
    \/ j[Setting[p]] = i[Setting[p]]
    \/ i[Setting[p]] = "ff" /\ j[Setting[p]] = "initial"
Keeps(i, j) ==
    /\ j \in Flashes
    /\ \A p \in Patches \ {Retired} : is_applied(i, p) => Continued(j, p)
    /\ KeepsMet(i, j)
    /\ \A p \in Tunables : SettingKept(i, j, p)

LEMMA KeepsItself ==
    ASSUME NEW i \in Flashes
    PROVE  Keeps(i, i)
  BY DEF Keeps, Continued, KeepsMet, SettingKept

LEMMA BuildOfKeeps ==
    ASSUME NEW from \in Flashes, NEW ids \in SUBSET (Patches \ Deprecated), Along(from, ids),
           NEW marker \in Markers, BuildOf(from, ids, marker) # NoImage
    PROVE  Keeps(from, BuildOf(from, ids, marker))
<1> DEFINE out == BuildOf(from, ids, marker)
<1>1. Composes(out, from, ids)
  BY BuiltCells
<1>2. KeepsMet(from, out)
  BY BuildKeepsMet
<1>3. ASSUME NEW p \in Tunables PROVE SettingKept(from, out, p)
  <2>1. out[Setting[p]] = Expected(from, ids, p)
    BY EngineBuilt
  <2> QED
    BY <2>1 DEF SettingKept, Expected
<1>4. ASSUME NEW p \in Patches \ {Retired}, is_applied(from, p) PROVE Continued(out, p)
  <2>1. is_applied(out, p) \/ SupersededBy(ids, p)
    BY <1>4, BuildHolds
  <2> HIDE DEF out
  <2> QED
    BY <1>1, <2>1 DEF SupersededBy, Composes, Continued
<1> QED
  BY <1>1, <1>2, <1>3, <1>4 DEF Keeps, Composes

LEMMA BuildKept ==
    ASSUME NEW from \in Flashes, NEW sel \in SUBSET Patches, NEW marker \in Markers,
           build(from, sel, marker) # NoImage
    PROVE  /\ Keeps(from, build(from, sel, marker))
           /\ \A p \in sel : is_applied(build(from, sel, marker), p)
<1> DEFINE ids == Resolved(from, sel)
<1>1. sel \cap Deprecated = {} /\ build(from, sel, marker) = BuildOf(from, ids, marker)
  BY DEF build
<1>2. ids \in SUBSET (Patches \ Deprecated) /\ sel \subseteq ids
  BY <1>1, ResolvedPatches
<1>3. Along(from, ids)
  BY ResolvedAlong
<1> HIDE DEF ids
<1>4. BuildOf(from, ids, marker) # NoImage
  BY <1>1
<1>5. Keeps(from, BuildOf(from, ids, marker))
  BY <1>2, <1>3, <1>4, BuildOfKeeps
<1>6. Composes(BuildOf(from, ids, marker), from, ids)
  BY <1>2, <1>4, BuiltCells
<1> QED
  BY <1>1, <1>2, <1>5, <1>6 DEF Composes

(* Every patch writes something.                                           *)
LEMMA WritesSomething ==
    ASSUME NEW p \in Patches
    PROVE  DOMAIN Edits[p] # {}
<1>1. "loader" \in DOMAIN Edits["softbsl_loader"] /\ "loader" \in DOMAIN Edits["softbsl_loader_v11"]
  BY DEF Edits
<1>2. "guard" \in DOMAIN Edits["cal_guard"] /\ "guard" \in DOMAIN Edits["cal_guard_v5"]
  BY DEF Edits
<1>3. /\ "driver" \in DOMAIN Edits["amd_flash"] /\ "driver" \in DOMAIN Edits["amd_flash_v4"]
      /\ "driver" \in DOMAIN Edits["amd_flash_v3"]
  BY DEF Edits
<1>4. "top" \in DOMAIN Edits["top_ds2_guard"] /\ "door" \in DOMAIN Edits["door_magic"]
  BY DEF Edits
<1>5. /\ "cave" \in DOMAIN Edits["door_0x43"] /\ "cave" \in DOMAIN Edits["alphan_failsafe"]
      /\ "cave" \in DOMAIN Edits["alphan_failsafe_v2"]
  BY DEF Edits
<1>6. /\ "ignition" \in DOMAIN Edits["ignition_cut_v18"]
      /\ "ignition" \in DOMAIN Edits["ignition_cut_v17"]
      /\ "launch" \in DOMAIN Edits["launch_control_v18"]
      /\ "launch" \in DOMAIN Edits["launch_control_v17"]
  BY DEF Edits
<1> QED
  BY <1>1, <1>2, <1>3, <1>4, <1>5, <1>6, PatchNames

(* A removal: what is not a dependent keeps its requirements.              *)
LEMMA RemovalKeepsMet ==
    ASSUME NEW from \in Flashes, NEW p \in Patches \ {Retired}, revert_patch(from, p) # NoImage
    PROVE  KeepsMet(from, revert_patch(from, p))
<1> DEFINE bare == revert(from, p)
           settled == Settled(from, p, bare)
           out == revert_patch(from, p)
<1>1. is_applied(from, p) /\ out = Remarked(from, settled)
         /\ _dependent_ids(InstalledIn(from), p) = {}
  BY DEF revert_patch
<1>2. bare \in Flashes
  BY RevertTyped
<1> HIDE DEF bare
<1>3. settled \in {bare, [bare EXCEPT !["startup"] = "-"]}
  BY DEF Settled
<1>4. settled \in Flashes
  BY <1>2, <1>3, SetCell, CellSets, CellValues
<1> HIDE DEF settled
<1>5. out \in {settled, [settled EXCEPT !["marker"] = "T"]}
  <2>1. BuildOf(settled, {}, "T") \in {NoImage, [settled EXCEPT !["marker"] = "T"]}
    BY <1>4, OnlyMarked
  <2> QED
    BY <1>1, <2>1 DEF Remarked
<1> HIDE DEF out
<1>6. \A c \in Cells \ {"startup", "marker"} : out[c] = bare[c]
  BY <1>2, <1>3, <1>4, <1>5 DEF Flashes
<1>7. out["marker"] \in {bare["marker"], "T"}
  BY <1>2, <1>3, <1>4, <1>5, CellSets DEF Flashes
<1>8. \A c \in Cells : bare[c] = IF c \in DOMAIN Edits[p] THEN "-" ELSE from[c]
  BY DEF bare, revert
<1>9. ASSUME NEW q \in Patches \ {Retired}, is_applied(from, q), q # p PROVE is_applied(out, q)
  <2>1. DOMAIN Edits[q] \cap DOMAIN Edits[p] = {}
    BY <1>1, <1>9, Apart
  <2> SUFFICES ASSUME NEW c \in DOMAIN Edits[q] PROVE Holds(out, q, c)
    BY DEF is_applied
  <2>2. c \in Code \ {"startup"} /\ c \notin DOMAIN Edits[p] /\ Holds(from, q, c)
    BY <1>9, <2>1, Stated DEF is_applied
  <2>3. CASE c # "marker"
    <3>1. out[c] = from[c]
      BY <1>6, <1>8, <2>2, <2>3, CellSets
    <3> QED
      BY <2>2, <3>1 DEF Holds
  <2>4. CASE c = "marker"
    <3>1. BankMarker(q, c)
      BY <2>4, WrittenBy DEF BankMarker, Writing
    <3>2. bare["marker"] = from["marker"]
      BY <1>8, <2>2, <2>4, CellSets
    <3> QED
      BY <1>7, <2>2, <2>4, <3>1, <3>2 DEF Holds
  <2> QED
    BY <2>3, <2>4
<1> SUFFICES ASSUME NEW q \in Patches \ {Retired}, is_applied(out, q)
             PROVE  Met(out, q) \/ (is_applied(from, q) /\ ~Met(from, q))
  BY DEF KeepsMet, out
<1>10. CASE "marker" \in DOMAIN Edits[q]
  <2>1. Requires(q) = {}
    BY <1>10, Needed
  <2> QED
    BY <2>1 DEF Met
<1>11. CASE "marker" \notin DOMAIN Edits[q]
  <2>1. \A c \in DOMAIN Edits[q] : /\ c \in Cells \ {"startup", "marker"}
                                    /\ Edits[q][c] # "-" /\ out[c] = Edits[q][c]
    BY <1>11, Stated, CellSets DEF is_applied, Holds, BankMarker
  <2>2. \A c \in DOMAIN Edits[q] : c \notin DOMAIN Edits[p] /\ out[c] = from[c]
    BY <1>6, <1>8, <2>1
  <2>3. is_applied(from, q)
    BY <2>1, <2>2 DEF is_applied, Holds
  <2>4. q # p
    BY <2>2, WritesSomething
  <2>5. q \in Effective(InstalledIn(from)) \ {p}
    BY <2>3, <2>4, EffectiveIn
  <2> SUFFICES ASSUME NEW r \in Requires(q), Covered(from, r) PROVE Covered(out, r)
    BY <2>3 DEF Met
  <2>6. ~_installed_revision_satisfies(r, p)
    BY <1>1, <2>5 DEF _dependent_ids
  <2>7. r # p /\ p \notin ToSet(Supersedes(r)) /\ r \in Patches \ {Retired}
    BY <2>6, Needed DEF _installed_revision_satisfies
  <2>8. r = "amd_flash" => p # "amd_flash_v4"
    BY <2>7 DEF ToSet, Supersedes
  <2> QED
    BY <1>9, <2>7, <2>8, RetiredTwin DEF Covered
<1> QED
  BY <1>10, <1>11

(* Reverting some exact patches keeps the others.                          *)
LEMMA RevertExactKeeps ==
    ASSUME NEW image \in Flashes, NEW ps \in SUBSET (Patches \ {Retired}),
           NEW p \in Patches \ {Retired}, p \notin ps, is_applied(image, p)
    PROVE  is_applied(RevertExact(image, ps), p)
<1> DEFINE V == {i \in Flashes : is_applied(i, p)}
<1>1. image \in V /\ IsFiniteSet(ps)
  BY FinitePatches
<1>2. ASSUME NEW q \in ps, NEW i \in V PROVE (IF is_applied(i, q) THEN revert(i, q) ELSE i) \in V
  <2>1. q \in Patches /\ p # q /\ q # Retired
    OBVIOUS
  <2>2. is_applied(i, q) => is_applied(revert(i, q), p) /\ revert(i, q) \in Flashes
    BY <2>1, StaysApplied, RevertTyped
  <2> QED
    BY <2>2
<1> HIDE DEF V
<1>3. RevertExact(image, ps) \in V
  BY <1>1, <1>2, RevertFold
<1> QED
  BY <1>3 DEF V

(* A marker that is set back changes nothing of what is installed.         *)
LEMMA Rebanked ==
    ASSUME NEW from \in Flashes, NEW set
    PROVE  LET start == IF set /\ from["marker"] \in {"B", "T"}
                        THEN [from EXCEPT !["marker"] = "B"] ELSE from
           IN /\ start \in Flashes /\ \A c \in Cells \ {"marker"} : start[c] = from[c]
              /\ \A p \in Patches : is_applied(start, p) <=> is_applied(from, p)
<1> DEFINE start == IF set /\ from["marker"] \in {"B", "T"}
                    THEN [from EXCEPT !["marker"] = "B"] ELSE from
<1>1. /\ start \in Flashes /\ \A c \in Cells \ {"marker"} : start[c] = from[c]
      /\ \/ start["marker"] = from["marker"]
         \/ {start["marker"], from["marker"]} \subseteq {"B", "T"}
  BY SetCell, CellSets, CellValues DEF Flashes
<1> HIDE DEF start
<1>2. ASSUME NEW p \in Patches PROVE is_applied(start, p) <=> is_applied(from, p)
  <2> SUFFICES ASSUME NEW c \in DOMAIN Edits[p] PROVE Holds(start, p, c) <=> Holds(from, p, c)
    BY DEF is_applied
  <2>1. CASE c = "marker"
    <3>1. BankMarker(p, c)
      BY <2>1, WrittenBy DEF BankMarker, Writing
    <3> QED
      BY <1>1, <2>1, <3>1 DEF Holds
  <2>2. CASE c # "marker"
    <3>1. start[c] = from[c]
      BY <1>1, <2>2, PatchCells, CellSets
    <3> QED
      BY <3>1 DEF Holds, BankMarker
  <2> QED
    BY <2>1, <2>2
<1> QED
  BY <1>1, <1>2 DEF start

(* What is composed onto a base has its patches, and keeps it.             *)
LEMMA PlanKept ==
    ASSUME NEW from \in Flashes, NEW ps \in SUBSET (Patches \ Deprecated), NEW marker \in Markers,
           _compose_image(from, ps, marker) # NoImage
    PROVE  /\ Keeps(from, _compose_image(from, ps, marker))
           /\ \A p \in ps : is_applied(_compose_image(from, ps, marker), p)
<1> DEFINE ids == with_startup_wait(from, ps)
           missing == Missing(from, ids)
           start == IF marker # "" /\ "softbsl_loader" \in ids /\ from["marker"] \in {"B", "T"}
                    THEN [from EXCEPT !["marker"] = "B"] ELSE from
           out == _compose_image(from, ps, marker)
<1>1. ids \in SUBSET Patches /\ ps \subseteq ids
  BY PatchNames DEF with_startup_wait
<1> HIDE DEF ids
<1>2. missing \in SUBSET Patches /\ \A p \in ids \ missing : is_applied(from, p)
  BY <1>1 DEF Missing
<1>3. out = IF missing = {} /\ marker = "" THEN from ELSE build(start, missing, marker)
  BY DEF _compose_image, ComposeWith, ComposeOf, ids
<1> HIDE DEF missing, out
<1>4. /\ start \in Flashes /\ \A c \in Cells \ {"marker"} : start[c] = from[c]
      /\ \A p \in Patches : is_applied(start, p) <=> is_applied(from, p)
  BY Rebanked
<1> HIDE DEF start
<1>5. \A p \in Patches : is_applied(start, p) <=> is_applied(from, p)
  BY <1>4
<1>6. Keeps(from, out)
  <2>1. CASE missing = {} /\ marker = ""
    BY <1>3, <2>1, KeepsItself
  <2>2. CASE ~(missing = {} /\ marker = "")
    <3>1. out = build(start, missing, marker)
      BY <1>3, <2>2
    <3>2. Keeps(start, out)
      BY <1>2, <1>4, <3>1, BuildKept DEF out
    <3>3. \A p \in Patches : Met(start, p) <=> Met(from, p)
      BY <1>5, Needed, PatchNames DEF Met, Covered
    <3>4. \A p \in Tunables : start[Setting[p]] = from[Setting[p]]
      BY <1>4, EngineApplied, CellSets
    <3>5. KeepsMet(from, out)
      BY <1>5, <3>2, <3>3 DEF Keeps, KeepsMet
    <3> QED
      BY <1>5, <3>2, <3>4, <3>5 DEF Keeps, SettingKept
  <2> QED
    BY <2>1, <2>2
<1>7. ASSUME NEW p \in ps PROVE is_applied(out, p)
  <2>1. CASE p \in missing
    <3>1. out = build(start, missing, marker)
      BY <1>3, <2>1
    <3> QED
      BY <1>2, <1>4, <2>1, <3>1, BuildKept DEF out
  <2>2. CASE p \notin missing
    <3>1. is_applied(from, p) /\ p \in Patches \ {Retired}
      BY <1>1, <1>2, <2>2, RetiredTwin
    <3>2. Continued(out, p)
      BY <1>6, <3>1 DEF Keeps
    <3> QED
      BY <3>2, Revisions DEF Continued
  <2> QED
    BY <2>1, <2>2
<1> QED
  BY <1>6, <1>7 DEF out

LEMMA BootSuccessors ==
    /\ "softbsl_loader_v11" \in ToSet(Supersedes("softbsl_loader"))
    /\ "cal_guard_v5" \in ToSet(Supersedes("cal_guard"))
  BY DEF ToSet, Supersedes

(* The installer's target: only the temporary door goes, and the TOP guard *)
(* of an image that is not marked TOP or lacks its driver.                 *)
LEMMA TargetKept ==
    ASSUME NEW from \in Flashes, NEW amd, NEW guard, NEW alphan, NEW bank \in {"", "T"},
           compose_persistent_image(from, amd, guard, alphan, bank) # NoImage
    PROVE  LET out == compose_persistent_image(from, amd, guard, alphan, bank)
           IN /\ \A p \in Patches \ {Retired, "door_0x43"} :
                    is_applied(from, p)
                       /\ (p = "top_ds2_guard" => from["marker"] = "T" /\ Met(from, p))
                    => Continued(out, p)
              /\ KeepsMet(from, out)
              /\ \A p \in Tunables : SettingKept(from, out, p)
<1> DEFINE marker == IF bank = "" THEN MarkerIn(from) ELSE bank
           normal == restore_missing_calguard_v5_body(from)
           still == Unwaiting(normal)
           clean == Cleaned(still)
           g == guard \/ installed_calguard(normal)
           driver == IF amd /\ (\/ from["driver"] = "-"
                                \/ _patch_state(clean, "amd_flash", BootCells) = "legacy")
                     THEN {"amd_flash"} ELSE {}
           top == amd /\ marker = "T"
           ps == {"softbsl_loader", "door_magic"} \cup driver
                      \cup (IF g THEN {"cal_guard"} ELSE {})
                      \cup (IF alphan THEN {"alphan_failsafe"} ELSE {})
                      \cup (IF top THEN {"top_ds2_guard"} ELSE {})
           bare == RevertExact(clean, {"door_0x43"} \cup ps)
           plan == _persistent_patch_plan(from, amd, guard, alphan, marker)
           out == compose_persistent_image(from, amd, guard, alphan, bank)
<1>1. out = ComposePlan(plan, marker)
  BY DEF compose_persistent_image
<1>2. plan.base # NoImage
  BY <1>1 DEF ComposePlan
<1>3. plan = PlanFor(clean, g, alphan, top, driver) /\ BaseAdmissible(from, amd)
  <2>1. NoPlan.base = NoImage
    BY DEF NoPlan
  <2> QED
    BY <1>2, <2>1 DEF _persistent_patch_plan, PlanFrom
<1>4. plan.base = bare /\ plan.patches = ps
  <2>1. plan = PlanOf(clean, ps, driver)
    BY <1>3 DEF PlanFor
  <2> HIDE DEF plan, clean, ps, driver
  <2> QED
    BY <2>1 DEF PlanOf, Plan
<1>5. out = _compose_image(bare, ps, marker) /\ out # NoImage
  BY <1>1, <1>2, <1>4 DEF ComposePlan
<1> HIDE DEF plan, out
<1>6. marker \in Markers /\ (from["marker"] = "T" => marker = "T")
  BY DEF MarkerIn, Markers
<1>7. /\ normal \in Flashes /\ \A c \in Cells \ {"body"} : normal[c] = from[c]
      /\ normal["body"] = from["body"] \/ is_applied(normal, "cal_guard_v5")
      /\ \A p \in Patches : is_applied(from, p) => is_applied(normal, p)
  BY Restored
<1>8. /\ ps \in SUBSET (Patches \ Deprecated) /\ Retired \notin ps
      /\ {"softbsl_loader", "door_magic"} \subseteq ps
      /\ installed_calguard(normal) => "cal_guard" \in ps
      /\ amd /\ marker = "T" => "top_ds2_guard" \in ps
      /\ ps \subseteq {"softbsl_loader", "door_magic", "amd_flash", "cal_guard", "alphan_failsafe",
                       "top_ds2_guard"}
  BY PatchNames DEF Deprecated, Retired
<1> HIDE DEF marker, normal
<1>9. /\ still \in Flashes
      /\ \A p \in Patches \ {Retired} : is_applied(normal, p) <=> is_applied(still, p)
      /\ \A c \in Cells \ {"startup"} : still[c] = normal[c]
  BY <1>7, Unstarted DEF Unwaiting
<1> HIDE DEF still
<1>10. {"top_ds2_guard", "cal_guard_v5", "softbsl_loader_v11"} \in SUBSET (Patches \ {Retired})
  BY PatchNames DEF Retired
<1>11. clean \in Remains(still) /\ clean \in Flashes
  BY <1>9, <1>10, RevertExactRemains, RevertExactTyped DEF Cleaned
<1>12. \A p \in Patches \ {Retired, "top_ds2_guard", "cal_guard_v5", "softbsl_loader_v11"} :
          is_applied(still, p) => is_applied(clean, p)
  BY <1>9, <1>10, RevertExactKeeps DEF Cleaned
<1> HIDE DEF clean, ps
<1>13. {"door_0x43"} \cup ps \in SUBSET (Patches \ {Retired})
  BY <1>8, PatchNames DEF Retired
<1>14. bare \in Remains(clean) /\ bare \in Flashes
  BY <1>11, <1>13, RevertExactRemains, RevertExactTyped
<1>15. \A p \in Patches \ {Retired, "door_0x43"} :
          p \notin ps /\ is_applied(clean, p) => is_applied(bare, p)
  BY <1>11, <1>13, RevertExactKeeps
<1> HIDE DEF bare
<1>16. Keeps(bare, out) /\ \A p \in ps : is_applied(out, p)
  BY <1>5, <1>6, <1>8, <1>14, PlanKept
<1>17. ASSUME NEW p \in Patches \ {Retired, "door_0x43"}, is_applied(from, p),
              p = "top_ds2_guard" => from["marker"] = "T" /\ Met(from, p)
       PROVE  Continued(out, p)
  <2>1. is_applied(normal, p)
    BY <1>7, <1>17
  <2>2. CASE p \in ps
    BY <1>16, <2>2 DEF Continued
  <2>3. CASE p = "softbsl_loader_v11"
    <3>1. "softbsl_loader_v11" \in ToSet(Supersedes("softbsl_loader"))
      BY BootSuccessors
    <3>2. is_applied(out, "softbsl_loader") /\ "softbsl_loader" \in Patches \ Deprecated
      BY <1>8, <1>16
    <3> QED
      BY <2>3, <3>1, <3>2 DEF Continued
  <2>4. CASE p = "cal_guard_v5"
    <3>1. "cal_guard_v5" \in ToSet(Supersedes("cal_guard"))
      BY BootSuccessors
    <3>2. installed_calguard(normal)
      BY <2>1, <2>4 DEF installed_calguard
    <3>3. is_applied(out, "cal_guard") /\ "cal_guard" \in Patches \ Deprecated
      BY <1>8, <1>16, <3>2
    <3> QED
      BY <2>4, <3>1, <3>3 DEF Continued
  <2>5. CASE p = "top_ds2_guard"
    <3>1. Covered(from, "amd_flash") /\ from["marker"] = "T"
      BY <1>17, <2>5 DEF Met, Requires
    <3>2. from["driver"] \in {"A4", "A5"}
      BY <3>1 DEF Covered, is_applied, Holds, BankMarker, Edits
    <3>3. amd
      BY <1>3, <3>2 DEF BaseAdmissible
    <3> QED
      BY <1>6, <1>8, <2>2, <2>5, <3>1, <3>3
  <2>6. CASE p \notin ps \cup {"top_ds2_guard", "cal_guard_v5", "softbsl_loader_v11"}
    <3>1. is_applied(bare, p)
      BY <1>9, <1>12, <1>15, <2>1, <2>6
    <3> QED
      BY <1>16, <3>1 DEF Keeps
  <2> QED
    BY <2>2, <2>3, <2>4, <2>5, <2>6
<1>18. ASSUME NEW p \in Patches \ {Retired}, is_applied(out, p)
       PROVE  Met(out, p) \/ (is_applied(from, p) /\ ~Met(from, p))
  <2> SUFFICES ASSUME ~Met(out, p) PROVE is_applied(from, p) /\ ~Met(from, p)
    OBVIOUS
  <2>1. is_applied(bare, p) /\ ~Met(bare, p)
    BY <1>16, <1>18 DEF Keeps, KeepsMet
  <2>2. is_applied(normal, p)
    BY <1>9, <1>11, <1>14, <2>1, RemainsApplied
  <2>3. p # "cal_guard_v5"
    <3> SUFFICES ASSUME p = "cal_guard_v5" PROVE FALSE
      OBVIOUS
    <3>1. is_applied(out, "cal_guard") /\ "cal_guard" \in Patches \ {Retired}
      BY <1>8, <1>16, <2>2, PatchNames DEF installed_calguard, Retired
    <3>2. DOMAIN Edits[p] \cap DOMAIN Edits["cal_guard"] = {}
      BY <1>18, <3>1, Apart
    <3>3. "guard" \in DOMAIN Edits["cal_guard_v5"] /\ "guard" \in DOMAIN Edits["cal_guard"]
      BY DEF Edits
    <3> QED
      BY <3>2, <3>3
  <2>4. is_applied(from, p)
    <3>1. "body" \notin DOMAIN Edits[p]
      BY <2>3, WrittenBy DEF Writing
    <3>2. \A c \in DOMAIN Edits[p] : normal[c] = from[c]
      BY <1>7, <3>1, PatchCells, CellSets
    <3> QED
      BY <2>2, <3>2 DEF is_applied, Holds
  <2> SUFFICES ASSUME Met(from, p) PROVE FALSE
    BY <2>4
  <2>5. PICK r \in Requires(p) : ~Covered(out, r)
    BY DEF Met
  <2>6. Covered(from, r) /\ r \in Patches \ {Retired}
    BY Needed DEF Met
  <2>7. r \notin {"door_0x43", "top_ds2_guard"}
    BY DEF Requires
  <2>8. CASE r \notin Deprecated
    <3>1. "amd_flash_v4" \notin {"door_0x43", "top_ds2_guard"}
      OBVIOUS
    <3>2. \A q \in Patches \ {Retired} :
             is_applied(from, q) /\ q \in {r, "amd_flash_v4"} => Continued(out, q)
      BY <1>17, <2>7, <3>1
    <3> QED
      BY <2>5, <2>6, <2>8, <3>2, CoveredStill
  <2>9. CASE p = "launch_control_v17" /\ r = "ignition_cut_v17"
    <3>1. is_applied(from, r)
      BY <2>6, <2>9 DEF Covered
    <3>2. r \notin ps
      BY <1>8, <2>9
    <3>3. is_applied(bare, r)
      BY <1>7, <1>9, <1>12, <1>15, <2>6, <2>7, <2>9, <3>1, <3>2
    <3>4. Requires(p) = {r}
      BY <2>9 DEF Requires
    <3>5. Met(bare, p)
      BY <3>3, <3>4 DEF Met, Covered
    <3> QED
      BY <2>1, <3>5
  <2> QED
    BY <2>3, <2>8, <2>9, Needed
<1>19. ASSUME NEW p \in Tunables PROVE SettingKept(from, out, p)
  <2>1. Setting[p] \in Settings
    BY EngineApplied
  <2>2. \A c \in Settings : c \in Cells \ {"startup", "body"}
    BY CellSets
  <2>3. bare[Setting[p]] = from[Setting[p]]
    BY <1>7, <1>9, <1>11, <1>14, <2>1, <2>2 DEF Remains
  <2> QED
    BY <1>16, <2>3 DEF Keeps, SettingKept
<1> QED
  BY <1>17, <1>18, <1>19 DEF KeepsMet, out

(* Every setting is a tunable patch's.                                     *)
LEMMA SettingOwner ==
    ASSUME NEW p \in Configurable
    PROVE  \E q \in Tunables : Setting[q] = Setting[p]
  BY DEF Configurable, Setting, Tunables

(* What the tab builds keeps its base, but for the settings that were      *)
(* pending.                                                                *)
LEMMA TabBuildKept ==
    ASSUME base \in Flashes, ticked \in SUBSET Patches, installed = InstalledIn(base), Drafted,
           _build_patch_image(drafts) # NoImage
    PROVE  LET out == _build_patch_image(drafts)
           IN /\ \A p \in Patches \ {Retired} : is_applied(base, p) => Continued(out, p)
              /\ KeepsMet(base, out)
              /\ \A p \in Tunables : IF p \in DOMAIN drafts THEN out[Setting[p]] = drafts[p]
                                     ELSE SettingKept(base, out, p)
<1> DEFINE out == _build_patch_image(drafts)
<1>1. DOMAIN drafts \subseteq Tunables
  BY DEF Drafted, Pending
<1>2. ComposedImage # NoImage
  BY <1>1, SettingsRefused
<1>3. /\ \A c \in Code : out[c] = ComposedImage[c]
      /\ \A q \in Tunables : out[Setting[q]] =
                             IF q \in DOMAIN drafts THEN drafts[q] ELSE ComposedImage[Setting[q]]
  BY <1>2, SettingsArrive DEF Drafted
<1> HIDE DEF out
<1>4. \A p \in Patches : is_applied(out, p) <=> is_applied(ComposedImage, p)
  BY <1>3, PatchCells DEF is_applied, Holds
<1>5. Keeps(base, ComposedImage)
  <2>1. CASE ticked = {}
    BY <2>1, KeepsItself DEF ComposedImage
  <2>2. CASE ticked # {}
    <3>1. ComposedImage = build(base, ticked, "")
      BY <1>2, <2>2 DEF ComposedImage, build_image, SupportedImage
    <3>2. build(base, ticked, "") # NoImage
      BY <1>2, <3>1
    <3> QED
      BY <3>1, <3>2, BuildKept DEF Markers
  <2> QED
    BY <2>1, <2>2
<1>6. \A p \in Patches : Met(out, p) <=> Met(ComposedImage, p)
  BY <1>4, Needed, PatchNames DEF Met, Covered
<1>7. KeepsMet(base, out)
  BY <1>4, <1>5, <1>6 DEF Keeps, KeepsMet
<1>8. \A p \in Patches \ {Retired} : is_applied(base, p) => Continued(out, p)
  BY <1>4, <1>5 DEF Keeps, Continued
<1>9. \A p \in Tunables : IF p \in DOMAIN drafts THEN out[Setting[p]] = drafts[p]
                          ELSE SettingKept(base, out, p)
  BY <1>3, <1>5 DEF Keeps, SettingKept
<1> QED
  BY <1>7, <1>8, <1>9 DEF out

(* No build, removal or composition leaves a patch without what it         *)
(* requires, and no composition loses a feature of its base or a setting,  *)
(* for any library and any history.                                        *)
THEOREM WhatIsKept == Spec => KeptWhole
<1> DEFINE Needs ==
               Change => \A p \in Effective(installed') :
                             MissingIn(installed', p) = {} \/ MissingIn(installed, p) # {}
           Lost ==
               Composition =>
                   /\ \A p \in Patches \ Deprecated :
                          Has(installed, p) => Has(installed', p) \/ Redecided(p)
                   /\ \A p \in Configurable : base'[Setting[p]] # base[Setting[p]] =>
                          \/ p \in DOMAIN drafts /\ base'[Setting[p]] = drafts[p]
                          \/ \E q \in DOMAIN drafts \ {p} : Setting[q] = Setting[p]
                          \/ base[Setting[p]] = "ff" /\ base'[Setting[p]] = "initial"
<1>1. TabInv /\ [Next]_vars => [Needs]_vars /\ [Lost]_vars
  <2> SUFFICES ASSUME TabInv, Next, Change PROVE Needs /\ Lost
    BY DEF Composition
  <2>1. ops' # ops /\ base' # base
    BY DEF Change
  <2>2. ASSUME installed = InstalledIn(base), installed' = InstalledIn(base'), KeepsMet(base, base')
        PROVE  Needs
    <3> SUFFICES ASSUME NEW p \in Effective(installed')
                 PROVE  MissingIn(installed', p) = {} \/ MissingIn(installed, p) # {}
      OBVIOUS
    <3>1. p \in Patches \ {Retired} /\ is_applied(base', p)
      BY <2>2, EffectiveIn
    <3>2. Met(base', p) \/ ~Met(base, p)
      BY <2>2, <3>1 DEF KeepsMet
    <3> QED
      BY <2>2, <3>2, MetMissing
  <2>3. ASSUME installed = InstalledIn(base), installed' = InstalledIn(base'),
               \A p \in Patches \ {Retired} :
                   is_applied(base, p) => Continued(base', p) \/ Redecided(p),
               \A p \in Tunables : \/ p \in DOMAIN drafts /\ base'[Setting[p]] = drafts[p]
                                   \/ SettingKept(base, base', p)
        PROVE  Lost
    <3>1. ASSUME NEW p \in Patches \ Deprecated, Has(installed, p), ~Redecided(p)
          PROVE  Has(installed', p)
      <4>1. ASSUME NEW q \in Patches \ {Retired}, is_applied(base, q), q \in Feature(p)
            PROVE  Continued(base', q)
        <5>1. CASE q = p
          BY <2>3, <3>1, <4>1, <5>1
        <5>2. CASE q # p
          <6>1. q \in Deprecated
            BY <4>1, <5>2, Revisions DEF Feature
          <6>2. ~Redecided(q)
            BY <6>1 DEF Redecided, Deprecated
          <6> QED
            BY <2>3, <4>1, <6>2
        <5> QED
          BY <5>1, <5>2
      <4> QED
        BY <2>3, <3>1, <4>1, FeatureStays
    <3>2. ASSUME NEW p \in Configurable, base'[Setting[p]] # base[Setting[p]]
          PROVE  \/ p \in DOMAIN drafts /\ base'[Setting[p]] = drafts[p]
                 \/ \E q \in DOMAIN drafts \ {p} : Setting[q] = Setting[p]
                 \/ base[Setting[p]] = "ff" /\ base'[Setting[p]] = "initial"
      <4>1. PICK q \in Tunables : Setting[q] = Setting[p]
        BY SettingOwner
      <4>2. CASE q \in DOMAIN drafts /\ base'[Setting[q]] = drafts[q]
        BY <4>1, <4>2
      <4>3. CASE SettingKept(base, base', q)
        BY <3>2, <4>1, <4>3 DEF SettingKept
      <4> QED
        BY <2>3, <4>2, <4>3
    <3> QED
      BY <3>1, <3>2
  <2>4. base # NoImage => base \in Flashes /\ installed = InstalledIn(base)
    BY DEF TabInv, Held, Shows
  <2>5. ASSUME base # NoImage, installed' = InstalledIn(base'), Keeps(base, base')
        PROVE  Needs /\ Lost
    BY <2>2, <2>3, <2>4, <2>5 DEF Keeps
  <2>6. ASSUME NEW p \in Patches, _on_patch_remove(p) PROVE Needs /\ Lost
    <3>1. /\ base # NoImage /\ revert_patch(base, p) # NoImage /\ base' = revert_patch(base, p)
          /\ installed' = InstalledIn(base') /\ removed' = removed \cup {p} /\ p \in Removable
      BY <2>6 DEF _on_patch_remove
    <3>2. p # Retired
      <4> SUFFICES ASSUME p = Retired PROVE FALSE
        OBVIOUS
      <4>1. p \in installed /\ p \notin Shadowed(installed)
        BY <3>1, RetiredTwin DEF Removable
      <4>2. "amd_flash_v4" \in installed
        BY <2>4, <3>1, <4>1, RetiredTwin DEF InstalledIn
      <4>3. Retired \in ToSet(Supersedes("amd_flash_v4"))
        BY DEF ToSet, Supersedes, Retired
      <4> QED
        BY <4>1, <4>2, <4>3 DEF Shadowed
    <3>3. KeepsMet(base, base')
      BY <2>4, <3>1, <3>2, RemovalKeepsMet
    <3>4. Needs
      BY <2>2, <2>4, <3>1, <3>3
    <3>5. removed' # {}
      BY <3>1
    <3> QED
      BY <3>4, <3>5 DEF Composition
  <2>7. ASSUME _on_patches_build PROVE Needs /\ Lost
    <3>1. /\ base # NoImage /\ _build_patch_image(drafts) # NoImage
          /\ base' = _build_patch_image(drafts) /\ installed' = InstalledIn(base')
      BY <2>7 DEF _on_patches_build, Fresh
    <3>2. ticked \in SUBSET Patches /\ Drafted
      BY ShownPatches DEF TabInv, Shows
    <3>3. /\ \A p \in Patches \ {Retired} : is_applied(base, p) => Continued(base', p)
          /\ KeepsMet(base, base')
          /\ \A p \in Tunables : IF p \in DOMAIN drafts THEN base'[Setting[p]] = drafts[p]
                                 ELSE SettingKept(base, base', p)
      BY <2>4, <3>1, <3>2, TabBuildKept
    <3>4. Needs
      BY <2>2, <2>4, <3>1, <3>3
    <3>5. Lost
      BY <2>3, <2>4, <3>1, <3>3
    <3> QED
      BY <3>4, <3>5
  <2>8. ASSUME NEW s \in Selections, cmd_apply(s.patches, s.marker) PROVE Needs /\ Lost
    <3>1. /\ base # NoImage /\ build(base, s.patches, s.marker) # NoImage
          /\ base' = build(base, s.patches, s.marker) /\ installed' = InstalledIn(base')
      BY <2>8 DEF cmd_apply, Fresh, Untouched
    <3>2. s.patches \in SUBSET Patches /\ s.marker \in Markers
      BY PatchTabAssumption DEF Markers
    <3>3. Keeps(base, base')
      BY <2>4, <3>1, <3>2, BuildKept
    <3> QED
      BY <2>5, <3>1, <3>3
  <2>9. ASSUME NEW amd \in BOOLEAN, NEW guard \in BOOLEAN, NEW bank \in {"", "T"},
               compose_target(amd, guard, guard, bank)
        PROVE  Needs /\ Lost
    <3>1. /\ base # NoImage /\ base' = compose_persistent_image(base, amd, guard, guard, bank)
          /\ compose_persistent_image(base, amd, guard, guard, bank) # NoImage
          /\ installed' = InstalledIn(base')
      BY <2>9 DEF compose_target, Fresh, Untouched
    <3>2. /\ \A p \in Patches \ {Retired, "door_0x43"} :
                is_applied(base, p)
                   /\ (p = "top_ds2_guard" => base["marker"] = "T" /\ Met(base, p))
                => Continued(base', p)
          /\ KeepsMet(base, base')
          /\ \A p \in Tunables : SettingKept(base, base', p)
      BY <2>4, <3>1, TargetKept
    <3>3. Needs
      BY <2>2, <2>4, <3>1, <3>2
    <3>4. ASSUME NEW p \in Patches \ {Retired}, is_applied(base, p), ~Redecided(p)
          PROVE  Continued(base', p)
      <4>1. /\ p # "door_0x43"
            /\ p = "top_ds2_guard" => base["marker"] = "T" /\ MissingIn(installed, p) = {}
        BY <2>9, <3>4 DEF Redecided
      <4>2. p = "top_ds2_guard" => base["marker"] = "T" /\ Met(base, p)
        BY <2>4, <3>1, <4>1, MetMissing
      <4> QED
        BY <3>2, <3>4, <4>1, <4>2
    <3>5. Lost
      BY <2>3, <2>4, <3>1, <3>2, <3>4
    <3> QED
      BY <3>3, <3>5
  <2>10. ~(\E p \in Patches : Tick(p) \/ Untick(p))
    BY <2>1 DEF Tick, Untick, _on_patch_selection_changed
  <2>11. ~(\E p \in Configurable, v \in Values : _on_patch_configure(p, v))
    BY <2>1 DEF _on_patch_configure
  <2>12. ~Open /\ ~Connection
    BY <2>1
       DEF Open, _on_patches_read_ecu, _load_patch_base_path, Preparing, Free, Connection,
           _disconnect, Connect, Swap
  <2>13. ~FullWrite
    BY <2>1
       DEF FullWrite, _on_backup_flash, Declined, BootGate, Write, _ds2_write_full, Free, tab
  <2> QED
    BY <2>6, <2>7, <2>8, <2>9, <2>10, <2>11, <2>12, <2>13 DEF Next, Edit, Compose
<1> QED
  BY <1>1, TabInvariant, PTL DEF Spec, KeptWhole, RequirementsHeld, NothingLost
---------------------------------------------------------------------------
(* The two images of an installation.                                      *)

(* What is reverted is gone, and nothing else changes.                     *)
LEMMA RevertGone ==
    ASSUME NEW i \in Flashes, NEW ps \in SUBSET (Patches \ {Retired}), NEW p \in ps
    PROVE  ~is_applied(RevertExact(i, ps), p)
<1>1. IsFiniteSet(ps) /\ \A q \in ps, j \in Flashes : Reverted(j, q) \in Flashes
  BY FinitePatches, RevertTyped DEF Reverted
<1>2. PICK it \in [SUBSET ps -> Flashes] : RevertedByOne(it, i, ps)
  BY <1>1, RevertSteps
<1> DEFINE G == {s \in SUBSET ps : \A q \in s : ~is_applied(it[s], q)}
<1>3. {} \in G
  OBVIOUS
<1>4. ASSUME NEW s \in SUBSET ps, s # {}, \A x \in s : s \ {x} \in G PROVE s \in G
  <2>1. PICK q \in s : it[s] = Reverted(it[s \ {q}], q)
    BY <1>2, <1>4 DEF RevertedByOne
  <2> DEFINE j == it[s \ {q}]
             out == it[s]
  <2>2. j \in Flashes /\ q \in Patches \ {Retired} /\ out = Reverted(j, q)
    BY <2>1
  <2>3. \A x \in s \ {q} : ~is_applied(j, x)
    BY <1>4
  <2> SUFFICES ASSUME NEW x \in s PROVE ~is_applied(out, x)
    OBVIOUS
  <2>4. x \in Patches \ {Retired}
    OBVIOUS
  <2> HIDE DEF j, out
  <2>5. CASE is_applied(j, q) /\ x = q
    <3>1. PICK c \in DOMAIN Edits[q] : Edits[q][c] # "-" /\ c \in Cells
      BY <2>2, WritesSomething, Stated, CellSets
    <3>2. out[c] = "-"
      BY <2>2, <2>5, <3>1 DEF Reverted, revert
    <3> QED
      BY <2>5, <3>1, <3>2 DEF is_applied, Holds
  <2>6. CASE is_applied(j, q) /\ x # q
    <3>1. out \in Remains(j)
      BY <2>2, <2>6, RemainsItself, RevertRemains DEF Reverted
    <3> QED
      BY <2>2, <2>3, <2>4, <2>6, <3>1, RemainsApplied
  <2>7. CASE ~is_applied(j, q)
    BY <2>2, <2>3, <2>7 DEF Reverted
  <2> QED
    BY <2>5, <2>6, <2>7
<1>5. ps \in G
  <2> HIDE DEF G
  <2> QED
    BY <1>1, <1>3, <1>4, SubsetInduction
<1> QED
  BY <1>2, <1>5 DEF RevertedByOne

LEMMA RevertElsewhere ==
    ASSUME NEW i \in Flashes, NEW ps \in SUBSET Patches, NEW c \in Cells,
           \A p \in ps : c \notin DOMAIN Edits[p]
    PROVE  RevertExact(i, ps)[c] = i[c]
<1> DEFINE V == {j \in Flashes : j[c] = i[c]}
<1>1. i \in V /\ IsFiniteSet(ps)
  BY FinitePatches
<1>2. ASSUME NEW p \in ps, NEW j \in V PROVE (IF is_applied(j, p) THEN revert(j, p) ELSE j) \in V
  <2>1. revert(j, p) \in Flashes /\ revert(j, p)[c] = j[c]
    BY RevertTyped DEF revert
  <2> QED
    BY <2>1
<1> HIDE DEF V
<1>3. RevertExact(i, ps) \in V
  BY <1>1, <1>2, RevertFold
<1> QED
  BY <1>3 DEF V

(* A base that is free of the retired boot patches, and a composition with *)
(* the loader and without the engine patches: preparing touches no cell    *)
(* that is not written anyway.                                             *)
Untold == {"cal_guard_v5", "softbsl_loader_v11"}
Installable(ids) ==
    /\ ids \in SUBSET (Patches \ Deprecated) /\ ids \cap Tunables = {}
    /\ "softbsl_loader" \in ids
Bare(i) == \A p \in Untold : ~is_applied(i, p)

LEMMA PreparedCell ==
    ASSUME NEW from \in Flashes, Bare(from), NEW ids, Installable(ids),
           Prepared(from, ids) # NoImage,
           NEW c \in Cells \ {"startup"}, c = "driver" => "amd_flash" \notin ids
    PROVE  Prepared(from, ids)[c] = from[c]
<1> DEFINE still == Unwaited(from, ids)
           kept == Cells \ ({"startup"} \cup (IF "amd_flash" \in ids THEN {"driver"} ELSE {}))
           W == {i \in Flashes : \A x \in kept : i[x] = still[x]}
           V == W \cup {NoImage}
<1>1. /\ still \in Flashes /\ \A x \in Cells \ {"startup"} : still[x] = from[x]
      /\ \A p \in Patches \ {Retired} : is_applied(from, p) <=> is_applied(still, p)
  BY Unstarted DEF Unwaited
<1>2. Untold \subseteq Patches \ {Retired} /\ Bare(still)
  <2>1. Untold \subseteq Patches \ {Retired}
    BY PatchNames DEF Untold, Retired
  <2> QED
    BY <1>1, <2>1 DEF Bare
<1>3. restore_missing_calguard_v5_body(still) = still
  BY <1>2 DEF restore_missing_calguard_v5_body, Bare, Untold
<1>4. Prepared(from, ids) = WithoutPredecessors(still, ids)
  BY <1>3 DEF Prepared
<1> HIDE DEF still
<1>5. W \subseteq Flashes /\ NoImage \notin W /\ still \in W
  BY <1>1, CellValues
<1>6. ASSUME NEW i \in W PROVE Bare(i)
  <2> SUFFICES ASSUME NEW p \in Untold, is_applied(i, p) PROVE FALSE
    BY DEF Bare
  <2>1. "driver" \notin DOMAIN Edits[p]
    BY DEF Untold, Edits
  <2>2. \A x \in DOMAIN Edits[p] : i[x] = still[x]
    BY <1>2, <2>1, Stated, CellSets
  <2>3. is_applied(still, p)
    BY <2>2 DEF is_applied, Holds
  <2> QED
    BY <1>2, <2>3 DEF Bare
<1>7. ASSUME NEW p \in ToSet(RevertSuperseded) \cap ids, NEW i \in V,
             NEW old \in ToSet(Supersedes(p))
      PROVE  RevertPredecessor(i, old, ids) \in V
  <2>1. CASE i = NoImage \/ ~is_applied(i, old)
    BY <2>1 DEF RevertPredecessor
  <2>2. CASE i \in W /\ is_applied(i, old)
    <3>1. old \notin Untold
      BY <1>6, <2>2 DEF Bare
    <3>2. p = "amd_flash" /\ old \in {"amd_flash_v4", "amd_flash_v3"}
      <4>1. p \in Patches \ Deprecated /\ p \notin Tunables
        BY DEF Installable
      <4>2. p \in {"softbsl_loader", "cal_guard", "amd_flash"}
        BY <4>1 DEF ToSet, RevertSuperseded, Tunables
      <4> QED
        BY <3>1, <4>2 DEF ToSet, Supersedes, Untold
    <3>3. {d \in Patches \ ids : old \in Requires(d)} = {}
      BY <3>2 DEF Requires
    <3>4. RevertExact(i, {}) = i
      <4>1. \A q \in {}, j \in {i} : (IF is_applied(j, q) THEN revert(j, q) ELSE j) \in {i}
        OBVIOUS
      <4>2. RevertExact(i, {}) \in {i}
        BY <4>1, FS_EmptySet, RevertFold
      <4> QED
        BY <4>2
    <3>5. RevertPredecessor(i, old, ids) \in {i, revert(i, old)}
      BY <2>2, <3>3, <3>4 DEF RevertPredecessor
    <3>6. DOMAIN Edits[old] \subseteq {"driver", "startup"}
      BY <3>2 DEF Edits
    <3>7. revert(i, old) \in W
      <4>1. revert(i, old) \in Flashes
        BY <2>2, RevertTyped
      <4>2. \A x \in kept : revert(i, old)[x] = i[x]
        BY <3>2, <3>6 DEF revert
      <4> QED
        BY <2>2, <4>1, <4>2
    <3> HIDE DEF W
    <3> QED
      BY <2>2, <3>5, <3>7
  <2> QED
    BY <2>1, <2>2
<1>8. Prepared(from, ids) \in V
  <2>1. still \in V
    BY <1>5
  <2> HIDE DEF V
  <2> QED
    BY <1>4, <1>7, <2>1, AllSuccessors
<1> QED
  BY <1>1, <1>8

(* What a composition makes of such a base, cell by cell.                  *)
Onto(out, from, ids, bank) ==
    /\ out \in Flashes
    /\ \A p \in ids : is_applied(out, p)
    /\ \A c \in Plain \cup Settings :
          (\A p \in ids : c \notin DOMAIN Edits[p]) => out[c] = from[c]
    /\ out["marker"] = IF bank = "" THEN KeptMarker(from) ELSE bank

LEMMA FreshBuild ==
    ASSUME NEW from \in Flashes, Bare(from), NEW ids, Installable(ids),
           NEW marker \in Markers, BuildOf(from, ids, marker) # NoImage
    PROVE  Onto(BuildOf(from, ids, marker), from, ids, marker)
<1> DEFINE clean == Prepared(from, ids)
           patched == Patched(from, ids, clean)
           bank == MarkerOf(from, ids, marker)
           out == BuildOf(from, ids, marker)
<1>1. ids \in SUBSET (Patches \ Deprecated) /\ "softbsl_loader" \in ids
  BY DEF Installable
<1>2. Composes(out, from, ids)
  BY <1>1, BuiltCells
<1>3. clean \in Flashes /\ clean # NoImage /\ out \in Flashes
  BY <1>2, CellValues DEF Composes
<1>4. \A c \in Cells \ {"startup"} : (c = "driver" => "amd_flash" \notin ids) => clean[c] = from[c]
  BY <1>3, PreparedCell
<1>5. out = Marked(patched, bank) /\ Admissible(from, ids, clean)
  BY DEF BuildOf, BuildFrom, TopBankOnly
<1>6. CellsOf(patched, Unpatched(from, ids, clean), ids) /\ patched \in Flashes
  BY <1>1, <1>3, <1>5, PatchedCells, PatchedTyped DEF Admissible
<1> HIDE DEF out, clean, patched
<1>7. ASSUME NEW c \in Plain, \A p \in ids : c \notin DOMAIN Edits[p] PROVE out[c] = from[c]
  <2>1. c = "driver" => "amd_flash" \notin ids
    <3>1. "driver" \in DOMAIN Edits["amd_flash"]
      BY DEF Edits
    <3> QED
      BY <1>7, <3>1
  <2> QED
    BY <1>2, <1>4, <1>7, <2>1, CellSets DEF Composes, Plain, clean
<1>8. ASSUME NEW c \in Settings PROVE out[c] = from[c]
  <2>1. PICK p \in Tunables : Setting[p] = c
    BY <1>8 DEF Settings, Tunables, Setting
  <2>2. p \notin ids
    BY DEF Installable
  <2>3. BuildOf(from, ids, marker)[Setting[p]] = Expected(from, ids, p)
    BY <1>1, EngineBuilt
  <2> QED
    BY <2>1, <2>2, <2>3 DEF Expected, out
<1>9. out["marker"] = IF marker = "" THEN KeptMarker(from) ELSE marker
  <2>1. "marker" \in Cells \ {"startup"}
    BY CellSets
  <2>2. Unpatched(from, ids, clean)["marker"] = from["marker"]
    <3>1. clean["marker"] = from["marker"]
      BY <1>4, <2>1
    <3> QED
      BY <2>1, <3>1 DEF Unpatched, Over, Wait
  <2>3. patched["marker"] = KeptMarker(from)
    BY <1>1, <1>6, <2>2 DEF CellsOf, KeptMarker
  <2>4. out["marker"] = IF bank = "" THEN patched["marker"] ELSE bank
    BY <1>5, <1>6, <2>1 DEF Marked, Flashes
  <2>5. bank = IF marker = "" /\ from["marker"] \in {"B", "T"} THEN from["marker"] ELSE marker
    BY <1>1 DEF MarkerOf
  <2> QED
    BY <2>3, <2>4, <2>5 DEF KeptMarker, Markers
<1> QED
  BY <1>2, <1>3, <1>7, <1>8, <1>9 DEF Composes, Onto, out

(* The driver an AMD base gets besides.                                    *)
Besides(i) == IF AmdDriver(i) /\ ~is_applied(i, "amd_flash") THEN {"amd_flash"} ELSE {}

(* Of patches none of which is there all are composed, and no other.       *)
LEMMA FreshPlan ==
    ASSUME NEW from \in Flashes, Bare(from), ~is_applied(from, "cal_guard"),
           NEW ps, Installable(ps), \A p \in ps : ~is_applied(from, p),
           NEW marker \in Markers, marker = "" => from["marker"] \notin {"B", "T"},
           _compose_image(from, ps, marker) # NoImage
    PROVE  /\ Installable(ps \cup Besides(from))
           /\ Onto(_compose_image(from, ps, marker), from, ps \cup Besides(from),
                   IF marker = "" THEN "B" ELSE marker)
<1> DEFINE ids == ps \cup Besides(from)
           start == IF (marker # "" /\ "softbsl_loader" \in ids) /\ from["marker"] \in {"B", "T"}
                    THEN [from EXCEPT !["marker"] = "B"] ELSE from
           out == _compose_image(from, ps, marker)
<1>1. ASSUME NEW i, Bare(i), ~is_applied(i, "cal_guard"), NEW s, "softbsl_loader" \in s
      PROVE  with_startup_wait(i, s) = s \cup Besides(i)
  <2>1. restore_missing_calguard_v5_body(i) = i
    BY <1>1 DEF restore_missing_calguard_v5_body, Bare, Untold
  <2>2. ~is_applied(i, "cal_guard_v5")
    BY <1>1 DEF Bare, Untold
  <2>3. s \cap StartupOwners # {}
    BY <1>1 DEF StartupOwners
  <2> QED
    BY <1>1, <2>1, <2>2, <2>3 DEF with_startup_wait, Besides
<1>2. "softbsl_loader" \in ps /\ "softbsl_loader" \in ids
  BY DEF Installable
<1>3. Installable(ids)
  <2>1. "amd_flash" \in Patches \ Deprecated /\ "amd_flash" \notin Tunables
    BY PatchNames DEF Deprecated, Tunables
  <2> QED
    BY <2>1 DEF Installable, Besides
<1>4. with_startup_wait(from, ps) = ids
  BY <1>1, <1>2
<1>5. \A p \in ids : ~is_applied(from, p)
  BY DEF Besides
<1> HIDE DEF ids
<1>6. Missing(from, ids) = ids
  BY <1>5 DEF Missing
<1>7. out = build(start, ids, marker)
  <2>1. out = ComposeOf(from, ids, ids, marker)
    BY <1>4, <1>6 DEF _compose_image, ComposeWith
  <2> QED
    BY <1>2, <2>1 DEF ComposeOf
<1>8. /\ start \in Flashes /\ \A c \in Cells \ {"marker"} : start[c] = from[c]
      /\ \A p \in Patches : is_applied(start, p) <=> is_applied(from, p)
  BY Rebanked
<1>9. marker = "" => KeptMarker(start) = "B"
  BY DEF KeptMarker
<1> HIDE DEF start, out
<1>10. Bare(start) /\ ~is_applied(start, "cal_guard") /\ Besides(start) = Besides(from)
  <2>1. Untold \cup {"cal_guard", "amd_flash"} \subseteq Patches
    BY PatchNames DEF Untold
  <2>2. "driver" \in Cells \ {"marker"}
    BY CellSets
  <2> QED
    BY <1>8, <2>1, <2>2 DEF Bare, Besides, AmdDriver
<1>11. Resolved(start, ids) = ids
  <2>1. LaunchSuccessor(start, ids) = {}
    BY <1>3 DEF LaunchSuccessor, Installable, Tunables
  <2>2. Resolved(start, ids) = with_startup_wait(start, ids)
    BY <2>1 DEF Resolved
  <2>3. with_startup_wait(start, ids) = ids \cup Besides(start)
    BY <1>1, <1>2, <1>10
  <2> QED
    BY <1>10, <2>2, <2>3 DEF ids
<1>12. out = BuildOf(start, ids, marker) /\ out # NoImage
  <2>1. out # NoImage
    BY DEF out
  <2> QED
    BY <1>7, <1>11, <2>1 DEF build
<1>13. Onto(out, start, ids, marker)
  BY <1>3, <1>8, <1>10, <1>12, FreshBuild
<1>14. \A c \in Plain \cup Settings : start[c] = from[c]
  BY <1>8, CellSets DEF Plain
<1>15. Onto(out, from, ids, IF marker = "" THEN "B" ELSE marker)
  BY <1>9, <1>13, <1>14 DEF Onto, Markers
<1> QED
  BY <1>3, <1>15 DEF ids, out

(* The base of a plan is freed of all that is composed, of the temporary   *)
(* door and of the retired boot patches.                                   *)
Freed(plan) ==
    /\ plan.base \in Flashes /\ Bare(plan.base) /\ ~is_applied(plan.base, "cal_guard")
    /\ \A p \in plan.patches \cup {"door_0x43"} : ~is_applied(plan.base, p)
    /\ Installable(plan.patches) /\ "door_0x43" \notin plan.patches
    /\ plan.driver \subseteq plan.patches

LEMMA PlanBase ==
    ASSUME NEW from \in Flashes, NEW amd, NEW guard, NEW alphan, NEW marker,
           _persistent_patch_plan(from, amd, guard, alphan, marker).base # NoImage
    PROVE  LET plan == _persistent_patch_plan(from, amd, guard, alphan, marker)
           IN Freed(plan) /\ plan.base["marker"] \in {from["marker"], "-"}
<1> DEFINE normal == restore_missing_calguard_v5_body(from)
           still == Unwaiting(normal)
           gone == {"top_ds2_guard", "cal_guard_v5", "softbsl_loader_v11"}
           clean == Cleaned(still)
           g == guard \/ installed_calguard(normal)
           driver == IF amd /\ (\/ from["driver"] = "-"
                                \/ _patch_state(clean, "amd_flash", BootCells) = "legacy")
                     THEN {"amd_flash"} ELSE {}
           ps == {"softbsl_loader", "door_magic"} \cup driver
                      \cup (IF g THEN {"cal_guard"} ELSE {})
                      \cup (IF alphan THEN {"alphan_failsafe"} ELSE {})
                      \cup (IF amd /\ marker = "T" THEN {"top_ds2_guard"} ELSE {})
           bare == RevertExact(clean, {"door_0x43"} \cup ps)
           plan == _persistent_patch_plan(from, amd, guard, alphan, marker)
<1>1. plan = PlanFor(clean, g, alphan, amd /\ marker = "T", driver)
  <2>1. NoPlan.base = NoImage
    BY DEF NoPlan
  <2> QED
    BY <2>1 DEF _persistent_patch_plan, PlanFrom
<1>2. plan.base = bare /\ plan.patches = ps /\ plan.driver = driver
  <2>1. plan = PlanOf(clean, ps, driver)
    BY <1>1 DEF PlanFor
  <2> HIDE DEF plan, clean, ps, driver
  <2> QED
    BY <2>1 DEF PlanOf, Plan
<1> HIDE DEF plan
<1>3. normal \in Flashes /\ \A c \in Cells \ {"body"} : normal[c] = from[c]
  BY Restored
<1>4. /\ Installable(ps) /\ "door_0x43" \notin ps /\ driver \subseteq ps
      /\ installed_calguard(normal) => "cal_guard" \in ps
  BY PatchNames DEF Deprecated, Installable, Tunables
<1> HIDE DEF normal
<1>5. /\ still \in Flashes /\ \A c \in Cells \ {"startup"} : still[c] = normal[c]
      /\ \A p \in Patches \ {Retired} : is_applied(normal, p) <=> is_applied(still, p)
  BY <1>3, Unstarted DEF Unwaiting
<1> HIDE DEF still
<1>6. gone \in SUBSET (Patches \ {Retired}) /\ Untold \subseteq gone
  BY PatchNames DEF Retired, Untold
<1>7. clean = RevertExact(still, gone)
  BY DEF Cleaned
<1> HIDE DEF gone, clean, ps, driver
<1>8. clean \in Remains(still) /\ clean \in Flashes /\ \A p \in gone : ~is_applied(clean, p)
  BY <1>5, <1>6, <1>7, RevertExactRemains, RevertExactTyped, RevertGone
<1>9. {"door_0x43"} \cup ps \in SUBSET (Patches \ {Retired})
  BY <1>4, PatchNames DEF Installable, Retired, Deprecated
<1>10. /\ bare \in Remains(clean) /\ bare \in Flashes
       /\ \A p \in {"door_0x43"} \cup ps : ~is_applied(bare, p)
  BY <1>8, <1>9, RevertExactRemains, RevertExactTyped, RevertGone
<1> HIDE DEF bare
<1>11. Bare(bare)
  BY <1>6, <1>8, <1>10, RemainsApplied DEF Bare
<1>12. ~is_applied(bare, "cal_guard")
  <2>1. CASE "cal_guard" \in ps
    BY <1>10, <2>1
  <2>2. CASE "cal_guard" \notin ps
    <3>1. ~is_applied(normal, "cal_guard") /\ "cal_guard" \in Patches \ {Retired}
      BY <1>4, <2>2, PatchNames DEF installed_calguard, Retired
    <3> QED
      BY <1>5, <1>8, <1>10, <3>1, RemainsApplied
  <2> QED
    BY <2>1, <2>2
<1>13. bare["marker"] \in {from["marker"], "-"}
  <2>1. "marker" \in Cells /\ "marker" \notin {"body", "startup"}
    BY CellSets
  <2> QED
    BY <1>3, <1>5, <1>8, <1>10, <2>1 DEF Remains
<1> QED
  BY <1>2, <1>4, <1>10, <1>11, <1>12, <1>13 DEF Freed, plan

(* The one-shot door and the cave it borrows.                              *)
LEMMA TheDoor ==
    /\ \A p \in Patches : "entry" \in DOMAIN Edits[p] => p = "door_0x43"
    /\ {"entry", "cave"} = DOMAIN Edits["door_0x43"] /\ {"entry", "cave"} \subseteq Plain
    /\ Overlapping("door_0x43") \subseteq {"alphan_failsafe", "alphan_failsafe_v2"}
    /\ \A p \in Overlapping("door_0x43") : DOMAIN Edits[p] = {"alphan", "cave"}
    /\ Installable({"softbsl_loader", "door_0x43"})
<1>1. \A p \in Patches : "entry" \in DOMAIN Edits[p] => p = "door_0x43"
  BY WrittenBy DEF Writing
<1>2. {"entry", "cave"} = DOMAIN Edits["door_0x43"] /\ {"entry", "cave"} \subseteq Plain
  BY DEF Edits, Plain, Code
<1>3. Overlapping("door_0x43") \subseteq {"alphan_failsafe", "alphan_failsafe_v2"}
  <2> SUFFICES ASSUME NEW p \in Patches \ {"door_0x43"}, Collide("door_0x43", p)
               PROVE  p \in {"alphan_failsafe", "alphan_failsafe_v2"}
    BY DEF Overlapping
  <2>1. PICK c \in DOMAIN Edits[p] : c \in {"entry", "cave"}
    BY <1>2 DEF Collide
  <2>2. p \in Writing[c]
    BY WrittenBy
  <2> QED
    BY <2>1, <2>2 DEF Writing
<1>4. \A p \in {"alphan_failsafe", "alphan_failsafe_v2"} : DOMAIN Edits[p] = {"alphan", "cave"}
  BY DEF Edits
<1>5. Installable({"softbsl_loader", "door_0x43"})
  BY PatchNames DEF Installable, Deprecated, Tunables
<1> QED
  BY <1>1, <1>2, <1>3, <1>4, <1>5

(* Bootstrap and target, when both are composed.                           *)
Alike(plan, bootstrap, target) ==
    /\ \A p \in BootPatches(plan) : is_applied(bootstrap, p)
    /\ \A p \in plan.patches : is_applied(target, p)
    /\ ~is_applied(target, "door_0x43")
    /\ \A c \in Cells \ Concerned(plan) : bootstrap[c] = target[c]

LEMMA ImagesOfPlan ==
    ASSUME NEW plan, Freed(plan),
           NEW marker \in Markers, marker = "" => plan.base["marker"] \notin {"B", "T"},
           NEW bootstrap, bootstrap # NoImage, NEW target, target # NoImage,
           bootstrap = _compose_image(_temporary_bootstrap_base(plan.base), BootPatches(plan),
                                      marker),
           target = _compose_image(plan.base, plan.patches, marker)
    PROVE  Alike(plan, bootstrap, target)
<1> DEFINE bare == plan.base
           ps == plan.patches
           boot == BootPatches(plan)
           shared == boot \ {"door_0x43"}
           over == Overlapping("door_0x43")
           freed == _temporary_bootstrap_base(bare)
           bank == IF marker = "" THEN "B" ELSE marker
           ids == ps \cup Besides(bare)
           bootids == boot \cup Besides(bare)
<1>1. /\ bare \in Flashes /\ Bare(bare) /\ ~is_applied(bare, "cal_guard")
      /\ \A p \in ps \cup {"door_0x43"} : ~is_applied(bare, p)
      /\ Installable(ps) /\ "door_0x43" \notin ps /\ plan.driver \subseteq ps
      /\ Installable(ids) /\ Onto(target, bare, ids, bank)
  BY FreshPlan DEF Freed
<1>2. over \in SUBSET Patches /\ freed = RevertExact(bare, over)
  BY TheDoor, PatchNames DEF _temporary_bootstrap_base
<1>3. shared \subseteq ps /\ Installable(boot) /\ "door_0x43" \in boot
  BY <1>1, TheDoor DEF BootPatches, Installable
<1>4. Concerned(plan) = {"entry", "cave"} \cup {"startup"}
                          \cup UNION {DOMAIN Edits[p] : p \in over \cup (ps \ boot)}
  BY TheDoor DEF Concerned
<1> HIDE DEF boot, over, freed
<1>5. /\ freed \in Flashes /\ freed \in Remains(bare)
      /\ \A c \in Cells : (\A p \in over : c \notin DOMAIN Edits[p]) => freed[c] = bare[c]
  BY <1>1, <1>2, RevertExactRemains, RevertExactTyped, RevertElsewhere
<1>6. ASSUME NEW p \in Patches \ {Retired}, ~is_applied(bare, p) PROVE ~is_applied(freed, p)
  BY <1>1, <1>5, <1>6, RemainsApplied
<1>7. Untold \cup boot \cup {"cal_guard", "amd_flash"} \subseteq Patches \ {Retired}
  BY <1>3, RetiredTwin, PatchNames DEF Installable, Untold, Retired
<1>8. Bare(freed) /\ ~is_applied(freed, "cal_guard") /\ \A p \in boot : ~is_applied(freed, p)
  BY <1>1, <1>3, <1>6, <1>7 DEF Bare
<1>9. \A c \in Cells \ {"alphan", "cave"} : freed[c] = bare[c]
  BY <1>5, TheDoor DEF over
<1>10. Besides(freed) = Besides(bare)
  <2>1. DOMAIN Edits["amd_flash"] = {"driver", "tail"} /\ {"driver", "tail"} \subseteq Cells
    BY DEF Edits, Cells, Code, BootCells
  <2>2. freed["driver"] = bare["driver"] /\ freed["tail"] = bare["tail"]
    BY <1>9, <2>1
  <2>3. is_applied(freed, "amd_flash") <=> is_applied(bare, "amd_flash")
    BY <2>1, <2>2 DEF is_applied, Holds, BankMarker
  <2> QED
    BY <2>2, <2>3 DEF Besides, AmdDriver
<1>11. "marker" \in Cells \ {"alphan", "cave"}
  BY CellSets
<1>12. Installable(bootids) /\ Onto(bootstrap, freed, bootids, bank)
  BY <1>3, <1>5, <1>8, <1>9, <1>10, <1>11, FreshPlan DEF boot, freed
<1>13. ASSUME NEW c \in Cells \ Concerned(plan) PROVE bootstrap[c] = target[c]
  <2>1. /\ c \notin {"entry", "cave", "startup"}
        /\ \A p \in over \cup (ps \ boot) : c \notin DOMAIN Edits[p]
    BY <1>4
  <2>2. freed[c] = bare[c]
    BY <1>5, <2>1
  <2>3. \A p \in Patches : c \in Settings => c \notin DOMAIN Edits[p]
    BY PatchCells, CellSets
  <2>4. c = "marker" \/ c \in Plain \cup Settings
    BY <2>1 DEF Plain, Cells
  <2>5. "door_0x43" \in boot => c \notin DOMAIN Edits["door_0x43"]
    BY <2>1, TheDoor
  <2>6. \A p : c \in DOMAIN Edits[p] => (p \in bootids <=> p \in ids)
    BY <1>3, <2>1, <2>5
  <2>7. CASE c = "marker"
    <3>1. bank # ""
      BY DEF Markers
    <3> QED
      BY <1>1, <1>12, <2>7, <3>1 DEF Onto
  <2>8. CASE c # "marker" /\ \E p \in ids : c \in DOMAIN Edits[p]
    <3>1. PICK p \in ids : c \in DOMAIN Edits[p]
      BY <2>8
    <3>2. is_applied(target, p) /\ is_applied(bootstrap, p)
      BY <1>1, <1>12, <2>6, <3>1 DEF Onto
    <3> QED
      BY <2>8, <3>1, <3>2 DEF is_applied, Holds, BankMarker
  <2>9. CASE c \in Plain \cup Settings /\ \A p \in ids : c \notin DOMAIN Edits[p]
    <3>1. \A p \in bootids : c \notin DOMAIN Edits[p]
      BY <2>6, <2>9
    <3>2. target[c] = bare[c] /\ bootstrap[c] = freed[c]
      BY <1>1, <1>12, <2>9, <3>1 DEF Onto
    <3> QED
      BY <2>2, <3>2
  <2> QED
    BY <2>4, <2>7, <2>8, <2>9
<1>14. ~is_applied(target, "door_0x43")
  <2>1. Besides(bare) \subseteq {"amd_flash"} /\ "door_0x43" \notin ids
    BY <1>1 DEF Besides
  <2>2. ids \subseteq Patches \ Deprecated
    BY <1>1 DEF Installable
  <2>3. target["entry"] = bare["entry"]
    <3>1. \A p \in ids : "entry" \notin DOMAIN Edits[p]
      BY <2>1, <2>2, TheDoor
    <3> QED
      BY <1>1, <3>1, TheDoor DEF Onto
  <2>4. target["cave"] = bare["cave"] \/ target["cave"] = "F3"
    <3>1. CASE \A p \in ids : "cave" \notin DOMAIN Edits[p]
      BY <1>1, <3>1, TheDoor DEF Onto
    <3>2. CASE \E p \in ids : "cave" \in DOMAIN Edits[p]
      <4>1. PICK p \in ids : "cave" \in DOMAIN Edits[p]
        BY <3>2
      <4>2. p = "alphan_failsafe"
        <5>1. p \in Patches \ Deprecated /\ p # "door_0x43"
          BY <2>1, <2>2, <4>1
        <5>2. p \in Writing["cave"]
          BY <4>1, <5>1, WrittenBy
        <5> QED
          BY <5>1, <5>2 DEF Writing, Deprecated
      <4>3. is_applied(target, "alphan_failsafe")
        BY <1>1, <4>1, <4>2 DEF Onto
      <4> QED
        BY <4>3 DEF is_applied, Holds, BankMarker, Edits
    <3> QED
      BY <3>1, <3>2
  <2>5. ~is_applied(bare, "door_0x43")
    BY <1>1
  <2>6. \A i : is_applied(i, "door_0x43") <=> i["entry"] = "D43" /\ i["cave"] = "D43"
    <3>1. Edits["door_0x43"]["entry"] = "D43" /\ Edits["door_0x43"]["cave"] = "D43"
      BY DEF Edits
    <3>2. \A i, c : c # "marker" => (Holds(i, "door_0x43", c) <=> i[c] = Edits["door_0x43"][c])
      BY DEF Holds, BankMarker
    <3>3. "marker" \notin {"entry", "cave"}
      OBVIOUS
    <3> QED
      BY <3>1, <3>2, <3>3, TheDoor DEF is_applied
  <2> QED
    BY <2>3, <2>4, <2>5, <2>6
<1> QED
  BY <1>1, <1>12, <1>13, <1>14 DEF Onto, Alike, boot

LEMMA ImagesAlike ==
    ASSUME NEW from \in Flashes, NEW amd, NEW guard, NEW alphan,
           installed = InstalledIn(from),
           _install_resolve_images(from, amd, guard, alphan).plan.base # NoImage,
           Composed(_install_resolve_images(from, amd, guard, alphan))
    PROVE  Matching(_install_resolve_images(from, amd, guard, alphan))
<1> DEFINE marker == MarkerIn(from)
           plan == _persistent_patch_plan(from, amd, guard, alphan, marker)
           images == _install_resolve_images(from, amd, guard, alphan)
<1>1. images = Images(plan, marker)
  BY DEF _install_resolve_images
<1>2. marker \in Markers /\ (marker = "" => from["marker"] \notin {"B", "T"})
  BY DEF MarkerIn, Markers
<1>3. compose_persistent_image(from, amd, guard, alphan, "") = ComposePlan(plan, marker)
  BY DEF compose_persistent_image
<1> HIDE DEF marker
<1>4. images.plan = plan /\ plan.base # NoImage
  BY <1>1 DEF Images, images
<1>5. Freed(plan) /\ plan.base["marker"] \in {from["marker"], "-"}
  BY <1>4, PlanBase
<1> HIDE DEF plan
<1>6. /\ images.bootstrap =
             _compose_image(_temporary_bootstrap_base(plan.base), BootPatches(plan), marker)
      /\ images.target = _compose_image(plan.base, plan.patches, marker)
      /\ images.target = ComposePlan(plan, marker)
  BY <1>1, <1>4 DEF Images, ComposePlan
<1>7. images.bootstrap # NoImage /\ images.target # NoImage
  BY DEF Composed
<1> HIDE DEF images
<1>8. Alike(plan, images.bootstrap, images.target)
  <2>1. marker = "" => plan.base["marker"] \notin {"B", "T"}
    BY <1>2, <1>5
  <2> QED
    BY <1>2, <1>5, <1>6, <1>7, <2>1, ImagesOfPlan
<1>9. plan.patches \subseteq Patches /\ BootPatches(plan) \subseteq Patches
  BY <1>5, PatchNames DEF Freed, Installable, BootPatches
<1>10. ASSUME NEW p \in Patches \ (Deprecated \cup {"door_0x43", "top_ds2_guard"}),
              Has(installed, p)
       PROVE  Has(InstalledIn(images.target), p)
  <2>1. \A q \in Patches \ {Retired, "door_0x43"} :
           is_applied(from, q) /\ q # "top_ds2_guard" => Continued(images.target, q)
    BY <1>3, <1>6, <1>7, TargetKept
  <2>2. \A q \in Feature(p) : q # "door_0x43" /\ q # "top_ds2_guard"
    BY Revisions DEF Feature, Deprecated
  <2> QED
    BY <1>10, <2>1, <2>2, FeatureStays
<1> QED
  BY <1>4, <1>8, <1>9, <1>10 DEF Alike, Matching, InstalledIn, images

(* Of any library's images the installer makes, where it refuses neither,  *)
(* a bootstrap and a target that agree wherever the door, what it displaces *)
(* and the patches only the target has are not concerned; each is whole    *)
(* (_install_resolve_images).                                              *)
THEOREM ImagesMatch ==
    Spec => [](base # NoImage =>
                  \A amd, guard, alphan \in BOOLEAN :
                      LET images == _install_resolve_images(base, amd, guard, alphan)
                      IN images.plan.base # NoImage /\ Composed(images) => Matching(images))
<1> DEFINE Match == base # NoImage =>
                        \A amd, guard, alphan \in BOOLEAN :
                            LET images == _install_resolve_images(base, amd, guard, alphan)
                            IN images.plan.base # NoImage /\ Composed(images) => Matching(images)
<1>1. TabInv => Match
  <2> SUFFICES ASSUME TabInv, base # NoImage, NEW amd, NEW guard, NEW alphan,
                      _install_resolve_images(base, amd, guard, alphan).plan.base # NoImage,
                      Composed(_install_resolve_images(base, amd, guard, alphan))
               PROVE  Matching(_install_resolve_images(base, amd, guard, alphan))
    OBVIOUS
  <2>1. base \in Flashes /\ installed = InstalledIn(base)
    BY DEF TabInv, Held, Shows
  <2> QED
    BY <2>1, ImagesAlike
<1> QED
  BY <1>1, TabInvariant, PTL
===============================================================================
