------------------------- MODULE Enumeration_proofs -------------------------
(***************************************************************************)
(* Proofs that a copy or a sync that exits well has brought the            *)
(* destination up to date, that it has deleted nothing that the source had *)
(* all along, and that its job parts are full and in order; and that what  *)
(* the copy command orders has a place of its own at the destination; that *)
(* the parallel crawl is a scan; and that the walk of a local folder finds *)
(* all that is there, under one name each.                                 *)
(***************************************************************************)
EXTENDS Enumeration, CopyCommand, Crawler, LocalWalk, SequenceTheorems, FiniteSetTheorems, TLAPS

ObjectVersion == Names \X Versions

(* The parts hold a transfer of the object, or the part being filled does. *)
Held(full, filling, n) ==
    \/ \E i \in DOMAIN full : \E k \in DOMAIN full[i] : full[i][k][1] = n
    \/ \E k \in DOMAIN filling : filling[k][1] = n

Ordered(n) == Held(parts, part, n)

EnumTypeOK ==
    /\ src \in [Names -> {0} \cup Versions] /\ dst \in [Names -> {0} \cup Versions]
    /\ index \in [Names -> {0} \cup Versions]
    /\ phase \in {"first", "second", "finalize", "over"}
    /\ outcome \in {"none", "success", "error"} /\ final \in BOOLEAN
    /\ way = "copy" => phase # "first" /\ deletion # "true"
    /\ deletion = "true" => consent = [ask |-> FALSE, yes |-> TRUE]

HistoryInv ==
    \A n \in Names : /\ src[n] = 0 => n \in wasAbsent
                     /\ n \notin changed /\ n \in wasAbsent => src[n] = 0

(* What the index knows of an object, by the side it was filled from.      *)
IndexInv ==
    \A n \in Names :
        /\ way = "copy" \/ final => index[n] = 0
        /\ way = "upload" /\ n \notin changed /\ index[n] # 0 => index[n] = src[n]
        /\ way # "upload" /\ index[n] # 0 => index[n] = dst[n]

(* An object the source had all along is in the index until it is met at   *)
(* the destination, or the other way round.                                *)
MetInv ==
    \A n \in Names \ (wasAbsent \cup blind) :
        /\ way = "upload" /\ ((phase = "first" /\ n \in seen) \/ (phase = "second" /\ n \notin seen))
              => index[n] # 0
        /\ way # "upload" /\ ((phase = "second" /\ n \in seen) \/ phase = "finalize")
              => index[n] = 0

(* No object of the source gets lost: it is still to come, or in the index,*)
(* or ordered, or has failed, or is at the destination.                    *)
Awaited(n) ==
    \/ phase = "first"
    \/ phase = "second" /\ n \notin seen
    \/ way = "upload" /\ phase \in {"second", "finalize"} /\ index[n] # 0

UpToDate(n) == IF way = "copy" \/ mirror THEN dst[n] = src[n] ELSE dst[n] >= src[n]

SourceInv ==
    outcome # "error" =>
        \A n \in Names \ (changed \cup blind) :
            src[n] # 0 => \/ Awaited(n)
                          \/ <<n, src[n]>> \in toDo \cup Range(part)
                          \/ n \in failed
                          \/ UpToDate(n)

(* No extra object gets lost either.                                       *)
ExtraAwaited(n) ==
    IF way = "upload"
    THEN phase = "first" \/ (phase = "second" /\ n \notin seen)
    ELSE (phase = "first" /\ n \notin seen) \/ (phase # "over" /\ index[n] # 0)

ExtrasInv ==
    outcome # "error" /\ deletion = "true" =>
        \A n \in Names \ changed :
            src[n] = 0 => dst[n] = 0 \/ n \in spared \/ ExtraAwaited(n)

(* What is ordered is dealt with, and is not ordered again.                *)
OrderedInv ==
    \A n \in Names : Ordered(n) =>
        index[n] = 0 /\ phase # "first" /\ (phase = "second" => n \in seen)

Apart(full, filling) ==
    /\ \A i, j \in DOMAIN full : \A k \in DOMAIN full[i], l \in DOMAIN full[j] :
          full[i][k][1] = full[j][l][1] => i = j /\ k = l
    /\ \A k, l \in DOMAIN filling : filling[k][1] = filling[l][1] => k = l
    /\ \A i \in DOMAIN full : \A k \in DOMAIN full[i], l \in DOMAIN filling :
          full[i][k][1] # filling[l][1]

(* The parts before the last are full, and the last is not empty.          *)
FullBefore(full) == \A i \in DOMAIN full : i # Len(full) => Len(full[i]) = PartSize

PartsInv ==
    /\ part \in Seq(ObjectVersion) /\ parts \in Seq(Seq(ObjectVersion)) /\ toDo \subseteq ObjectVersion
    /\ Apart(parts, part)
    /\ \A t \in toDo : Ordered(t[1])
    /\ Len(part) <= PartSize
    /\ FullBefore(parts)
    /\ ~final /\ parts # << >> => part # << >> /\ Len(parts[Len(parts)]) = PartSize
    /\ final => /\ parts # << >> /\ Len(parts[Len(parts)]) <= PartSize
                /\ Len(parts) = 1 \/ parts[Len(parts)] # << >>

OverInv ==
    /\ final => phase = "over" /\ part = << >>
    /\ phase = "over" => final \/ outcome = "error"
    /\ outcome = "success" => final /\ toDo = {} /\ failed = {}

EnumInv ==
    /\ EnumTypeOK /\ HistoryInv /\ IndexInv /\ MetInv /\ SourceInv /\ ExtrasInv
    /\ OrderedInv /\ PartsInv /\ OverInv

-----------------------------------------------------------------------------
(* Sequences of transfers.                                                 *)

LEMMA AppendIs ==
  ASSUME NEW S, NEW s \in Seq(S), NEW e \in S
  PROVE  /\ Append(s, e) \in Seq(S) /\ Len(Append(s, e)) = Len(s) + 1
         /\ DOMAIN Append(s, e) = DOMAIN s \cup {Len(s) + 1} /\ Len(s) + 1 \notin DOMAIN s
         /\ \A i \in DOMAIN s : Append(s, e)[i] = s[i]
         /\ Append(s, e)[Len(s) + 1] = e
         /\ Range(Append(s, e)) = Range(s) \cup {e}
         /\ Append(s, e) # << >>
<1>1. /\ Append(s, e) \in Seq(S) /\ Len(Append(s, e)) = Len(s) + 1
      /\ DOMAIN s = 1..Len(s) /\ Len(s) \in Nat
  OBVIOUS
<1>2. /\ DOMAIN Append(s, e) = DOMAIN s \cup {Len(s) + 1} /\ Len(s) + 1 \notin DOMAIN s
  BY <1>1
<1>3. /\ \A i \in DOMAIN s : Append(s, e)[i] = s[i]
      /\ Append(s, e)[Len(s) + 1] = e
  BY <1>1
<1>4. Range(Append(s, e)) = Range(s) \cup {e}
  BY <1>2, <1>3, Zenon DEF Range
<1>5. Append(s, e) # << >>
  BY <1>1
<1> QED BY <1>1, <1>2, <1>3, <1>4, <1>5

(* A transfer joins the part that is being filled.                         *)
LEMMA JoinsThePart ==
  ASSUME NEW full \in Seq(Seq(ObjectVersion)), NEW filling \in Seq(ObjectVersion), NEW t \in ObjectVersion,
         Apart(full, filling), ~Held(full, filling, t[1])
  PROVE  /\ Apart(full, Append(filling, t))
         /\ \A n : Held(full, Append(filling, t), n) <=> Held(full, filling, n) \/ n = t[1]
<1> DEFINE more == Append(filling, t)
           new == Len(filling) + 1
<1>1. /\ DOMAIN more = DOMAIN filling \cup {new} /\ new \notin DOMAIN filling
      /\ \A i \in DOMAIN filling : more[i] = filling[i]
      /\ more[new] = t
  BY AppendIs
<1> HIDE DEF more, new
<1>2. \A n : Held(full, more, n) <=> Held(full, filling, n) \/ n = t[1]
  BY <1>1, Zenon DEF Held
<1>3. \A k, l \in DOMAIN more : more[k][1] = more[l][1] => k = l
  <2>1. \A k \in DOMAIN filling : more[k][1] = filling[k][1] /\ filling[k][1] # t[1]
    BY <1>1 DEF Held
  <2>2. \A k, l \in DOMAIN filling : filling[k][1] = filling[l][1] => k = l
    BY DEF Apart
  <2> QED BY <1>1, <2>1, <2>2
<1>4. \A i \in DOMAIN full : \A k \in DOMAIN full[i], l \in DOMAIN more :
        full[i][k][1] # more[l][1]
  <2>1. \A i \in DOMAIN full : \A k \in DOMAIN full[i] : full[i][k][1] # t[1]
    BY DEF Held
  <2> QED BY <1>1, <2>1 DEF Apart
<1>5. Apart(full, more)
  BY <1>3, <1>4 DEF Apart
<1> QED BY <1>2, <1>5 DEF more

(* The part being filled is ordered, and the next one begun.               *)
LEMMA BecomesAPart ==
  ASSUME NEW full \in Seq(Seq(ObjectVersion)), NEW filling \in Seq(ObjectVersion), Apart(full, filling)
  PROVE  /\ Apart(Append(full, filling), << >>)
         /\ \A n : Held(Append(full, filling), << >>, n) <=> Held(full, filling, n)
<1> DEFINE more == Append(full, filling)
           new == Len(full) + 1
<1>1. /\ DOMAIN more = DOMAIN full \cup {new} /\ new \notin DOMAIN full
      /\ \A i \in DOMAIN full : more[i] = full[i]
      /\ more[new] = filling
  BY AppendIs
<1>2. DOMAIN << >> = {}
  OBVIOUS
<1> HIDE DEF more, new
<1>3. \A n : Held(more, << >>, n) <=> Held(full, filling, n)
  BY <1>1, <1>2 DEF Held
<1>4. \A i, j \in DOMAIN more : \A k \in DOMAIN more[i], l \in DOMAIN more[j] :
        more[i][k][1] = more[j][l][1] => i = j /\ k = l
  <2> SUFFICES ASSUME NEW i \in DOMAIN more, NEW j \in DOMAIN more,
                      NEW k \in DOMAIN more[i], NEW l \in DOMAIN more[j],
                      more[i][k][1] = more[j][l][1]
               PROVE  i = j /\ k = l
    OBVIOUS
  <2>1. CASE i \in DOMAIN full /\ j \in DOMAIN full
    BY <1>1, <2>1 DEF Apart
  <2>2. CASE i = new /\ j \in DOMAIN full
    BY <1>1, <2>2 DEF Apart
  <2>3. CASE i \in DOMAIN full /\ j = new
    BY <1>1, <2>3 DEF Apart
  <2>4. CASE i = new /\ j = new
    BY <1>1, <2>4 DEF Apart
  <2> QED BY <1>1, <2>1, <2>2, <2>3, <2>4
<1>5. Apart(more, << >>)
  BY <1>2, <1>4 DEF Apart
<1> QED BY <1>3, <1>5 DEF more

-----------------------------------------------------------------------------
(* What the handlers that the steps share do.                              *)

LEMMA ScheduleDoes ==
  ASSUME EnumInv, NEW n \in Names, NEW v \in Versions, ~final, ~Ordered(n), Schedule(n, v)
  PROVE  /\ PartsInv' /\ final' = final
         /\ \A m : Ordered(m)' <=> Ordered(m) \/ m = n
         /\ toDo' \cup Range(part') = toDo \cup Range(part) \cup {<<n, v>>}
<1> DEFINE t == <<n, v>>
<1>1. t \in ObjectVersion /\ t[1] = n
  BY DEF ObjectVersion
<1>2. /\ part \in Seq(ObjectVersion) /\ parts \in Seq(Seq(ObjectVersion)) /\ toDo \subseteq ObjectVersion
      /\ Apart(parts, part) /\ Len(part) <= PartSize /\ FullBefore(parts)
      /\ \A u \in toDo : Ordered(u[1])
      /\ parts # << >> => part # << >> /\ Len(parts[Len(parts)]) = PartSize
  BY DEF EnumInv, PartsInv
<1>3. PartSize \in Nat /\ Len(part) \in Nat /\ PartSize # 0
  BY <1>2, EnumAssumption
<1>4. ~Held(parts, part, t[1])
  BY <1>1 DEF Ordered
<1> HIDE DEF t
<1>5. CASE Len(part) # PartSize
  <2>1. part' = Append(part, t) /\ parts' = parts /\ toDo' = toDo /\ final' = final
    BY <1>5 DEF Schedule, t
  <2>2. /\ part' \in Seq(ObjectVersion) /\ Len(part') = Len(part) + 1 /\ part' # << >>
        /\ Range(part') = Range(part) \cup {t}
    BY <1>1, <1>2, <2>1, AppendIs
  <2>3. Apart(parts', part') /\ \A m : Ordered(m)' <=> Ordered(m) \/ m = n
    BY <1>1, <1>2, <1>4, <2>1, JoinsThePart DEF Ordered
  <2>4. Len(part') <= PartSize
    BY <1>2, <1>3, <1>5, <2>2
  <2>5. FullBefore(parts')
    BY <1>2, <2>1 DEF FullBefore
  <2>6. \A u \in toDo' : Ordered(u[1])'
    BY <1>2, <2>1, <2>3
  <2>7. PartsInv'
    BY <1>2, <2>1, <2>2, <2>3, <2>4, <2>5, <2>6 DEF PartsInv
  <2> QED BY <2>1, <2>2, <2>3, <2>7 DEF t
<1>6. CASE Len(part) = PartSize
  <2>1. /\ parts' = Append(parts, part) /\ toDo' = toDo \cup Range(part)
        /\ part' = <<t>> /\ final' = final
    BY <1>6 DEF Schedule, t
  <2>2. /\ parts' \in Seq(Seq(ObjectVersion)) /\ Len(parts') = Len(parts) + 1
        /\ DOMAIN parts' = DOMAIN parts \cup {Len(parts) + 1}
        /\ \A i \in DOMAIN parts : parts'[i] = parts[i]
        /\ parts'[Len(parts) + 1] = part
    BY <1>2, <2>1, AppendIs
  <2>3. /\ Apart(parts', << >>)
        /\ \A m : Held(parts', << >>, m) <=> Ordered(m)
    BY <1>2, <2>1, BecomesAPart DEF Ordered
  <2>4. << >> \in Seq(ObjectVersion) /\ <<t>> = Append(<< >>, t) /\ <<t>> \in Seq(ObjectVersion)
        /\ Len(<<t>>) = 1 /\ <<t>> # << >> /\ Range(<<t>>) = {t}
    BY <1>1 DEF Range
  <2>5. ~Held(parts', << >>, t[1])
    BY <1>1, <2>3
  <2>6. Apart(parts', part') /\ \A m : Ordered(m)' <=> Ordered(m) \/ m = n
    <3>1. /\ Apart(parts', Append(<< >>, t))
          /\ \A m : Held(parts', Append(<< >>, t), m) <=> Held(parts', << >>, m) \/ m = t[1]
      BY <1>1, <2>2, <2>3, <2>4, <2>5, JoinsThePart
    <3>2. part' = Append(<< >>, t)
      BY <2>1, <2>4
    <3> QED BY <1>1, <2>3, <3>1, <3>2, Zenon DEF Ordered
  <2>7. FullBefore(parts')
    <3>1. \A i \in DOMAIN parts : Len(parts[i]) = PartSize
      <4>1. CASE parts = << >>
        BY <4>1
      <4>2. CASE parts # << >>
        BY <1>2, <4>2 DEF FullBefore
      <4> QED BY <4>1, <4>2
    <3> QED BY <1>2, <2>2, <3>1 DEF FullBefore
  <2>8. \A u \in toDo' : Ordered(u[1])'
    <3>1. \A u \in Range(part) : Ordered(u[1])
      BY DEF Range, Ordered, Held
    <3> QED BY <1>2, <2>1, <2>6, <3>1
  <2>9. /\ toDo' \subseteq ObjectVersion /\ part' \in Seq(ObjectVersion) /\ Len(part') <= PartSize
        /\ part' # << >> /\ Len(parts'[Len(parts')]) = PartSize
    <3>1. Range(part) \subseteq ObjectVersion
      BY <1>2 DEF Range
    <3> QED BY <1>2, <1>3, <1>6, <2>1, <2>2, <2>4, <3>1
  <2>10. PartsInv'
    BY <2>1, <2>2, <2>6, <2>7, <2>8, <2>9 DEF PartsInv
  <2> QED BY <2>1, <2>4, <2>6, <2>10 DEF t
<1> QED BY <1>5, <1>6

LEMMA RemoveDoes ==
  ASSUME EnumTypeOK, NEW n \in Names, RemoveImmediately(n)
  PROVE  /\ dst' = dst \/ dst' = [dst EXCEPT ![n] = 0]
         /\ deleted' \subseteq deleted \cup {n} /\ spared \subseteq spared'
         /\ deletion = "true" =>
               consent' = [ask |-> FALSE, yes |-> TRUE] /\ (dst'[n] = 0 \/ n \in spared')
<1>1. CASE deletion = "true"
  <2>1. consent = [ask |-> FALSE, yes |-> TRUE]
    BY <1>1 DEF EnumTypeOK
  <2>2. consent' = consent /\ consent'.yes
    BY <2>1 DEF RemoveImmediately
  <2>3. \/ deleted' = deleted \cup {n} /\ dst' = [dst EXCEPT ![n] = 0] /\ spared' = spared
        \/ spared' = spared \cup {n} /\ dst' = dst /\ deleted' = deleted
    BY <2>2 DEF RemoveImmediately
  <2>4. dst'[n] = 0 \/ n \in spared'
    BY <2>3 DEF EnumTypeOK
  <2> QED BY <2>1, <2>2, <2>3, <2>4
<1>2. CASE deletion # "true"
  <2>1. \/ deleted' = deleted \cup {n} /\ dst' = [dst EXCEPT ![n] = 0] /\ spared' = spared
        \/ spared' = spared \cup {n} /\ dst' = dst /\ deleted' = deleted
        \/ dst' = dst /\ deleted' = deleted /\ spared' = spared
    BY DEF RemoveImmediately
  <2> QED BY <1>2, <2>1
<1> QED BY <1>1, <1>2

(* Versions are numbers, and 0 is none of them.                            *)
LEMMA Numbers ==
  ASSUME EnumTypeOK, NEW n \in Names
  PROVE  /\ src[n] \in Nat /\ (src[n] > 0 <=> src[n] # 0) /\ (src[n] # 0 <=> src[n] \in Versions)
         /\ dst[n] \in Nat /\ (dst[n] > 0 <=> dst[n] # 0)
         /\ index[n] \in Nat /\ (index[n] > 0 <=> index[n] # 0)
         /\ index[n] # 0 <=> index[n] \in Versions
<1>1. src[n] \in {0} \cup Versions /\ dst[n] \in {0} \cup Versions /\ index[n] \in {0} \cup Versions
  BY DEF EnumTypeOK
<1>2. \A x \in {0} \cup Versions : x \in Nat /\ (x > 0 <=> x # 0) /\ (x # 0 <=> x \in Versions)
  BY EnumAssumption
<1> QED BY <1>1, <1>2, Zenon

(* The steps of the first traversal, which fill the index.                 *)
LEMMA StoreKeeps ==
  ASSUME EnumInv, NEW n \in Names, Bring(n), Store(n)
  PROVE  EnumInv'
<1>1. /\ phase = "first" /\ n \notin seen /\ seen' = seen \cup {n}
      /\ UNCHANGED <<modeVars, src, phase, failed, outcome, wasAbsent, changed, dst, partVars,
                     removeVars>>
  BY DEF Bring, Store
<1>2. /\ way = "upload" => index' = [index EXCEPT ![n] = src[n]] /\ src[n] # 0
      /\ way # "upload" => index' = [index EXCEPT ![n] = dst[n]]
  BY Numbers DEF Bring, Store, Side, There, SourceIsFirst, EnumInv
<1>3. /\ index \in [Names -> {0} \cup Versions] /\ src \in [Names -> {0} \cup Versions]
      /\ dst \in [Names -> {0} \cup Versions]
  BY DEF EnumInv, EnumTypeOK
<1>4. /\ index' \in [Names -> {0} \cup Versions]
      /\ \A m \in Names : m # n => index'[m] = index[m]
      /\ index'[n] = IF way = "upload" THEN src[n] ELSE dst[n]
  BY <1>2, <1>3
<1>5. way # "copy" /\ ~final
  BY <1>1 DEF EnumInv, EnumTypeOK, OverInv
<1>6. EnumTypeOK' /\ HistoryInv' /\ OverInv'
  BY <1>1, <1>4 DEF EnumInv, EnumTypeOK, HistoryInv, OverInv, modeVars, partVars, removeVars
<1>7. IndexInv'
  BY <1>1, <1>4, <1>5 DEF EnumInv, IndexInv, modeVars, partVars
<1>8. MetInv'
  BY <1>1, <1>2, <1>4 DEF EnumInv, MetInv, modeVars
<1>9. SourceInv'
  BY <1>1 DEF SourceInv, Awaited
<1>10. ExtrasInv'
  BY <1>1, <1>4 DEF EnumInv, ExtrasInv, ExtraAwaited, modeVars, removeVars
<1>11. OrderedInv' /\ PartsInv'
  BY <1>1 DEF EnumInv, OrderedInv, PartsInv, Ordered, partVars
<1> QED BY <1>6, <1>7, <1>8, <1>9, <1>10, <1>11 DEF EnumInv

(* The second traversal, of the destination.                               *)
LEMMA CompareDestinationKeeps ==
  ASSUME EnumInv, NEW n \in Names, Bring(n), CompareDestination(n)
  PROVE  EnumInv'
<1>1. /\ phase = "second" /\ n \notin seen /\ seen' = seen \cup {n} /\ way = "upload" /\ ~final
      /\ UNCHANGED <<modeVars, src, phase, failed, outcome, wasAbsent, changed>>
  BY DEF Bring, CompareDestination, Side, SourceIsFirst, EnumInv, OverInv
<1>2. /\ index \in [Names -> {0} \cup Versions] /\ src \in [Names -> {0} \cup Versions]
      /\ dst \in [Names -> {0} \cup Versions] /\ ~Ordered(n)
  BY <1>1 DEF EnumInv, EnumTypeOK, OrderedInv
<1>3. HistoryInv'
  BY <1>1 DEF EnumInv, HistoryInv
<1>4. CASE index[n] = 0
  <2>1. RemoveImmediately(n) /\ UNCHANGED <<index, partVars>>
    BY <1>4 DEF CompareDestination
  <2>2. /\ dst' = dst \/ dst' = [dst EXCEPT ![n] = 0]
        /\ deletion = "true" =>
              consent' = [ask |-> FALSE, yes |-> TRUE] /\ (dst'[n] = 0 \/ n \in spared')
        /\ spared \subseteq spared'
    BY <2>1, RemoveDoes DEF EnumInv
  <2>3. dst' \in [Names -> {0} \cup Versions] /\ \A m \in Names : m # n => dst'[m] = dst[m]
    BY <1>2, <2>2
  <2>4. EnumTypeOK' /\ OverInv'
    BY <1>1, <2>1, <2>2, <2>3 DEF EnumInv, EnumTypeOK, OverInv, modeVars, partVars
  <2>5. IndexInv' /\ MetInv'
    BY <1>1, <1>4, <2>1 DEF EnumInv, IndexInv, MetInv, modeVars, partVars
  <2>6. SourceInv'
    <3>1. n \notin changed \cup blind => src[n] = 0
      BY <1>1, <1>4 DEF EnumInv, MetInv, HistoryInv
    <3> QED BY <1>1, <2>1, <2>3, <3>1
            DEF EnumInv, SourceInv, Awaited, UpToDate, modeVars, partVars
  <2>7. ExtrasInv'
    BY <1>1, <2>1, <2>2, <2>3 DEF EnumInv, ExtrasInv, ExtraAwaited, modeVars
  <2>8. OrderedInv' /\ PartsInv'
    BY <1>1, <2>1 DEF EnumInv, OrderedInv, PartsInv, Ordered, partVars
  <2> QED BY <1>3, <2>4, <2>5, <2>6, <2>7, <2>8 DEF EnumInv
<1>5. CASE index[n] # 0
  <2>1. /\ index' = [index EXCEPT ![n] = 0] /\ UNCHANGED <<dst, removeVars>>
        /\ \/ Newer(n, index[n], dst[n]) /\ Schedule(n, index[n])
           \/ ~Newer(n, index[n], dst[n]) /\ UNCHANGED partVars
    BY <1>5 DEF CompareDestination
  <2>2. index' \in [Names -> {0} \cup Versions] /\ index'[n] = 0
        /\ \A m \in Names : m # n => index'[m] = index[m]
    BY <1>2, <2>1
  <2>3. /\ PartsInv' /\ final' = final
        /\ \A m : Ordered(m)' => Ordered(m) \/ m = n
        /\ toDo \cup Range(part) \subseteq toDo' \cup Range(part')
        /\ Newer(n, index[n], dst[n]) => <<n, index[n]>> \in toDo' \cup Range(part')
    <3>1. CASE Schedule(n, index[n])
      BY <1>1, <1>2, <1>5, <3>1, Numbers, ScheduleDoes DEF EnumInv
    <3>2. CASE ~Newer(n, index[n], dst[n]) /\ UNCHANGED partVars
      BY <3>2 DEF EnumInv, PartsInv, Ordered, partVars
    <3> QED BY <2>1, <3>1, <3>2
  <2>4. EnumTypeOK' /\ OverInv'
    BY <1>1, <2>1, <2>2, <2>3 DEF EnumInv, EnumTypeOK, OverInv, modeVars, removeVars
  <2>5. IndexInv' /\ MetInv'
    BY <1>1, <2>2, <2>3 DEF EnumInv, IndexInv, MetInv, modeVars
  <2>6. SourceInv'
    <3>1. n \notin changed \cup blind => index[n] = src[n]
      BY <1>1, <1>5 DEF EnumInv, IndexInv
    <3>2. ~Newer(n, index[n], dst[n]) => ~mirror /\ dst[n] >= index[n]
      BY <1>2, Numbers DEF Newer, EnumInv
    <3>3. n \notin changed \cup blind =>
             <<n, src[n]>> \in toDo' \cup Range(part') \/ UpToDate(n)'
      BY <1>1, <2>1, <2>3, <3>1, <3>2 DEF UpToDate, modeVars
    <3> QED BY <1>1, <2>1, <2>2, <2>3, <3>3 DEF EnumInv, SourceInv, Awaited, UpToDate, modeVars
  <2>7. ExtrasInv'
    <3>1. n \notin changed => index[n] = src[n]
      BY <1>1, <1>5 DEF EnumInv, IndexInv
    <3> QED BY <1>1, <1>5, <2>1, <2>2, <3>1 DEF EnumInv, ExtrasInv, ExtraAwaited, modeVars, removeVars
  <2>8. OrderedInv'
    BY <1>1, <2>2, <2>3 DEF EnumInv, OrderedInv
  <2> QED BY <1>3, <2>3, <2>4, <2>5, <2>6, <2>7, <2>8 DEF EnumInv
<1> QED BY <1>4, <1>5

(* The second traversal, of the source.                                    *)
LEMMA CompareSourceKeeps ==
  ASSUME EnumInv, NEW n \in Names, Bring(n), CompareSource(n)
  PROVE  EnumInv'
<1>1. /\ phase = "second" /\ n \notin seen /\ seen' = seen \cup {n} /\ way # "upload" /\ ~final
      /\ UNCHANGED <<modeVars, src, phase, failed, outcome, wasAbsent, changed, dst, removeVars>>
      /\ index' = [index EXCEPT ![n] = 0] /\ src[n] # 0
  BY Numbers DEF Bring, CompareSource, Side, SourceIsFirst, There, EnumInv, OverInv
<1>2. /\ index \in [Names -> {0} \cup Versions] /\ src \in [Names -> {0} \cup Versions]
      /\ dst \in [Names -> {0} \cup Versions] /\ ~Ordered(n) /\ src[n] \in Versions
  BY <1>1, Numbers DEF EnumInv, EnumTypeOK, OrderedInv
<1>3. index' \in [Names -> {0} \cup Versions] /\ index'[n] = 0
      /\ \A m \in Names : m # n => index'[m] = index[m]
  BY <1>1, <1>2
<1>4. /\ PartsInv' /\ final' = final
      /\ \A m : Ordered(m)' => Ordered(m) \/ m = n
      /\ toDo \cup Range(part) \subseteq toDo' \cup Range(part')
      /\ index[n] = 0 \/ Newer(n, src[n], index[n]) => <<n, src[n]>> \in toDo' \cup Range(part')
  <2>1. CASE Schedule(n, src[n])
    BY <1>1, <1>2, <2>1, ScheduleDoes
  <2>2. CASE ~(index[n] = 0 \/ Newer(n, src[n], index[n])) /\ UNCHANGED partVars
    BY <2>2 DEF EnumInv, PartsInv, Ordered, partVars
  <2> QED BY <2>1, <2>2 DEF CompareSource
<1>5. EnumTypeOK' /\ HistoryInv' /\ OverInv'
  BY <1>1, <1>3, <1>4 DEF EnumInv, EnumTypeOK, HistoryInv, OverInv, modeVars, removeVars
<1>6. IndexInv' /\ MetInv'
  BY <1>1, <1>3, <1>4 DEF EnumInv, IndexInv, MetInv, modeVars
<1>7. SourceInv'
  <2>1. index[n] = 0 \/ (index[n] = dst[n] /\ way # "copy")
    BY <1>1 DEF EnumInv, IndexInv
  <2>2. ~Newer(n, src[n], index[n]) => ~mirror /\ index[n] >= src[n]
    BY <1>2, Numbers DEF Newer, EnumInv
  <2>3. <<n, src[n]>> \in toDo' \cup Range(part') \/ UpToDate(n)'
    BY <1>1, <1>4, <2>1, <2>2 DEF UpToDate, modeVars
  <2> QED BY <1>1, <1>4, <2>3 DEF EnumInv, SourceInv, Awaited, UpToDate, modeVars
<1>8. ExtrasInv'
  BY <1>1, <1>3 DEF EnumInv, ExtrasInv, ExtraAwaited, modeVars, removeVars
<1>9. OrderedInv'
  BY <1>1, <1>3, <1>4 DEF EnumInv, OrderedInv
<1> QED BY <1>4, <1>5, <1>6, <1>7, <1>8, <1>9 DEF EnumInv

(* A side has been scanned, to its end or to an error.                     *)
LEMMA SideIsScannedKeeps ==
  ASSUME EnumInv, SideIsScanned
  PROVE  EnumInv'
<1>1. /\ seen' = {} /\ phase \in {"first", "second"} /\ ~final
      /\ UNCHANGED <<modeVars, src, dst, index, partVars, failed, removeVars, wasAbsent, changed>>
      /\ \/ phase' = "over" /\ outcome' = "error"
         \/ phase' = (IF phase = "first" THEN "second" ELSE "finalize") /\ outcome' = outcome
      /\ \A n \in Names : There(n) => n \in seen \cup Hidden
  BY DEF SideIsScanned, EnumInv, OverInv
<1>2. EnumTypeOK' /\ HistoryInv' /\ OverInv' /\ IndexInv'
  BY <1>1 DEF EnumInv, EnumTypeOK, HistoryInv, OverInv, IndexInv, modeVars, partVars, removeVars
<1>3. \A n \in Names : /\ There(n) <=> (IF way = "upload" <=> phase = "first"
                                        THEN src[n] # 0 ELSE dst[n] # 0)
                       /\ n \in Hidden => n \in blind
  BY Numbers DEF EnumInv, There, Hidden, Side, SourceIsFirst
<1>4. MetInv'
  <2> SUFFICES ASSUME NEW n \in Names \ (wasAbsent \cup blind)
               PROVE  /\ way = "upload" /\ phase' = "second" => index[n] # 0
                      /\ way # "upload" /\ phase' = "finalize" => index[n] = 0
    BY <1>1 DEF MetInv, modeVars
  <2>1. src[n] # 0
    BY DEF EnumInv, HistoryInv
  <2>2. way = "upload" /\ phase = "first" => n \in seen
    BY <1>1, <1>3, <2>1
  <2>3. way # "upload" /\ phase = "second" => n \in seen
    BY <1>1, <1>3, <2>1
  <2> QED BY <1>1, <2>2, <2>3 DEF EnumInv, MetInv
<1>5. SourceInv'
  <2> SUFFICES ASSUME outcome' # "error", NEW n \in Names \ (changed \cup blind), src[n] # 0
               PROVE  \/ Awaited(n)'
                      \/ <<n, src[n]>> \in toDo \cup Range(part) \/ n \in failed
                      \/ UpToDate(n)
    BY <1>1 DEF SourceInv, UpToDate, modeVars, partVars
  <2>1. n \notin wasAbsent
    BY DEF EnumInv, HistoryInv
  <2>2. CASE phase = "first"
    BY <1>1, <2>2 DEF Awaited
  <2>3. CASE phase = "second" /\ way = "upload" /\ n \notin seen
    BY <1>1, <2>1, <2>3 DEF EnumInv, MetInv, Awaited, modeVars
  <2>4. CASE phase = "second" /\ way # "upload"
    <3>1. n \in seen
      BY <1>1, <1>3, <2>4
    <3> QED BY <1>1, <2>4, <3>1 DEF EnumInv, SourceInv, Awaited
  <2>5. CASE phase = "second" /\ way = "upload" /\ n \in seen
    BY <1>1, <2>5 DEF EnumInv, SourceInv, Awaited, modeVars
  <2> QED BY <1>1, <2>2, <2>3, <2>4, <2>5
<1>6. ExtrasInv'
  <2> SUFFICES ASSUME outcome' # "error", deletion = "true", NEW n \in Names \ changed, src[n] = 0
               PROVE  dst[n] = 0 \/ n \in spared \/ ExtraAwaited(n)'
    BY <1>1 DEF ExtrasInv, modeVars, removeVars
  <2>1. dst[n] = 0 \/ n \in spared \/ ExtraAwaited(n)
    BY <1>1 DEF EnumInv, ExtrasInv
  <2>2. CASE way = "upload"
    <3>1. n \notin Hidden \/ phase = "first"
      BY <2>2 DEF Hidden, Side, SourceIsFirst
    <3> QED BY <1>1, <1>3, <2>1, <2>2, <3>1 DEF ExtraAwaited, modeVars
  <2>3. CASE way # "upload"
    <3>1. n \notin Hidden \/ phase = "second"
      BY <1>1, <2>3 DEF Hidden, Side, SourceIsFirst
    <3> QED BY <1>1, <1>3, <2>1, <2>3, <3>1 DEF ExtraAwaited, modeVars
  <2> QED BY <2>2, <2>3
<1>7. OrderedInv' /\ PartsInv'
  <2>1. \A n \in Names : Ordered(n) => phase' # "first" /\ phase' # "second" /\ index[n] = 0
    BY <1>1 DEF EnumInv, OrderedInv
  <2> QED BY <1>1, <2>1 DEF EnumInv, OrderedInv, PartsInv, Ordered, partVars
<1> QED BY <1>2, <1>4, <1>5, <1>6, <1>7 DEF EnumInv

(* What is left in the index.                                              *)
LEMMA TraverseIndexKeeps ==
  ASSUME EnumInv, NEW n \in Names, TraverseIndex(n)
  PROVE  EnumInv'
<1>1. /\ phase = "finalize" /\ index[n] # 0 /\ way # "copy" /\ ~final
      /\ index' = [index EXCEPT ![n] = 0]
      /\ UNCHANGED <<modeVars, src, phase, seen, failed, outcome, wasAbsent, changed>>
  BY Numbers DEF TraverseIndex, EnumInv, OverInv, IndexInv
<1>2. /\ index \in [Names -> {0} \cup Versions] /\ src \in [Names -> {0} \cup Versions]
      /\ dst \in [Names -> {0} \cup Versions] /\ ~Ordered(n) /\ index[n] \in Versions
  BY <1>1, Numbers DEF EnumInv, EnumTypeOK, OrderedInv
<1>3. index' \in [Names -> {0} \cup Versions] /\ index'[n] = 0
      /\ \A m \in Names : m # n => index'[m] = index[m]
  BY <1>1, <1>2
<1>4. HistoryInv'
  BY <1>1 DEF EnumInv, HistoryInv
<1>5. MetInv'
  BY <1>1, <1>3 DEF EnumInv, MetInv, modeVars
<1>6. CASE way = "upload"
  <2>1. Schedule(n, index[n]) /\ UNCHANGED <<dst, removeVars>>
    BY <1>6 DEF TraverseIndex, SourceIsFirst
  <2>2. /\ PartsInv' /\ final' = final
        /\ \A m : Ordered(m)' <=> Ordered(m) \/ m = n
        /\ toDo' \cup Range(part') = toDo \cup Range(part) \cup {<<n, index[n]>>}
    BY <1>1, <1>2, <2>1, ScheduleDoes
  <2>3. n \notin changed => index[n] = src[n]
    BY <1>1, <1>6 DEF EnumInv, IndexInv
  <2>4. EnumTypeOK' /\ OverInv' /\ IndexInv'
    BY <1>1, <1>3, <2>1, <2>2 DEF EnumInv, EnumTypeOK, OverInv, IndexInv, modeVars, removeVars
  <2>5. SourceInv'
    BY <1>1, <1>3, <2>1, <2>2, <2>3 DEF EnumInv, SourceInv, Awaited, UpToDate, modeVars
  <2>6. ExtrasInv'
    BY <1>1, <1>3, <1>6, <2>1 DEF EnumInv, ExtrasInv, ExtraAwaited, modeVars, removeVars
  <2>7. OrderedInv'
    BY <1>1, <1>3, <2>2 DEF EnumInv, OrderedInv
  <2> QED BY <1>4, <1>5, <2>2, <2>4, <2>5, <2>6, <2>7 DEF EnumInv
<1>7. CASE way # "upload"
  <2>1. RemoveImmediately(n) /\ UNCHANGED partVars
    BY <1>7 DEF TraverseIndex, SourceIsFirst
  <2>2. /\ dst' = dst \/ dst' = [dst EXCEPT ![n] = 0]
        /\ deletion = "true" =>
              consent' = [ask |-> FALSE, yes |-> TRUE] /\ (dst'[n] = 0 \/ n \in spared')
        /\ spared \subseteq spared'
    BY <2>1, RemoveDoes DEF EnumInv
  <2>3. dst' \in [Names -> {0} \cup Versions] /\ \A m \in Names : m # n => dst'[m] = dst[m]
    BY <1>2, <2>2
  <2>4. EnumTypeOK' /\ OverInv'
    BY <1>1, <1>3, <2>1, <2>2, <2>3 DEF EnumInv, EnumTypeOK, OverInv, modeVars, partVars
  <2>5. IndexInv'
    BY <1>1, <1>3, <2>1, <2>3 DEF EnumInv, IndexInv, modeVars, partVars
  <2>6. SourceInv'
    <3>1. n \notin changed \cup blind => src[n] = 0
      BY <1>1, <1>7 DEF EnumInv, MetInv, HistoryInv
    <3> QED BY <1>1, <1>3, <1>7, <2>1, <2>3, <3>1
            DEF EnumInv, SourceInv, Awaited, UpToDate, modeVars, partVars
  <2>7. ExtrasInv'
    BY <1>1, <1>3, <1>7, <2>2, <2>3 DEF EnumInv, ExtrasInv, ExtraAwaited, modeVars
  <2>8. OrderedInv' /\ PartsInv'
    BY <1>1, <1>3, <2>1 DEF EnumInv, OrderedInv, PartsInv, Ordered, partVars
  <2> QED BY <1>4, <1>5, <2>4, <2>5, <2>6, <2>7, <2>8 DEF EnumInv
<1> QED BY <1>6, <1>7

LEMMA DispatchFinalPartKeeps ==
  ASSUME EnumInv, DispatchFinalPart
  PROVE  EnumInv'
<1>1. /\ phase = "finalize" /\ (\A n \in Names : index[n] = 0) /\ ~final
      /\ phase' = "over" /\ final' = TRUE
      /\ parts' = Append(parts, part) /\ toDo' = toDo \cup Range(part) /\ part' = << >>
      /\ UNCHANGED <<modeVars, src, dst, seen, index, failed, outcome, removeVars, wasAbsent,
                     changed>>
  BY DEF DispatchFinalPart, EnumInv, OverInv
<1>2. /\ part \in Seq(ObjectVersion) /\ parts \in Seq(Seq(ObjectVersion)) /\ toDo \subseteq ObjectVersion
      /\ Apart(parts, part) /\ FullBefore(parts) /\ Len(part) <= PartSize
      /\ \A t \in toDo : Ordered(t[1])
      /\ parts # << >> => part # << >> /\ Len(parts[Len(parts)]) = PartSize
  BY <1>1 DEF EnumInv, PartsInv
<1>3. /\ parts' \in Seq(Seq(ObjectVersion)) /\ Len(parts') = Len(parts) + 1
      /\ DOMAIN parts' = DOMAIN parts \cup {Len(parts) + 1}
      /\ \A i \in DOMAIN parts : parts'[i] = parts[i]
      /\ parts'[Len(parts) + 1] = part /\ parts' # << >>
  BY <1>1, <1>2, AppendIs
<1>4. Apart(parts', part') /\ \A m : Ordered(m)' <=> Ordered(m)
  BY <1>1, <1>2, BecomesAPart, Zenon DEF Ordered
<1>5. Range(part) \subseteq ObjectVersion /\ \A t \in Range(part) : Ordered(t[1])
  BY <1>2 DEF Range, Ordered, Held
<1>6. PartsInv'
  <2>1. << >> \in Seq(ObjectVersion) /\ Len(<< >>) = 0 /\ 0 <= PartSize
    BY EnumAssumption
  <2>2. FullBefore(parts')
    <3>1. \A i \in DOMAIN parts : Len(parts[i]) = PartSize
      <4>1. CASE parts = << >>
        BY <4>1
      <4>2. CASE parts # << >>
        BY <1>2, <4>2 DEF FullBefore
      <4> QED BY <4>1, <4>2
    <3> QED BY <1>2, <1>3, <3>1 DEF FullBefore
  <2>3. Len(parts') = 1 \/ parts'[Len(parts')] # << >>
    <3>1. CASE parts = << >>
      BY <1>3, <3>1
    <3>2. CASE parts # << >>
      BY <1>2, <1>3, <3>2
    <3> QED BY <3>1, <3>2
  <2>4. \A t \in toDo' : Ordered(t[1])'
    BY <1>1, <1>2, <1>4, <1>5
  <2>5. Len(parts'[Len(parts')]) <= PartSize
    BY <1>2, <1>3
  <2> QED BY <1>1, <1>2, <1>3, <1>4, <1>5, <2>1, <2>2, <2>3, <2>4, <2>5 DEF PartsInv
<1>7. EnumTypeOK' /\ HistoryInv' /\ OverInv' /\ IndexInv' /\ MetInv'
  BY <1>1 DEF EnumInv, EnumTypeOK, HistoryInv, OverInv, IndexInv, MetInv, modeVars, removeVars
<1>8. SourceInv' /\ ExtrasInv'
  BY <1>1 DEF EnumInv, SourceInv, Awaited, UpToDate, ExtrasInv, ExtraAwaited, modeVars, removeVars
<1>9. OrderedInv'
  BY <1>1, <1>4 DEF OrderedInv
<1> QED BY <1>6, <1>7, <1>8, <1>9 DEF EnumInv

(* A transfer ends well, or with the failure of a changed source.          *)
LEMMA TransferKeeps ==
  ASSUME EnumInv, NEW n \in Names, Transfer(n)
  PROVE  EnumInv'
<1>1. PICK v \in Versions :
        /\ <<n, v>> \in toDo /\ toDo' = toDo \ {<<n, v>>}
        /\ \/ src[n] = v /\ dst' = [dst EXCEPT ![n] = v] /\ UNCHANGED failed
           \/ failed' = failed \cup {n} /\ UNCHANGED dst
  BY DEF Transfer
<1>2. UNCHANGED <<modeVars, src, phase, seen, index, part, parts, final, outcome, removeVars,
                  wasAbsent, changed>>
  BY DEF Transfer
<1>3. Ordered(n)
  <2>1. \A t \in toDo : Ordered(t[1])
    BY DEF EnumInv, PartsInv
  <2>2. <<n, v>>[1] = n
    OBVIOUS
  <2> QED BY <1>1, <2>1, <2>2
<1>4. index[n] = 0 /\ outcome # "success" /\ v # 0
  BY <1>1, <1>3, EnumAssumption DEF EnumInv, OrderedInv, OverInv
<1>5. /\ src \in [Names -> {0} \cup Versions] /\ dst \in [Names -> {0} \cup Versions]
  BY DEF EnumInv, EnumTypeOK
<1>6. /\ dst' \in [Names -> {0} \cup Versions] /\ \A m \in Names : m # n => dst'[m] = dst[m]
      /\ dst'[n] = src[n] \/ (n \in failed' /\ dst' = dst)
      /\ src[n] = 0 => dst' = dst
      /\ failed \subseteq failed'
  BY <1>1, <1>4, <1>5
<1>7. \A m \in Names : m # n => (<<m, src[m]>> \in toDo => <<m, src[m]>> \in toDo')
  BY <1>1
<1>8. EnumTypeOK' /\ HistoryInv' /\ MetInv' /\ OverInv'
  BY <1>2, <1>4, <1>6 DEF EnumInv, EnumTypeOK, HistoryInv, MetInv, OverInv, modeVars, removeVars
<1>9. IndexInv'
  BY <1>2, <1>4, <1>6 DEF EnumInv, IndexInv, modeVars
<1>10. SourceInv'
  <2>1. n \in failed' \/ UpToDate(n)'
    BY <1>2, <1>5, <1>6, Numbers DEF UpToDate, EnumInv, modeVars
  <2> QED BY <1>2, <1>6, <1>7, <2>1 DEF EnumInv, SourceInv, Awaited, UpToDate, modeVars
<1>11. ExtrasInv'
  BY <1>2, <1>6 DEF EnumInv, ExtrasInv, ExtraAwaited, modeVars, removeVars
<1>12. OrderedInv' /\ PartsInv'
  BY <1>1, <1>2 DEF EnumInv, OrderedInv, PartsInv, Ordered
<1> QED BY <1>8, <1>9, <1>10, <1>11, <1>12 DEF EnumInv

LEMMA SyncOrCopyExitsKeeps ==
  ASSUME EnumInv, outcome = "none", SyncOrCopyExits
  PROVE  EnumInv'
<1>1. /\ final /\ toDo = {} /\ outcome' = (IF failed = {} THEN "success" ELSE "error")
      /\ UNCHANGED <<modeVars, src, dst, phase, seen, index, partVars, failed, removeVars,
                     wasAbsent, changed>>
  BY DEF SyncOrCopyExits
<1>2. EnumTypeOK' /\ HistoryInv' /\ IndexInv' /\ MetInv' /\ OverInv'
  BY <1>1 DEF EnumInv, EnumTypeOK, HistoryInv, IndexInv, MetInv, OverInv, modeVars, partVars,
              removeVars
<1>3. SourceInv' /\ ExtrasInv'
  BY <1>1 DEF EnumInv, SourceInv, Awaited, UpToDate, ExtrasInv, ExtraAwaited, modeVars, partVars,
              removeVars
<1>4. OrderedInv' /\ PartsInv'
  BY <1>1 DEF EnumInv, OrderedInv, PartsInv, Ordered, partVars
<1> QED BY <1>2, <1>3, <1>4 DEF EnumInv

LEMMA SourceChangesKeeps ==
  ASSUME EnumInv, NEW n \in Names, SourceChanges(n)
  PROVE  EnumInv'
<1>1. PICK v \in {0} \cup Versions : src' = [src EXCEPT ![n] = v]
  BY DEF SourceChanges
<1>2. /\ changed' = changed \cup {n}
      /\ wasAbsent' = IF src'[n] = 0 THEN wasAbsent \cup {n} ELSE wasAbsent
      /\ UNCHANGED <<modeVars, dst, phase, seen, index, partVars, failed, outcome, removeVars>>
  BY DEF SourceChanges
<1>3. src' \in [Names -> {0} \cup Versions] /\ \A m \in Names : m # n => src'[m] = src[m]
  BY <1>1 DEF EnumInv, EnumTypeOK
<1>4. EnumTypeOK' /\ HistoryInv' /\ OverInv'
  BY <1>2, <1>3 DEF EnumInv, EnumTypeOK, HistoryInv, OverInv, modeVars, partVars, removeVars
<1>5. IndexInv' /\ MetInv'
  BY <1>2, <1>3 DEF EnumInv, IndexInv, MetInv, modeVars, partVars
<1>6. SourceInv' /\ ExtrasInv'
  BY <1>2, <1>3 DEF EnumInv, SourceInv, Awaited, UpToDate, ExtrasInv, ExtraAwaited, modeVars,
                    partVars, removeVars
<1>7. OrderedInv' /\ PartsInv'
  BY <1>2 DEF EnumInv, OrderedInv, PartsInv, Ordered, partVars
<1> QED BY <1>4, <1>5, <1>6, <1>7 DEF EnumInv

LEMMA EnumStarts ==
  ASSUME EnumInit
  PROVE  EnumInv
<1>1. /\ parts = << >> /\ part = << >> /\ toDo = {} /\ final = FALSE /\ seen = {}
      /\ index = [n \in Names |-> 0] /\ changed = {} /\ outcome = "none"
      /\ phase = (IF way = "copy" THEN "second" ELSE "first")
      /\ deletion = "true" => consent = [ask |-> FALSE, yes |-> TRUE]
      /\ way = "copy" => deletion # "true"
      /\ src \in [Names -> {0} \cup Versions] /\ dst \in [Names -> {0} \cup Versions]
      /\ wasAbsent = {n \in Names : src[n] = 0}
  BY DEF EnumInit
<1>2. PartsInv
  <2>1. << >> \in Seq(ObjectVersion) /\ << >> \in Seq(Seq(ObjectVersion)) /\ Len(<< >>) = 0 /\ 0 <= PartSize
        /\ DOMAIN << >> = {}
    BY EnumAssumption
  <2> QED BY <1>1, <2>1 DEF PartsInv, Apart, FullBefore
<1>3. ~\E n : Ordered(n)
  BY <1>1 DEF Ordered, Held
<1>4. EnumTypeOK /\ HistoryInv /\ IndexInv /\ MetInv /\ OverInv
  BY <1>1 DEF EnumTypeOK, HistoryInv, IndexInv, MetInv, OverInv
<1>5. SourceInv /\ ExtrasInv
  BY <1>1 DEF SourceInv, Awaited, ExtrasInv, ExtraAwaited
<1> QED BY <1>2, <1>3, <1>4, <1>5 DEF EnumInv, OrderedInv

LEMMA EnumInvKept ==
  ASSUME EnumInv, [EnumNext]_enumVars
  PROVE  EnumInv'
<1>1. CASE \E n \in Names : Bring(n)
  BY <1>1, StoreKeeps, CompareDestinationKeeps, CompareSourceKeeps DEF Bring
<1>2. CASE \E n \in Names : TraverseIndex(n) \/ Transfer(n) \/ SourceChanges(n)
  BY <1>2, TraverseIndexKeeps, TransferKeeps, SourceChangesKeeps
<1>3. CASE outcome = "none" /\ (SideIsScanned \/ DispatchFinalPart \/ SyncOrCopyExits)
  BY <1>3, SideIsScannedKeeps, DispatchFinalPartKeeps, SyncOrCopyExitsKeeps
<1>4. CASE UNCHANGED enumVars
  <2>1. EnumTypeOK' /\ HistoryInv' /\ IndexInv' /\ MetInv' /\ OverInv'
    BY <1>4 DEF enumVars, EnumInv, EnumTypeOK, HistoryInv, IndexInv, MetInv, OverInv, modeVars,
                partVars, removeVars
  <2>2. SourceInv' /\ ExtrasInv'
    BY <1>4 DEF enumVars, EnumInv, SourceInv, Awaited, UpToDate, ExtrasInv, ExtraAwaited,
                modeVars, partVars, removeVars
  <2>3. OrderedInv' /\ PartsInv'
    BY <1>4 DEF enumVars, EnumInv, OrderedInv, PartsInv, Ordered, partVars
  <2> QED BY <2>1, <2>2, <2>3 DEF EnumInv
<1> QED BY <1>1, <1>2, <1>3, <1>4 DEF EnumNext

-----------------------------------------------------------------------------
(* A copy or a sync that exits well has brought over whatever the source   *)
(* had all along and could be seen, and has deleted what is extra if it    *)
(* was to be: SuccessIsInSync, for every number of objects and versions,   *)
(* parts of any size and a source that changes as often as it likes.       *)
THEOREM SyncIsTrue == EnumSpec => []SuccessIsInSync
<1>1. EnumInv => SuccessIsInSync
  <2> SUFFICES ASSUME EnumInv, outcome = "success", NEW n \in Names \ (changed \cup blind)
               PROVE  /\ src[n] > 0 => IF way = "copy" \/ mirror THEN dst[n] = src[n]
                                       ELSE dst[n] >= src[n]
                      /\ src[n] = 0 /\ deletion = "true" => dst[n] = 0 \/ n \in spared
    BY DEF SuccessIsInSync
  <2>1. toDo = {} /\ failed = {} /\ phase = "over" /\ part = << >>
    BY DEF EnumInv, OverInv
  <2>2. Range(<< >>) = {}
    BY DEF Range
  <2>3. src[n] # 0 => UpToDate(n)
    BY <2>1, <2>2 DEF EnumInv, SourceInv, Awaited
  <2>4. src[n] = 0 /\ deletion = "true" => dst[n] = 0 \/ n \in spared
    BY <2>1 DEF EnumInv, ExtrasInv, ExtraAwaited
  <2> QED BY <2>3, <2>4, Numbers DEF UpToDate, EnumInv
<1> QED BY <1>1, EnumStarts, EnumInvKept, PTL DEF EnumSpec

(* Nothing is deleted that the source had all along and the traversal      *)
(* could see: SeenIsNotDeleted, however objects come and go.               *)
THEOREM NothingSeenIsDeleted == EnumSpec => []SeenIsNotDeleted
<1>1. EnumInit => SeenIsNotDeleted
  BY DEF EnumInit, SeenIsNotDeleted
<1>2. EnumInv /\ SeenIsNotDeleted /\ [EnumNext]_enumVars => SeenIsNotDeleted'
  <2> SUFFICES ASSUME EnumInv, SeenIsNotDeleted, [EnumNext]_enumVars
               PROVE  SeenIsNotDeleted'
    OBVIOUS
  <2>1. wasAbsent \subseteq wasAbsent' /\ blind' = blind
    BY DEF EnumNext, Bring, TraverseIndex, Transfer, SourceChanges, SideIsScanned,
           DispatchFinalPart, SyncOrCopyExits, enumVars, modeVars
  <2>2. ASSUME NEW n \in Names, RemoveImmediately(n), Bring(n) \/ TraverseIndex(n),
               way = "upload" => phase = "second" /\ n \notin seen /\ index[n] = 0,
               way # "upload" => phase = "finalize" /\ index[n] # 0
        PROVE  SeenIsNotDeleted'
    <3>1. n \in wasAbsent \cup blind
      BY <2>2 DEF EnumInv, MetInv
    <3>2. deleted' \subseteq deleted \cup {n}
      BY <2>2, RemoveDoes DEF EnumInv
    <3> QED BY <2>1, <3>1, <3>2 DEF SeenIsNotDeleted
  <2>3. CASE UNCHANGED deleted
    BY <2>1, <2>3 DEF SeenIsNotDeleted
  <2>4. CASE \E n \in Names : Bring(n)
    <3>1. PICK n \in Names : Bring(n)
      BY <2>4
    <3>2. CASE Store(n) \/ CompareSource(n)
      BY <2>3, <3>2 DEF Store, CompareSource, removeVars
    <3>3. CASE CompareDestination(n) /\ index[n] # 0
      BY <2>3, <3>3 DEF CompareDestination, removeVars
    <3>4. CASE CompareDestination(n) /\ index[n] = 0
      <4>1. RemoveImmediately(n) /\ phase = "second" /\ way = "upload" /\ n \notin seen
        BY <3>1, <3>4 DEF CompareDestination, Side, SourceIsFirst, Bring
      <4> QED BY <2>2, <3>1, <3>4, <4>1
    <3> QED BY <3>1, <3>2, <3>3, <3>4 DEF Bring
  <2>5. CASE \E n \in Names : TraverseIndex(n)
    <3>1. PICK n \in Names : TraverseIndex(n)
      BY <2>5
    <3>2. CASE way = "upload"
      BY <2>3, <3>1, <3>2 DEF TraverseIndex, SourceIsFirst, removeVars
    <3>3. CASE way # "upload"
      <4>1. RemoveImmediately(n) /\ phase = "finalize" /\ index[n] # 0
        BY <3>1, <3>3, Numbers DEF TraverseIndex, SourceIsFirst, EnumInv
      <4> QED BY <2>2, <3>1, <3>3, <4>1
    <3> QED BY <3>2, <3>3
  <2>6. CASE ~\E n \in Names : Bring(n) \/ TraverseIndex(n)
    <3>1. UNCHANGED deleted
      BY <2>6 DEF EnumNext, Transfer, SourceChanges, SideIsScanned, DispatchFinalPart,
                  SyncOrCopyExits, enumVars, removeVars
    <3> QED BY <2>3, <3>1
  <2> QED BY <2>4, <2>5, <2>6
<1> QED BY <1>1, <1>2, EnumStarts, EnumInvKept, PTL DEF EnumSpec

(* The job parts are full but for the last, no object is ordered twice,    *)
(* and a traversal that does not fail orders the final part:               *)
(* PartsAreWhole, for every size of the parts.                             *)
THEOREM PartsWhole == EnumSpec => []PartsAreWhole
<1>1. EnumInv => PartsAreWhole
  <2> SUFFICES ASSUME EnumInv PROVE PartsAreWhole
    OBVIOUS
  <2>1. /\ parts \in Seq(Seq(ObjectVersion)) /\ FullBefore(parts) /\ Apart(parts, part)
        /\ ~final /\ parts # << >> => Len(parts[Len(parts)]) = PartSize
        /\ final => /\ parts # << >> /\ Len(parts[Len(parts)]) <= PartSize
                    /\ Len(parts) = 1 \/ parts[Len(parts)] # << >>
    BY DEF EnumInv, PartsInv
  <2>2. ASSUME NEW i \in DOMAIN parts, ~(final /\ i = Len(parts))
        PROVE  Len(parts[i]) = PartSize
    <3>1. parts # << >>
      OBVIOUS
    <3> QED BY <2>1, <2>2, <3>1 DEF FullBefore
  <2>3. ASSUME NEW i \in DOMAIN parts, final, i = Len(parts)
        PROVE  Len(parts[i]) \in (IF i = 1 THEN 0 ELSE 1)..PartSize
    <3>1. parts[i] \in Seq(ObjectVersion)
      BY <2>1
    <3>2. Len(parts[i]) \in Nat /\ (parts[i] # << >> => Len(parts[i]) > 0)
      BY <3>1, EmptySeq
    <3> QED BY <2>1, <2>3, <3>2, EnumAssumption
  <2>4. phase = "over" => final \/ outcome = "error"
    BY DEF EnumInv, OverInv
  <2> QED BY <2>1, <2>2, <2>3, <2>4 DEF PartsAreWhole, Apart
<1> QED BY <1>1, EnumStarts, EnumInvKept, PTL DEF EnumSpec

(***************************************************************************)
(* The copy command: what it orders are objects its source yields, and the *)
(* root of a container copied to a container is not one of them.           *)
(***************************************************************************)
Cooked == [strip : BOOLEAN, list : BOOLEAN, versions : BOOLEAN, asSubdir : BOOLEAN,
           stubs : BOOLEAN, permissions : BOOLEAN, posix : BOOLEAN, filesOnly : BOOLEAN,
           decompress : BOOLEAN, dryrun : BOOLEAN, hns : BOOLEAN, recursive : BOOLEAN]

BothContainers == [from |-> "container", to |-> "container"]

OrderedOf(ft, cca, s, option) ==
    {TransferOf(o, ft, cca, s) : o \in {o \in Yielded(ft, cca, s) : CompatibleWithFpo(o, option)}}

CommandInv ==
    /\ cooked \in Cooked
    /\ stage \in {"given", "cooked", "dispatched", "refused"} => made = {}
    /\ stage \in {"panicked", "unsupported"} => fromTo \notin Inferable
    /\ stage \in {"given", "cooked", "dispatched"} => site = NoSite
    /\ stage \in {"given", "cooked", "dispatched", "initialized"} => ordered = {}
    /\ ordered \subseteq OrderedOf(fromTo, cooked, site, fpo)
    /\ site = BothContainers => fpo # "AllFolders"

LEMMA CopyInitInv == CopyInit => CommandInv
  BY DEF CopyInit, CommandInv, NoSite, BothContainers, Off, Cooked

LEMMA KeptIsCooked == ASSUME NEW c, NEW ft PROVE Kept(c, ft) \in Cooked
  BY DEF Kept, Cooked

LEMMA CopyInvStep == CommandInv /\ [CopyNext]_copyVars => CommandInv'
<1> SUFFICES ASSUME CommandInv, [CopyNext]_copyVars PROVE CommandInv'
  OBVIOUS
<1>1. CASE UNCHANGED copyVars
  BY <1>1 DEF CommandInv, copyVars, OrderedOf
<1>2. CASE Cook
  <2>1. cooked' \in Cooked
    BY <1>2, KeptIsCooked DEF Cook, CommandInv
  <2>2. ordered' = {} /\ made' = {} /\ site' = NoSite /\ stage' \in {"refused", "cooked"}
    BY <1>2 DEF Cook, CommandInv
  <2> QED BY <2>1, <2>2 DEF CommandInv, NoSite, BothContainers
<1>3. CASE Redirect
  BY <1>3 DEF Redirect, CommandInv, OrderedOf, NoSite, BothContainers
<1>4. CASE Dispatch
  <2>1. stage' \in {"panicked", "unsupported"} => fromTo \notin Inferable
    BY <1>4 DEF Dispatch, Enumerated, Inferable
  <2>2. stage' # "given" /\ stage' # "cooked" /\ stage' # "initialized" /\ stage = "cooked"
    BY <1>4 DEF Dispatch
  <2> QED BY <1>4, <2>1, <2>2 DEF Dispatch, CommandInv, OrderedOf
<1>5. CASE RemoveOrSet
  <2>1. /\ stage = "dispatched" /\ stage' \in {"refused", "ordered"}
        /\ UNCHANGED <<cooked, site, made, ordered>>
    BY <1>5 DEF RemoveOrSet
  <2> QED BY <2>1 DEF CommandInv, NoSite, BothContainers
<1>6. CASE InitEnumerator
  <2>0. stage = "dispatched" /\ cooked \in Cooked /\ ordered = {} /\ site = NoSite /\ made = {}
    BY <1>6 DEF InitEnumerator, CommandInv
  <2>1. CASE stage' = "refused" /\ UNCHANGED <<cooked, site, made, fpo>>
    BY <1>6, <2>0, <2>1 DEF InitEnumerator, CommandInv, NoSite, BothContainers, OrderedOf
  <2>2. ASSUME NEW s \in SitesOf(fromTo, cooked), site' = s, stage' = "initialized",
               cooked' = [cooked EXCEPT !.strip = @ \/ (s = BothContainers)],
               fpo' = FolderPropertyOption(fromTo, cooked', s.to = "null")
        PROVE  CommandInv'
    <3>1. cooked' \in Cooked /\ (s = BothContainers => cooked'.strip)
      BY <2>0, <2>2 DEF Cooked
    <3>2. site' = BothContainers => fpo' # "AllFolders"
      BY <2>2, <3>1 DEF FolderPropertyOption
    <3>3. ordered' = {}
      BY <1>6, <2>0 DEF InitEnumerator
    <3> QED BY <2>2, <3>1, <3>2, <3>3 DEF CommandInv
  <2> QED BY <1>6, <2>1, <2>2 DEF InitEnumerator, BothContainers
<1>7. CASE Enumerate
  BY <1>7 DEF Enumerate, CommandInv, OrderedOf
<1> QED BY <1>1, <1>2, <1>3, <1>4, <1>5, <1>6, <1>7 DEF CopyNext

Paths == {<<"f">>, <<"f.gz">>, <<"d", "f">>, <<"d">>, << >>}
KindAt(path) == IF path \in {<<"d">>, << >>} THEN "folder" ELSE "file"
AllIn(c) == {Object(p, KindAt(p), c, "") : p \in Paths}

LEMMA TreeIsIn == ASSUME NEW ft, NEW cca, NEW s, NEW c PROVE Tree(ft, cca, s, c) \subseteq AllIn(c)
<1> SUFFICES ASSUME NEW o \in Tree(ft, cca, s, c) PROVE o \in AllIn(c)
  OBVIOUS
<1>1. \/ o = Object(<<"f">>, "file", c, "") \/ o = Object(<<"f.gz">>, "file", c, "")
      \/ o = Object(<<"d", "f">>, "file", c, "") \/ o = Object(<<"d">>, "folder", c, "")
      \/ o = Object(<< >>, "folder", c, "")
  BY DEF Tree
<1>2. /\ KindAt(<<"f">>) = "file" /\ KindAt(<<"f.gz">>) = "file" /\ KindAt(<<"d", "f">>) = "file"
      /\ KindAt(<<"d">>) = "folder" /\ KindAt(<< >>) = "folder"
  BY DEF KindAt
<1> QED BY <1>1, <1>2 DEF Paths, AllIn

(* In one container the path tells an object.                              *)
LEMMA InObjects ==
  ASSUME NEW c, NEW o \in AllIn(c)
  PROVE  /\ o.container = c /\ o.version = "" /\ o.path \in Paths
         /\ o.kind = KindAt(o.path)
         /\ o = Object(o.path, KindAt(o.path), c, "")
         /\ ~SingleSourceFile(o)
<1>1. PICK p \in Paths : o = Object(p, KindAt(p), c, "")
  BY DEF AllIn
<1>2. o.path = p /\ o.kind = KindAt(p) /\ o.container = c /\ o.version = ""
  BY <1>1 DEF Object
<1>3. ~SingleSourceFile(o)
  BY <1>2 DEF SingleSourceFile, KindAt
<1> QED BY <1>1, <1>2, <1>3

LEMMA Prefixed ==
  ASSUME NEW S, NEW c \in S, NEW d \in S, NEW p \in Seq(S), NEW q \in Seq(S),
         <<c>> \o p = <<d>> \o q
  PROVE  c = d /\ p = q
<1>1. Len(p) = Len(q) /\ c = d
  OBVIOUS
<1>2. \A i \in 1..Len(p) : p[i] = (<<c>> \o p)[i + 1] /\ q[i] = (<<d>> \o q)[i + 1]
  BY <1>1
<1>3. \A i \in 1..Len(p) : p[i] = q[i]
  BY <1>1, <1>2
<1> QED BY <1>1, <1>3

LEMMA ShortPaths ==
  ASSUME NEW S, NEW m \in S, NEW n \in S
  PROVE  <<m>> \in Seq(S) /\ <<m, n>> \in Seq(S) /\ << >> \in Seq(S)
  OBVIOUS

LEMMA ContainersApart ==
  ASSUME NEW c \in Containers, NEW d \in Containers, NEW p \in Paths, NEW q \in Paths,
         <<c>> \o p = <<d>> \o q
  PROVE  c = d /\ p = q
<1> DEFINE S == {"c1", "c2", "d", "f", "f.gz"}
<1>1. c \in S /\ d \in S /\ "d" \in S /\ "f" \in S /\ "f.gz" \in S
  BY DEF Containers
<1> HIDE DEF S
<1>2. Paths \subseteq Seq(S)
  BY <1>1, ShortPaths DEF Paths
<1> QED BY <1>1, <1>2, Prefixed

(* A pair of locations that was inferred is dispatched, a command that is  *)
(* refused has made no container, and the root of a container copied to a  *)
(* container is not ordered: InitEnumerator strips the top directory       *)
(* there, and the folder property option then never is all folders.        *)
THEOREM CarriedOut == CopySpec => []CommandsAreCarriedOut
<1>1. CommandInv => CommandsAreCarriedOut
  <2> SUFFICES ASSUME CommandInv, site = BothContainers, NEW t \in ordered
               PROVE  t.object.path # <<>>
    BY DEF CommandInv, CommandsAreCarriedOut, BothContainers
  <2>1. PICK o \in Yielded(fromTo, cooked, site) :
           t = TransferOf(o, fromTo, cooked, site) /\ CompatibleWithFpo(o, fpo)
    BY DEF CommandInv, OrderedOf
  <2>2. t.object = o
    BY <2>1 DEF TransferOf
  <2>3. site.from = "container" /\ fpo # "AllFolders"
    BY DEF CommandInv, BothContainers
  <2>4. PICK c : o \in AllIn(c)
    BY <2>3, TreeIsIn DEF Yielded
  <2>5. o.kind = KindAt(o.path)
    BY <2>4, InObjects
  <2>6. o.path = << >> => o.kind # "file"
    BY <2>5 DEF KindAt
  <2> QED BY <2>1, <2>2, <2>3, <2>6 DEF CompatibleWithFpo
<1> QED BY <1>1, CopyInitInv, CopyInvStep, PTL DEF CopySpec

(* The path made for the source tells the objects of one command apart.    *)
LEMMA SourcePath ==
  ASSUME NEW ft, NEW cca, NEW s, NEW o \in Yielded(ft, cca, s)
  PROVE  \/ /\ s.from = "service"
            /\ o.container \in Containers /\ o \in AllIn(o.container)
            /\ TransferOf(o, ft, cca, s).source = <<o.container>> \o o.path
         \/ /\ s.from = "file" /\ \E v : o = Object(<< >>, "file", SourceContainer(ft), v)
         \/ /\ s.from \notin {"service", "file"} /\ o \in AllIn(SourceContainer(ft))
            /\ TransferOf(o, ft, cca, s).source = o.path
<1>1. CASE s.from = "service"
  <2>1. PICK c \in Containers : o \in AllIn(c)
    BY <1>1, TreeIsIn DEF Yielded
  <2>2. o.container = c /\ c # "" /\ ~SingleSourceFile(o)
    BY <2>1, InObjects DEF Containers
  <2>3. Containered(o, ft, s).source = c /\ Containered(o, ft, s).object = o
    BY <1>1, <2>2 DEF Containered, Level
  <2> QED BY <1>1, <2>1, <2>2, <2>3 DEF TransferOf, RelativePath
<1>2. CASE s.from = "file"
  BY <1>2 DEF Yielded
<1>3. CASE s.from \notin {"service", "file"}
  <2>1. o \in AllIn(SourceContainer(ft))
    BY <1>3, TreeIsIn DEF Yielded
  <2>2. ~SingleSourceFile(o)
    BY <2>1, InObjects
  <2>3. Level(ft[1], s.from) # 0
    BY <1>3 DEF Level
  <2>4. Containered(o, ft, s).source = "" /\ Containered(o, ft, s).object = o
    BY <2>3 DEF Containered
  <2> QED BY <1>3, <2>1, <2>2, <2>4 DEF TransferOf, RelativePath
<1> QED BY <1>1, <1>2, <1>3

LEMMA PathsTellApart ==
  ASSUME NEW ft, NEW cca, NEW s, NEW a \in Yielded(ft, cca, s), NEW b \in Yielded(ft, cca, s),
         TransferOf(a, ft, cca, s).source = TransferOf(b, ft, cca, s).source,
         a.version = b.version
  PROVE  a = b
<1>1. CASE s.from = "service"
  <2>1. /\ a.container \in Containers /\ a \in AllIn(a.container)
        /\ b.container \in Containers /\ b \in AllIn(b.container)
        /\ <<a.container>> \o a.path = <<b.container>> \o b.path
    BY <1>1, SourcePath
  <2>2. /\ a.path \in Paths /\ a = Object(a.path, KindAt(a.path), a.container, "")
        /\ b.path \in Paths /\ b = Object(b.path, KindAt(b.path), b.container, "")
    BY <2>1, InObjects
  <2>3. a.container = b.container /\ a.path = b.path
    <3> DEFINE c == a.container  d == b.container  p == a.path  q == b.path
    <3>1. c \in Containers /\ d \in Containers /\ p \in Paths /\ q \in Paths /\ <<c>> \o p = <<d>> \o q
      BY <2>1, <2>2
    <3> HIDE DEF c, d, p, q
    <3>2. c = d /\ p = q
      BY <3>1, ContainersApart
    <3> QED BY <3>2 DEF c, d, p, q
  <2> QED BY <2>2, <2>3
<1>2. CASE s.from = "file"
  <2>1. PICK v : a = Object(<< >>, "file", SourceContainer(ft), v)
    BY <1>2, SourcePath
  <2>2. PICK w : b = Object(<< >>, "file", SourceContainer(ft), w)
    BY <1>2, SourcePath
  <2> QED BY <2>1, <2>2 DEF Object
<1>3. CASE s.from \notin {"service", "file"}
  <2>1. /\ a.path = b.path
        /\ a \in AllIn(SourceContainer(ft)) /\ b \in AllIn(SourceContainer(ft))
    BY <1>3, SourcePath
  <2>2. /\ a = Object(a.path, KindAt(a.path), SourceContainer(ft), "")
        /\ b = Object(b.path, KindAt(b.path), SourceContainer(ft), "")
    BY <2>1, InObjects
  <2> QED BY <2>1, <2>2
<1> QED BY <1>1, <1>2, <1>3

(* Two transfers ordered by one command do not end in the same place: the  *)
(* relative path that MakeEscapedRelativePath makes, with the container    *)
(* before it when there are several, tells the objects yielded apart.      *)
THEOREM AreApart == CopySpec => []TransfersAreApart
<1>1. CommandInv => TransfersAreApart
  <2> SUFFICES ASSUME CommandInv, NEW x \in ordered, NEW y \in ordered,
                      x.destination = y.destination, ~cooked.decompress,
                      x.object.version = y.object.version
               PROVE  x = y
    BY DEF TransfersAreApart
  <2>1. PICK a \in Yielded(fromTo, cooked, site) : x = TransferOf(a, fromTo, cooked, site)
    BY DEF CommandInv, OrderedOf
  <2>2. PICK b \in Yielded(fromTo, cooked, site) : y = TransferOf(b, fromTo, cooked, site)
    BY DEF CommandInv, OrderedOf
  <2>3. /\ x.object = a /\ y.object = b
        /\ x.destination = x.source /\ y.destination = y.source
    BY <2>1, <2>2 DEF TransferOf
  <2>4. a = b
    BY <2>1, <2>2, <2>3, PathsTellApart
  <2> QED BY <2>1, <2>2, <2>4
<1> QED BY <1>1, CopyInitInv, CopyInvStep, PTL DEF CopySpec

(***************************************************************************)
(* The crawl. An entry is at one place at a time, from the directory it is *)
(* below to the caller: in a directory not started, claimed by a worker,   *)
(* in a channel, in the hands of the second pool, or delivered.            *)
(***************************************************************************)
Results == {Found(f) : f \in Files} \cup {Failed(x) : x \in Dirs \cup Files}

Busy == {"list", "listed", "error"}
Active == {w \in Workers : worker[w].pc \in Busy}
WorkerState == [pc : Busy \cup {"acquire", "waiting", "send error", "gone"},
                dir : Dirs \cup {"none"}, names : SUBSET Files, puts : SUBSET Results,
                found : SUBSET Dirs]
Loaded == {"get", "check", "put"}
HandState == [pc : Loaded \cup {"take", "put error", "gone"}, file : Dirs \cup Files \cup {"none"}]
RightlyHeld(hands) ==
    \A t \in Transformers : /\ hands[t].pc \in Loaded => hands[t].file \in Files
                            /\ hands[t].pc = "put error" => hands[t].file \in Dirs \cup Files
Holding == {t \in Transformers : transformer[t].pc \in Loaded}

CrawlTypeOK ==
    /\ mode \in Modes /\ (ended = "no" => ctxDone = FALSE) /\ sharedErr \in BOOLEAN
    /\ unstarted \in Seq(Dirs) /\ dirInProgress = Cardinality(Active)
    /\ worker \in [Workers -> WorkerState]
    /\ output \in Seq(Results) /\ transformed \in Seq(Results)
    /\ transformer \in [Transformers -> HandState]
    /\ RightlyHeld(transformer)
    /\ delivered \in [Files -> {0, 1}]

(* What a worker is to bring: names not read, results, and what is below   *)
(* the directories it has found or is about to find.                       *)
Putting(r) == {f \in Files : Found(f) \in r.puts}
Kids(r) == r.found
Coming(r) == UNION {Below(c) : c \in Kids(r)}
ClaimOf(r) == r.names \cup Putting(r) \cup Coming(r)
Claim(w) == ClaimOf(worker[w])

In(seq) == {f \in Files : \E i \in DOMAIN seq : seq[i] = Found(f)}
InHand == {transformer[t].file : t \in Holding}
Delivered == {f \in Files : delivered[f] = 1}
Passed == In(output) \cup InHand \cup In(transformed) \cup Delivered

Single(seq) ==
    \A f \in Files : \A i, j \in DOMAIN seq : seq[i] = Found(f) /\ seq[j] = Found(f) => i = j

PassedOnce ==
    /\ Single(output) /\ Single(transformed)
    /\ \A t, u \in Holding : transformer[t].file = transformer[u].file => t = u
    /\ In(output) \cap InHand = {} /\ In(output) \cap In(transformed) = {}
    /\ In(output) \cap Delivered = {} /\ InHand \cap In(transformed) = {}
    /\ InHand \cap Delivered = {} /\ In(transformed) \cap Delivered = {}

WorkersApart ==
    /\ \A w \in Workers : /\ Claim(w) \cap Passed = {}
                          /\ \A i \in DOMAIN unstarted : Claim(w) \cap Below(unstarted[i]) = {}
                          /\ \A v \in Workers : v # w => Claim(w) \cap Claim(v) = {}
    /\ \A i \in DOMAIN unstarted : /\ Below(unstarted[i]) \cap Passed = {}
                                   /\ \A j \in DOMAIN unstarted :
                                         i # j => Below(unstarted[i]) \cap Below(unstarted[j]) = {}

(* Of one worker.                                                          *)
OwnOf(r) ==
    /\ r.names \cap Putting(r) = {} /\ r.names \cap Coming(r) = {}
    /\ Putting(r) \cap Coming(r) = {}
    /\ \A c, d \in Kids(r) : c # d => Below(c) \cap Below(d) = {}
    /\ r.pc \in Busy \cup {"send error"} => r.dir \in Dirs
    /\ r.pc = "list" => r.names \subseteq FilesIn[r.dir] /\ r.found \subseteq Subdirs[r.dir]
    /\ r.pc \in {"listed", "error"} => r.names = {}
    /\ r.pc \notin Busy => r.names = {} /\ r.puts = {} /\ r.found = {}
    /\ r.pc \in {"error", "send error"} => bad # {}
    /\ \A p \in r.puts : p.err => bad # {}

WorkersOwn == \A w \in Workers : OwnOf(worker[w])

(* What is reported, or on its way to the caller as an error.              *)
FailedIn(r) ==
    {x \in Dirs \cup Files : \/ Failed(x) \in r.puts
                             \/ r.pc \in {"error", "send error"} /\ r.dir = x}
ErrIn(seq) == {x \in Dirs \cup Files : \E i \in DOMAIN seq : seq[i] = Failed(x)}
ErrHeld ==
    {x \in Dirs \cup Files : \E t \in Transformers :
                                transformer[t].pc = "put error" /\ transformer[t].file = x}
Underway == ErrIn(output) \cup ErrHeld \cup ErrIn(transformed) \cup (warned \cap (Dirs \cup Files))
Failing == Underway \cup {x \in Dirs \cup Files : \E w \in Workers : x \in FailedIn(worker[w])}

Concerns(xs) == (UNION {Below(d) : d \in xs \cap Dirs}) \cup (xs \cap Files)
Missable == skipped \cup Concerns(Failing)

(* Every entry is on its way, has come, is reported or was skipped.        *)
NothingLost ==
    \A f \in Files \ Missable : \/ f \in Passed
                                \/ \E w \in Workers : f \in Claim(w)
                                \/ \E i \in DOMAIN unstarted : f \in Below(unstarted[i])

(* A worker that leaves is sure that there is nothing more.                *)
GoneInv ==
    ended = "no" =>
        /\ (\E w \in Workers : worker[w].pc = "gone") => unstarted = << >> /\ Active = {}
        /\ (\E t \in Transformers : transformer[t].pc = "gone") => OutputClosed /\ output = << >>
        /\ mode # "file" => /\ transformed = << >> /\ ~sharedErr
                            /\ \A t \in Transformers : transformer[t].pc = "take"

FaultInv ==
    /\ bad \subseteq BadDirs \cup BadFiles \cup {"pool"}
    /\ \A i \in DOMAIN output : output[i].err => bad # {}
    /\ \A i \in DOMAIN transformed : transformed[i].err => bad # {}
    /\ \A t \in Transformers : transformer[t].pc = "put error" => bad # {}
    /\ mode = "file" => bad \cap (Files \cup {"pool"}) = bad \cap BadFiles
    /\ sharedErr => mode = "file" /\ bad \cap BadFiles # {}

CrawlInv ==
    /\ CrawlTypeOK /\ PassedOnce /\ WorkersApart /\ WorkersOwn /\ NothingLost /\ GoneInv /\ FaultInv

(***************************************************************************)
(* The tree: what is below two directories is apart, unless one of them is *)
(* below the other.                                                        *)
(***************************************************************************)
ClosedDirs(D) == D \in SUBSET Dirs /\ \A c \in D : Subdirs[c] \subseteq D

LEMMA UnderIsClosed ==
  ASSUME NEW d \in Dirs
  PROVE  d \in Subtree(d) /\ ClosedDirs(Subtree(d))
<1>1. d \in Subtree(d) /\ Subtree(d) \in SUBSET Dirs
  BY DEF Subtree
<1>2. ASSUME NEW c \in Subtree(d), NEW e \in Subdirs[c] PROVE e \in Subtree(d)
  <2>1. c \in Dirs /\ e \in Dirs
    BY <1>1, <1>2, TreeShape
  <2>2. ASSUME NEW D \in SUBSET Dirs, d \in D, \A x \in D : Subdirs[x] \subseteq D PROVE e \in D
    <3>1. c \in D
      BY <1>2, <2>2 DEF Subtree
    <3> QED BY <1>2, <2>2, <3>1
  <2> QED BY <2>1, <2>2 DEF Subtree
<1> QED BY <1>1, <1>2 DEF ClosedDirs

LEMMA UnderIsLeast ==
  ASSUME NEW d \in Dirs, NEW D, ClosedDirs(D), d \in D
  PROVE  Subtree(d) \subseteq D
  BY DEF Subtree, ClosedDirs

LEMMA UnderBelow ==
  ASSUME NEW d \in Dirs, NEW e \in Subtree(d)
  PROVE  Subtree(e) \subseteq Subtree(d)
<1>1. e \in Dirs
  BY DEF Subtree
<1> QED BY <1>1, UnderIsClosed, UnderIsLeast

LEMMA HasParent ==
  ASSUME NEW d \in Dirs, NEW e \in Subtree(d), e # d
  PROVE  \E p \in Subtree(d) : e \in Subdirs[p]
<1> DEFINE D == {x \in Subtree(d) : x = d \/ \E p \in Subtree(d) : x \in Subdirs[p]}
<1>1. d \in D /\ D \in SUBSET Dirs
  BY UnderIsClosed DEF ClosedDirs
<1>2. \A c \in D : Subdirs[c] \subseteq D
  BY UnderIsClosed DEF ClosedDirs
<1>3. Subtree(d) \subseteq D
  BY <1>1, <1>2, UnderIsLeast DEF ClosedDirs
<1> QED BY <1>3

LEMMA OneParent ==
  ASSUME NEW d \in Dirs, NEW e \in Dirs, NEW c \in Subdirs[d], c \in Subdirs[e]
  PROVE  d = e
  BY TreeShape

LEMMA UnderParts ==
  ASSUME NEW d \in Dirs
  PROVE  Subtree(d) = {d} \cup UNION {Subtree(c) : c \in Subdirs[d]}
<1> DEFINE D == {d} \cup UNION {Subtree(c) : c \in Subdirs[d]}
<1>0. \A c \in Subdirs[d] : c \in Dirs
  BY TreeShape
<1>1. D \in SUBSET Dirs
  BY DEF Subtree
<1>2. ASSUME NEW x \in D PROVE Subdirs[x] \subseteq D
  <2>1. CASE x = d
    BY <1>0, <2>1, UnderIsClosed
  <2>2. ASSUME NEW c \in Subdirs[d], x \in Subtree(c) PROVE Subdirs[x] \subseteq D
    BY <1>0, <2>2, UnderIsClosed DEF ClosedDirs
  <2> QED BY <1>2, <2>1, <2>2
<1>3. Subtree(d) \subseteq D
  BY <1>1, <1>2, UnderIsLeast DEF ClosedDirs
<1>4. ASSUME NEW c \in Subdirs[d] PROVE Subtree(c) \subseteq Subtree(d)
  BY <1>4, UnderIsClosed, UnderBelow DEF ClosedDirs
<1> QED BY <1>3, <1>4, UnderIsClosed

\* No directory is below one of its own subdirectories.
LEMMA NoCycles ==
  ASSUME NEW d \in Dirs, NEW c \in Subdirs[d]
  PROVE  d \notin Subtree(c)
<1> DEFINE D == {x \in Dirs : \A y \in Subdirs[x] : x \notin Subtree(y)}
<1>1. Root \in D
  <2> SUFFICES ASSUME NEW y \in Subdirs[Root], Root \in Subtree(y) PROVE FALSE
    BY TreeShape
  <2>1. y \in Dirs /\ y # Root
    BY TreeShape
  <2>2. PICK p \in Subtree(y) : Root \in Subdirs[p]
    BY <2>1, HasParent
  <2> QED BY <2>2, TreeShape DEF Subtree
<1>2. ASSUME NEW x \in D, NEW y \in Subdirs[x] PROVE y \in D
  <2>0. x \in Dirs /\ y \in Dirs
    BY TreeShape
  <2> SUFFICES ASSUME NEW z \in Subdirs[y], y \in Subtree(z) PROVE FALSE
    BY <2>0
  <2>1. z \in Dirs /\ z \in Subtree(y) /\ y \in Subtree(y)
    BY <2>0, TreeShape, UnderIsClosed DEF ClosedDirs
  <2>2. x \in Subtree(z)
    <3>1. CASE y = z
      BY <2>0, <2>1, <3>1, OneParent
    <3>2. CASE y # z
      <4>1. PICK p \in Subtree(z) : y \in Subdirs[p]
        BY <2>1, <3>2, HasParent
      <4>2. p \in Dirs
        BY DEF Subtree
      <4> QED BY <2>0, <4>1, <4>2, OneParent
    <3> QED BY <3>1, <3>2
  <2>3. x \in Subtree(y)
    BY <2>0, <2>1, <2>2, UnderBelow
  <2> QED BY <2>3
<1>3. ClosedDirs(D) /\ Root \in Dirs
  BY <1>2, TreeShape DEF ClosedDirs
<1> HIDE DEF D
<1>4. Dirs \subseteq D
  BY <1>1, <1>3, TreeShape, UnderIsLeast
<1> QED BY <1>4 DEF D

LEMMA SiblingsApart ==
  ASSUME NEW d \in Dirs, NEW c \in Subdirs[d], NEW e \in Subdirs[d], c # e
  PROVE  Subtree(c) \cap Subtree(e) = {}
<1>0. c \in Dirs /\ e \in Dirs
  BY TreeShape
<1>1. c \notin Subtree(e) /\ e \notin Subtree(c)
  <2>1. ASSUME NEW x \in Dirs, NEW y \in Dirs, x \in Subdirs[d], y \in Subdirs[d], x # y, x \in Subtree(y)
        PROVE  FALSE
    <3>1. PICK p \in Subtree(y) : x \in Subdirs[p]
      BY <2>1, HasParent
    <3>2. p = d
      BY <2>1, <3>1, OneParent DEF Subtree
    <3> QED BY <2>1, <3>1, <3>2, NoCycles
  <2> QED BY <1>0, <2>1
<1> DEFINE D == Subtree(c) \ Subtree(e)
<1>2. ASSUME NEW x \in D, NEW y \in Subdirs[x] PROVE y \in D
  <2>0. x \in Dirs /\ y \in Subtree(c)
    BY <1>0, UnderIsClosed DEF ClosedDirs
  <2>1. CASE y = e
    BY <1>0, <1>1, <2>0, <2>1
  <2>2. CASE y # e
    <3> SUFFICES ASSUME y \in Subtree(e) PROVE FALSE
      BY <2>0
    <3>1. PICK p \in Subtree(e) : y \in Subdirs[p]
      BY <1>0, <2>2, HasParent
    <3> QED BY <2>0, <3>1, OneParent DEF Subtree
  <2> QED BY <2>1, <2>2
<1>3. D \in SUBSET Dirs /\ c \in D
  BY <1>0, <1>1, UnderIsClosed DEF ClosedDirs
<1>4. Subtree(c) \subseteq D
  BY <1>0, <1>2, <1>3, UnderIsLeast DEF ClosedDirs
<1> QED BY <1>4

LEMMA FilesApart ==
  ASSUME NEW D \in SUBSET Dirs, NEW E \in SUBSET Dirs, D \cap E = {}
  PROVE  (UNION {FilesIn[x] : x \in D}) \cap (UNION {FilesIn[x] : x \in E}) = {}
<1> SUFFICES ASSUME NEW x \in D, NEW y \in E, NEW f \in FilesIn[x], f \in FilesIn[y] PROVE FALSE
  OBVIOUS
<1>1. x \in Dirs /\ y \in Dirs /\ x # y
  OBVIOUS
<1> QED BY <1>1, TreeShape

LEMMA BelowParts ==
  ASSUME NEW d \in Dirs
  PROVE  /\ Below(d) = FilesIn[d] \cup UNION {Below(c) : c \in Subdirs[d]}
         /\ \A c \in Subdirs[d] : FilesIn[d] \cap Below(c) = {}
         /\ \A c, e \in Subdirs[d] : c # e => Below(c) \cap Below(e) = {}
<1>1. Below(d) = FilesIn[d] \cup UNION {Below(c) : c \in Subdirs[d]}
  BY UnderParts DEF Below
<1>2. ASSUME NEW c \in Subdirs[d] PROVE FilesIn[d] \cap Below(c) = {}
  <2>1. {d} \cap Subtree(c) = {} /\ {d} \in SUBSET Dirs /\ Subtree(c) \in SUBSET Dirs
    BY NoCycles DEF Subtree
  <2>2. (UNION {FilesIn[x] : x \in {d}}) \cap (UNION {FilesIn[x] : x \in Subtree(c)}) = {}
    BY <2>1, FilesApart
  <2> QED BY <2>2 DEF Below
<1>3. ASSUME NEW c \in Subdirs[d], NEW e \in Subdirs[d], c # e PROVE Below(c) \cap Below(e) = {}
  <2>1. Subtree(c) \cap Subtree(e) = {} /\ Subtree(c) \in SUBSET Dirs /\ Subtree(e) \in SUBSET Dirs
    BY <1>3, SiblingsApart DEF Subtree
  <2>2. (UNION {FilesIn[x] : x \in Subtree(c)}) \cap (UNION {FilesIn[x] : x \in Subtree(e)}) = {}
    BY <2>1, FilesApart
  <2> QED BY <2>2 DEF Below
<1> QED BY <1>1, <1>2, <1>3

LEMMA BelowFiles ==
  /\ \A d \in Dirs : FilesIn[d] \subseteq Below(d) /\ Below(d) \subseteq Files
  /\ Below(Root) = Files
<1>1. \A d \in Dirs : FilesIn[d] \subseteq Below(d) /\ Below(d) \subseteq Files
  BY BelowParts DEF Below, Files, Subtree
<1> QED BY <1>1, TreeShape DEF Below, Files

LEMMA Covers ==
  /\ \A xs : Concerns(xs) \subseteq Files
  /\ \A xs, ys : Concerns(xs \cup ys) = Concerns(xs) \cup Concerns(ys)
  /\ \A xs, ys : xs \subseteq ys => Concerns(xs) \subseteq Concerns(ys)
  /\ \A xs : \A d \in Dirs : d \in xs => Below(d) \subseteq Concerns(xs)
  /\ \A xs : xs \cap Files \subseteq Concerns(xs)
  BY BelowFiles DEF Concerns

LEMMA MissableGrows ==
  ASSUME Failing \subseteq Failing', skipped \subseteq skipped'
  PROVE  /\ Missable \subseteq Missable'
         /\ \A xs : xs \subseteq Failing' => Concerns(xs) \subseteq Missable'
<1>1. Missable' = skipped' \cup Concerns(Failing')
  BY DEF Missable, Concerns, Below, Subtree
<1>2. Concerns(Failing) \subseteq Concerns(Failing')
  BY Covers
<1>3. \A xs : xs \subseteq Failing' => Concerns(xs) \subseteq Concerns(Failing')
  BY Covers
<1> QED BY <1>1, <1>2, <1>3 DEF Missable

(***************************************************************************)
(* The channels.                                                           *)
(***************************************************************************)
LEMMA ResultIs ==
  ASSUME NEW r \in Results
  PROVE  /\ r.err \in BOOLEAN
         /\ ~r.err => r.file \in Files /\ r = Found(r.file)
         /\ r.err => r.file \in Dirs \cup Files /\ r = Failed(r.file) /\ \A f : r # Found(f)
<1>0. \A f : Found(f).err = FALSE /\ Found(f).file = f
  BY DEF Found
<1>1. CASE r \in {Found(f) : f \in Files}
  <2>1. PICK f \in Files : r = Found(f)
    BY <1>1
  <2> QED BY <1>0, <2>1
<1>2. CASE r \in {Failed(x) : x \in Dirs \cup Files}
  <2>1. PICK x \in Dirs \cup Files : r = Failed(x)
    BY <1>2
  <2>2. r.err = TRUE /\ r.file = x
    BY <2>1 DEF Failed
  <2>3. \A f : r # Found(f)
    BY <1>0, <2>2
  <2> QED BY <2>1, <2>2, <2>3
<1> QED BY <1>1, <1>2 DEF Results

LEMMA FoundApart == ASSUME NEW f, NEW g, Found(f) = Found(g) PROVE f = g
<1>1. Found(f).file = f /\ Found(g).file = g
  BY DEF Found
<1> QED BY <1>1

LEMMA TailOf ==
  ASSUME NEW T, NEW s \in Seq(T), s # << >>
  PROVE  /\ Tail(s) \in Seq(T) /\ Head(s) \in T /\ Head(s) = s[1] /\ Len(s) >= 1
         /\ DOMAIN s = 1..Len(s) /\ DOMAIN Tail(s) = 1..(Len(s) - 1)
         /\ \A i \in 1..(Len(s) - 1) : Tail(s)[i] = s[i + 1]
  OBVIOUS

LEMMA TailResults ==
  ASSUME NEW s \in Seq(Results), s # << >>, Single(s)
  PROVE  /\ Single(Tail(s)) /\ Tail(s) \in Seq(Results) /\ Head(s) \in Results
         /\ Head(s).err => In(Tail(s)) = In(s)
         /\ ~Head(s).err => Head(s).file \in In(s) /\ In(Tail(s)) = In(s) \ {Head(s).file}
         /\ \A i \in DOMAIN Tail(s) : \E j \in DOMAIN s : Tail(s)[i] = s[j]
         /\ \E j \in DOMAIN s : Head(s) = s[j]
<1>1. /\ Tail(s) \in Seq(Results) /\ Head(s) \in Results /\ Head(s) = s[1] /\ Len(s) \in Nat /\ Len(s) >= 1
      /\ DOMAIN s = 1..Len(s) /\ DOMAIN Tail(s) = 1..(Len(s) - 1)
      /\ \A i \in 1..(Len(s) - 1) : Tail(s)[i] = s[i + 1]
  BY TailOf
<1>2. Single(Tail(s))
  <2> SUFFICES ASSUME NEW f \in Files, NEW i \in DOMAIN Tail(s), NEW j \in DOMAIN Tail(s),
                      Tail(s)[i] = Found(f), Tail(s)[j] = Found(f)
               PROVE  i = j
    BY DEF Single
  <2>1. i + 1 \in DOMAIN s /\ j + 1 \in DOMAIN s /\ s[i + 1] = Found(f) /\ s[j + 1] = Found(f)
    BY <1>1
  <2>2. i + 1 = j + 1
    BY <2>1 DEF Single
  <2> QED BY <1>1, <2>2
<1>3. ASSUME NEW f \in Files PROVE f \in In(s) <=> f \in In(Tail(s)) \/ Head(s) = Found(f)
  <2>1. ASSUME NEW i \in DOMAIN s, s[i] = Found(f) PROVE f \in In(Tail(s)) \/ Head(s) = Found(f)
    <3>1. CASE i = 1
      BY <1>1, <2>1, <3>1
    <3>2. CASE i # 1
      <4>1. i - 1 \in DOMAIN Tail(s) /\ Tail(s)[i - 1] = s[i]
        BY <1>1, <3>2
      <4> QED BY <2>1, <4>1 DEF In
    <3> QED BY <3>1, <3>2
  <2>2. ASSUME NEW i \in DOMAIN Tail(s), Tail(s)[i] = Found(f) PROVE f \in In(s)
    <3>1. i + 1 \in DOMAIN s /\ s[i + 1] = Found(f)
      BY <1>1, <2>2
    <3> QED BY <3>1 DEF In
  <2>3. Head(s) = Found(f) => f \in In(s)
    <3>1. 1 \in DOMAIN s
      BY <1>1
    <3> QED BY <1>1, <3>1 DEF In
  <2> QED BY <2>1, <2>2, <2>3 DEF In
<1>4. ASSUME NEW f \in Files, Head(s) = Found(f) PROVE f \notin In(Tail(s))
  <2> SUFFICES ASSUME NEW i \in DOMAIN Tail(s), Tail(s)[i] = Found(f) PROVE FALSE
    BY DEF In
  <2>1. 1 \in DOMAIN s /\ i + 1 \in DOMAIN s /\ s[i + 1] = Found(f) /\ s[1] = Found(f)
    BY <1>1, <1>4
  <2>2. i + 1 = 1
    BY <2>1 DEF Single
  <2> QED BY <1>1, <2>2
<1>5. Head(s).err => In(Tail(s)) = In(s)
  BY <1>1, <1>3, ResultIs DEF In
<1>6. ~Head(s).err => Head(s).file \in In(s) /\ In(Tail(s)) = In(s) \ {Head(s).file}
  <2> SUFFICES ASSUME ~Head(s).err
               PROVE  Head(s).file \in In(s) /\ In(Tail(s)) = In(s) \ {Head(s).file}
    OBVIOUS
  <2>1. Head(s).file \in Files /\ Head(s) = Found(Head(s).file)
    BY <1>1, ResultIs
  <2>2. \A f \in Files : Head(s) = Found(f) => f = Head(s).file
    BY <2>1, FoundApart
  <2> QED BY <1>3, <1>4, <2>1, <2>2 DEF In
<1>7. \A i \in DOMAIN Tail(s) : i + 1 \in DOMAIN s /\ Tail(s)[i] = s[i + 1]
  BY <1>1
<1>8. 1 \in DOMAIN s
  BY <1>1
<1> QED BY <1>1, <1>2, <1>5, <1>6, <1>7, <1>8

LEMMA AppendResults ==
  ASSUME NEW s \in Seq(Results), Single(s), NEW r \in Results, r.err \/ r.file \notin In(s)
  PROVE  /\ Append(s, r) \in Seq(Results) /\ Single(Append(s, r))
         /\ In(Append(s, r)) = IF r.err THEN In(s) ELSE In(s) \cup {r.file}
         /\ \A i \in DOMAIN Append(s, r) : Append(s, r)[i] = r \/ \E j \in DOMAIN s : Append(s, r)[i] = s[j]
<1> DEFINE a == Append(s, r)
           n == Len(s) + 1
<1>1. /\ a \in Seq(Results) /\ n \in Nat /\ n >= 1 /\ DOMAIN s = 1..(n - 1) /\ DOMAIN a = 1..n
      /\ a[n] = r /\ \A i \in 1..(n - 1) : a[i] = s[i]
  OBVIOUS
<1> HIDE DEF a, n
<1>2. \A i \in DOMAIN a : i = n \/ i \in DOMAIN s
  <2> SUFFICES ASSUME NEW i \in DOMAIN a, i # n PROVE i \in DOMAIN s
    OBVIOUS
  <2>1. i \in 1..n /\ n \in Nat
    BY <1>1
  <2>2. i \in 1..(n - 1)
    BY <2>1
  <2> QED BY <1>1, <2>2
<1>3. \A i \in DOMAIN a : IF i = n THEN a[i] = r ELSE a[i] = s[i] /\ i \in DOMAIN s
  BY <1>1, <1>2
<1>4. n \in DOMAIN a /\ \A i \in DOMAIN s : i \in DOMAIN a /\ a[i] = s[i]
  BY <1>1
<1>5. \A f \in Files : r = Found(f) => f \notin In(s)
  BY ResultIs, FoundApart
<1>6. Single(a)
  BY <1>3, <1>5 DEF Single, In
<1>7. \A f \in Files : f \in In(a) <=> f \in In(s) \/ r = Found(f)
  BY <1>1, <1>3, <1>4 DEF In
<1>8. In(a) = IF r.err THEN In(s) ELSE In(s) \cup {r.file}
  <2>1. CASE r.err
    BY <1>7, <2>1, ResultIs DEF In
  <2>2. CASE ~r.err
    <3>1. r.file \in Files /\ r = Found(r.file) /\ \A f \in Files : r = Found(f) => f = r.file
      BY <2>2, ResultIs, FoundApart
    <3> QED BY <1>7, <2>2, <3>1 DEF In
  <2> QED BY <2>1, <2>2, ResultIs
<1> QED BY <1>1, <1>3, <1>6, <1>8 DEF a

\* Who is woken up keeps what it is to bring.
LEMMA AppendErrs ==
  ASSUME NEW seq \in Seq(Results), NEW p \in Results
  PROVE  /\ ErrIn(seq) \subseteq ErrIn(Append(seq, p))
         /\ \A x \in Dirs \cup Files : p = Failed(x) => x \in ErrIn(Append(seq, p))
<1> DEFINE n == Len(seq)
           a == Append(seq, p)
<1>1. /\ n \in Nat /\ DOMAIN seq = 1..n /\ DOMAIN a = 1..(n + 1) /\ a[n + 1] = p
      /\ \A i \in 1..n : a[i] = seq[i]
  OBVIOUS
<1> HIDE DEF n, a
<1>2. n + 1 \in DOMAIN a /\ \A i \in DOMAIN seq : i \in DOMAIN a /\ a[i] = seq[i]
  BY <1>1
<1>3. ErrIn(seq) \subseteq ErrIn(a) /\ \A x \in Dirs \cup Files : p = Failed(x) => x \in ErrIn(a)
  BY <1>1, <1>2 DEF ErrIn
<1> QED BY <1>3 DEF a

LEMMA TailErrs ==
  ASSUME NEW seq \in Seq(Results), seq # << >>
  PROVE  \A x \in ErrIn(seq) :
            x \in ErrIn(Tail(seq)) \/ (Head(seq).err /\ Head(seq).file = x)
<1> DEFINE n == Len(seq)
           l == Tail(seq)
           h == Head(seq)
<1>1. /\ h = seq[1] /\ n \in Nat /\ DOMAIN seq = 1..n /\ DOMAIN l = 1..(n - 1)
      /\ \A i \in 1..(n - 1) : l[i] = seq[i + 1]
  BY TailOf
<1> HIDE DEF n, l, h
<1> SUFFICES ASSUME NEW x \in ErrIn(seq) PROVE x \in ErrIn(l) \/ (h.err /\ h.file = x)
  BY DEF l, h
<1>2. PICK i \in DOMAIN seq : seq[i] = Failed(x)
  BY DEF ErrIn
<1>3. CASE i = 1
  <2>1. Failed(x).err = TRUE /\ Failed(x).file = x
    BY DEF Failed
  <2> QED BY <1>1, <1>2, <1>3, <2>1
<1>4. CASE i # 1
  <2>1. i - 1 \in 1..(n - 1) /\ (i - 1) + 1 = i
    BY <1>1, <1>4
  <2>2. l[i - 1] = Failed(x) /\ i - 1 \in DOMAIN l
    BY <1>1, <1>2, <2>1
  <2> QED BY <2>2 DEF ErrIn
<1> QED BY <1>3, <1>4

LEMMA BroadcastKeeps ==
  ASSUME NEW ws \in [Workers -> WorkerState], NEW v \in Workers
  PROVE  LET b == Broadcast(ws)[v]
         IN  /\ b \in WorkerState
             /\ b.dir = ws[v].dir /\ b.names = ws[v].names /\ b.puts = ws[v].puts /\ b.found = ws[v].found
             /\ b.pc = IF ws[v].pc = "waiting" THEN "acquire" ELSE ws[v].pc
<1>1. ws[v] \in WorkerState
  OBVIOUS
<1>2. CASE ws[v].pc = "waiting"
  <2>1. Broadcast(ws)[v] = [ws[v] EXCEPT !.pc = "acquire"]
    BY <1>2 DEF Broadcast
  <2> QED BY <1>1, <1>2, <2>1 DEF WorkerState
<1>3. CASE ws[v].pc # "waiting"
  <2>1. Broadcast(ws)[v] = ws[v]
    BY <1>3 DEF Broadcast
  <2> QED BY <1>1, <1>3, <2>1 DEF WorkerState
<1> QED BY <1>2, <1>3

Woken(r, s) ==
    /\ s.dir = r.dir /\ s.names = r.names /\ s.puts = r.puts /\ s.found = r.found
    /\ s.pc = r.pc \/ (r.pc = "waiting" /\ s.pc = "acquire")

\* One worker goes to r, others are woken up at most.
Turns(w, r) ==
    /\ worker' \in [Workers -> WorkerState]
    /\ worker'[w] = r
    /\ \A v \in Workers \ {w} : Woken(worker[v], worker'[v])

LEMMA OneTurns ==
  ASSUME worker \in [Workers -> WorkerState], NEW w \in Workers, NEW r \in WorkerState,
         \/ worker' = [worker EXCEPT ![w] = r]
         \/ worker' = Broadcast([worker EXCEPT ![w] = r]) /\ r.pc # "waiting"
  PROVE  Turns(w, r)
<1> DEFINE ws == [worker EXCEPT ![w] = r]
<1>1. ws \in [Workers -> WorkerState] /\ ws[w] = r /\ \A v \in Workers \ {w} : ws[v] = worker[v]
  OBVIOUS
<1>2. CASE worker' = ws
  BY <1>1, <1>2 DEF Turns, Woken
<1>3. CASE worker' = Broadcast(ws) /\ r.pc # "waiting"
  <2> HIDE DEF ws
  <2>1. \A v \in Workers : worker'[v] \in WorkerState /\ Woken(ws[v], worker'[v])
    BY <1>1, <1>3, BroadcastKeeps DEF Woken
  <2>2. worker' = [v \in Workers |-> worker'[v]]
    BY <1>1, <1>3 DEF Broadcast
  <2>3. worker'[w] = r
    BY <1>1, <1>3 DEF Broadcast
  <2> QED BY <1>1, <2>1, <2>2, <2>3 DEF Turns
<1> QED BY <1>2, <1>3

LEMMA WokenKeeps ==
  ASSUME NEW r, NEW s, Woken(r, s)
  PROVE  /\ ClaimOf(s) = ClaimOf(r) /\ (s.pc \in Busy <=> r.pc \in Busy)
         /\ OwnOf(r) => OwnOf(s)
         /\ s.pc = "gone" <=> r.pc = "gone"
         /\ FailedIn(s) = FailedIn(r)
<1>1. (s.pc \in Busy <=> r.pc \in Busy) /\ (s.pc = "gone" <=> r.pc = "gone")
  BY DEF Woken, Busy
<1>2. Kids(s) = Kids(r) /\ Putting(s) = Putting(r)
  BY DEF Woken, Kids, Putting
<1>3. Coming(s) = Coming(r)
  BY <1>2 DEF Coming
<1>4. ClaimOf(s) = ClaimOf(r)
  BY <1>2, <1>3 DEF ClaimOf, Woken
<1>5. OwnOf(r) => OwnOf(s)
  BY <1>2, <1>3 DEF OwnOf, Woken, Busy
<1>6. FailedIn(s) = FailedIn(r)
  BY DEF FailedIn, Woken
<1> QED BY <1>1, <1>4, <1>5, <1>6

LEMMA TurnKeeps ==
  ASSUME NEW w \in Workers, NEW r \in WorkerState, Turns(w, r), WorkersOwn, bad' = bad, mode' = mode
  PROVE  /\ \A v \in Workers \ {w} : Claim(v)' = Claim(v)
         /\ Claim(w)' = ClaimOf(r)
         /\ Active' = IF r.pc \in Busy THEN Active \cup {w} ELSE Active \ {w}
         /\ OwnOf(r) => WorkersOwn'
<1>1. \A v \in Workers \ {w} : Woken(worker[v], worker'[v])
  BY DEF Turns
<1>2. \A v \in Workers \ {w} : Claim(v)' = Claim(v)
  BY <1>1, WokenKeeps DEF Claim, ClaimOf, Putting, Coming, Kids, Below, Subtree
<1>3. Claim(w)' = ClaimOf(r)
  BY DEF Claim, ClaimOf, Putting, Coming, Kids, Below, Subtree, Turns
<1>5. \A v \in Workers \ {w} : worker'[v].pc \in Busy <=> worker[v].pc \in Busy
  BY <1>1, WokenKeeps
<1>6. Active' = IF r.pc \in Busy THEN Active \cup {w} ELSE Active \ {w}
  BY <1>5 DEF Active, Turns
<1>7. OwnOf(r) => WorkersOwn'
  <2> SUFFICES ASSUME OwnOf(r), NEW v \in Workers PROVE OwnOf(worker[v])'
    BY DEF WorkersOwn
  <2>1. OwnOf(worker'[v])
    <3>1. CASE v = w
      BY <3>1 DEF Turns
    <3>2. CASE v # w
      BY <1>1, <3>2, WokenKeeps DEF WorkersOwn
    <3> QED BY <3>1, <3>2
  <2> QED BY <2>1 DEF OwnOf, Putting, Coming, Kids, Below, Subtree
<1> QED BY <1>2, <1>3, <1>6, <1>7

Around == <<mode, bad, transformVars, readerVars>>

LEMMA OutputGrows ==
  ASSUME PassedOnce, UNCHANGED Around, NEW G, In(output') = In(output) \cup G,
         Single(output'), G \cap Passed = {}
  PROVE  PassedOnce' /\ Passed' = Passed \cup G
<1>1. Holding' = Holding /\ InHand' = InHand /\ Delivered' = Delivered
  BY DEF Around, transformVars, readerVars, Holding, InHand, Delivered
<1>2. /\ In(transformed)' = In(transformed) /\ Single(transformed)' = Single(transformed)
      /\ In(output)' = In(output) \cup G /\ Single(output)'
  BY DEF Around, transformVars, In, Single
<1>3. /\ In(output) \cap InHand = {} /\ In(output) \cap In(transformed) = {}
      /\ In(output) \cap Delivered = {} /\ InHand \cap In(transformed) = {}
      /\ InHand \cap Delivered = {} /\ In(transformed) \cap Delivered = {}
      /\ Single(transformed)
  BY DEF PassedOnce
<1>4. \A t, u \in Holding' : transformer'[t].file = transformer'[u].file => t = u
  BY <1>1 DEF PassedOnce, Around, transformVars
<1>5. Passed' = Passed \cup G
  BY <1>1, <1>2 DEF Passed
<1>6. G \cap InHand = {} /\ G \cap In(transformed) = {} /\ G \cap Delivered = {}
  BY DEF Passed
<1>7. /\ (In(output) \cup G) \cap InHand = {} /\ (In(output) \cup G) \cap In(transformed) = {}
      /\ (In(output) \cup G) \cap Delivered = {}
  BY <1>3, <1>6
<1>8. PassedOnce'
  <2>1. /\ Single(output)' /\ Single(transformed)' /\ In(output)' \cap InHand' = {}
        /\ In(output)' \cap In(transformed)' = {} /\ In(output)' \cap Delivered' = {}
        /\ InHand' \cap In(transformed)' = {}
        /\ InHand' \cap Delivered' = {} /\ In(transformed)' \cap Delivered' = {}
    BY <1>1, <1>2, <1>3, <1>7
  <2> QED BY <2>1, <1>4 DEF PassedOnce
<1> QED BY <1>5, <1>8

\* What a step of a worker leaves alone.
LEMMA AroundKeeps ==
  ASSUME CrawlInv, UNCHANGED Around, output' \in Seq(Results),
         worker' \in [Workers -> WorkerState], unstarted' \in Seq(Dirs),
         dirInProgress' = Cardinality(Active'),
         \A i \in DOMAIN output' : output'[i].err => bad # {}
  PROVE  CrawlTypeOK' /\ FaultInv'
<1>1. CrawlTypeOK'
  BY DEF CrawlInv, CrawlTypeOK, Around, transformVars, readerVars, Holding
<1>2. FaultInv'
  BY DEF CrawlInv, FaultInv, Around, transformVars, readerVars
<1> QED BY <1>1, <1>2

\* What failed stays known when a worker takes its turn.
LEMMA WorkerFailures ==
  ASSUME NEW w \in Workers, NEW r, Turns(w, r), UNCHANGED <<transformer, transformed, warned>>,
         FailedIn(worker[w]) \subseteq FailedIn(r) \cup ErrIn(output'),
         ErrIn(output) \subseteq ErrIn(output'), skipped \subseteq skipped'
  PROVE  Missable \subseteq Missable' /\ Concerns(FailedIn(r)) \cup skipped' \subseteq Missable'
<1>1. Underway' = ErrIn(output') \cup ErrHeld \cup ErrIn(transformed) \cup (warned \cap (Dirs \cup Files))
  BY DEF Underway, ErrIn, ErrHeld
<1>2. \A v \in Workers : FailedIn(worker[v])' = FailedIn(worker'[v])
  BY DEF FailedIn
<1>3. FailedIn(r) \subseteq Failing'
  <2>1. FailedIn(worker[w])' = FailedIn(r)
    BY <1>2 DEF Turns
  <2>2. FailedIn(r) \subseteq Dirs \cup Files
    BY DEF FailedIn
  <2> QED BY <2>1, <2>2 DEF Failing
<1>4. ASSUME NEW v \in Workers PROVE FailedIn(worker[v]) \subseteq Failing'
  <2>1. CASE v = w
    BY <1>1, <1>3, <2>1 DEF Failing
  <2>2. CASE v # w
    <3>1. FailedIn(worker[v])' = FailedIn(worker[v])
      BY <1>2, <2>2, WokenKeeps DEF Turns
    <3>2. FailedIn(worker[v]) \subseteq Dirs \cup Files
      BY DEF FailedIn
    <3> QED BY <3>1, <3>2 DEF Failing
  <2> QED BY <2>1, <2>2
<1>5. Failing \subseteq Failing'
  <2>1. Underway \subseteq Failing'
    BY <1>1 DEF Underway, Failing
  <2> QED BY <1>4, <2>1 DEF Failing
<1>6. skipped' \subseteq Missable'
  BY DEF Missable
<1> QED BY <1>3, <1>5, <1>6, MissableGrows

LEMMA WorkerStep ==
  ASSUME CrawlInv, ended = "no", NEW w \in Workers, NEW r \in WorkerState, Turns(w, r), OwnOf(r),
         UNCHANGED Around, UNCHANGED <<unstarted, dirInProgress>>,
         r.pc \in Busy <=> worker[w].pc \in Busy, worker[w].pc # "gone",
         r.pc = "gone" => unstarted = << >> /\ Active = {},
         NEW G, G \subseteq Claim(w) \ ClaimOf(r), ClaimOf(r) \subseteq Claim(w),
         Claim(w) \subseteq ClaimOf(r) \cup G \cup Concerns(FailedIn(r)) \cup skipped',
         FailedIn(worker[w]) \subseteq FailedIn(r) \cup ErrIn(output'),
         ErrIn(output) \subseteq ErrIn(output'), skipped \subseteq skipped',
         output' \in Seq(Results), Single(output'), In(output') = In(output) \cup G,
         \A i \in DOMAIN output' : output'[i].err => bad # {}
  PROVE  CrawlInv'
<1>0. WorkersOwn /\ PassedOnce /\ WorkersApart /\ bad' = bad /\ mode' = mode
  BY DEF CrawlInv, Around
<1>1. /\ \A v \in Workers \ {w} : Claim(v)' = Claim(v)
      /\ Claim(w)' = ClaimOf(r) /\ WorkersOwn'
      /\ Active' = IF r.pc \in Busy THEN Active \cup {w} ELSE Active \ {w}
  BY <1>0, TurnKeeps
<1>m. Missable \subseteq Missable' /\ Concerns(FailedIn(r)) \cup skipped' \subseteq Missable'
  BY WorkerFailures DEF Around, transformVars, readerVars
<1>2. Active' = Active
  BY <1>1 DEF Active
<1>3. G \cap Passed = {}
  BY <1>0 DEF WorkersApart
<1>4. PassedOnce' /\ Passed' = Passed \cup G
  BY <1>0, <1>3, OutputGrows
<1>5. CrawlTypeOK' /\ FaultInv'
  <2>1. dirInProgress' = Cardinality(Active') /\ unstarted' \in Seq(Dirs)
    BY <1>2 DEF CrawlInv, CrawlTypeOK
  <2> QED BY <2>1, AroundKeeps DEF Turns
<1>6. WorkersApart'
  <2>1. \A v \in Workers : Claim(v)' \subseteq Claim(v) /\ (v = w \/ Claim(v) \cap G = {})
        /\ Claim(v)' \cap G = {}
    <3>1. \A v \in Workers \ {w} : Claim(v) \cap Claim(w) = {}
      BY <1>0 DEF WorkersApart
    <3> QED BY <1>1, <3>1
  <2>2. ASSUME NEW v \in Workers
        PROVE  /\ Claim(v)' \cap Passed' = {}
               /\ \A i \in DOMAIN unstarted : Claim(v)' \cap Below(unstarted[i]) = {}
               /\ \A u \in Workers : u # v => Claim(v)' \cap Claim(u)' = {}
    <3>1. /\ Claim(v) \cap Passed = {}
          /\ \A i \in DOMAIN unstarted : Claim(v) \cap Below(unstarted[i]) = {}
          /\ \A u \in Workers : u # v => Claim(v) \cap Claim(u) = {}
      BY <1>0 DEF WorkersApart
    <3>2. Claim(v)' \cap Passed' = {}
      BY <1>4, <2>1, <3>1
    <3>3. \A i \in DOMAIN unstarted : Claim(v)' \cap Below(unstarted[i]) = {}
      BY <2>1, <3>1
    <3>4. \A u \in Workers : u # v => Claim(v)' \cap Claim(u)' = {}
      BY <2>1, <3>1
    <3> QED BY <3>2, <3>3, <3>4
  <2>3. ASSUME NEW i \in DOMAIN unstarted
        PROVE  /\ Below(unstarted[i]) \cap Passed' = {}
               /\ \A j \in DOMAIN unstarted : i # j => Below(unstarted[i]) \cap Below(unstarted[j]) = {}
    <3>1. /\ Below(unstarted[i]) \cap Passed = {} /\ Claim(w) \cap Below(unstarted[i]) = {}
          /\ \A j \in DOMAIN unstarted : i # j => Below(unstarted[i]) \cap Below(unstarted[j]) = {}
      BY <1>0 DEF WorkersApart
    <3>2. G \cap Below(unstarted[i]) = {}
      BY <3>1
    <3> QED BY <1>4, <3>1, <3>2
  <2>4. unstarted' = unstarted /\ \A d : Below(d)' = Below(d)
    BY DEF Below, Subtree
  <2> QED BY <2>2, <2>3, <2>4 DEF WorkersApart
<1>7. NothingLost'
  <2> SUFFICES ASSUME NEW f \in Files \ Missable'
               PROVE  \/ f \in Passed' \/ \E v \in Workers : f \in Claim(v)'
                      \/ \E i \in DOMAIN unstarted : f \in Below(unstarted[i])
    BY <1>1 DEF NothingLost, Below, Subtree
  <2>1. CASE f \in Passed
    BY <1>4, <2>1
  <2>2. ASSUME NEW v \in Workers, f \in Claim(v) PROVE f \in Passed' \/ \E u \in Workers : f \in Claim(u)'
    <3>1. CASE v # w
      BY <1>1, <2>2, <3>1
    <3>2. CASE v = w
      BY <1>1, <1>4, <1>m, <2>2, <3>2
    <3> QED BY <3>1, <3>2
  <2>3. f \in Files \ Missable
    BY <1>m
  <2> QED BY <2>1, <2>2, <2>3 DEF CrawlInv, NothingLost
<1>8. GoneInv'
  <2>1. \A v \in Workers \ {w} : worker'[v].pc = "gone" => worker[v].pc = "gone"
    BY WokenKeeps DEF Turns
  <2>2. (\E v \in Workers : worker'[v].pc = "gone") => unstarted' = << >> /\ Active' = {}
    BY <1>2, <2>1 DEF CrawlInv, GoneInv, Turns
  <2>3. \A t \in Transformers : transformer[t].pc # "gone"
    BY DEF CrawlInv, GoneInv, OutputClosed
  <2> QED BY <2>2, <2>3 DEF CrawlInv, GoneInv, Around, transformVars
<1> QED BY <1>1, <1>4, <1>5, <1>6, <1>7, <1>8 DEF CrawlInv

\* What holds of everybody while the traversal runs.
LEMMA RunningFacts ==
  ASSUME CrawlInv, ended = "no"
  PROVE  /\ ctxDone = FALSE /\ worker \in [Workers -> WorkerState]
         /\ output \in Seq(Results) /\ Single(output)
         /\ \A i \in DOMAIN output : output[i].err => bad # {}
         /\ \A w \in Workers : OwnOf(worker[w]) /\ Claim(w) = ClaimOf(worker[w])
                               /\ worker[w] \in WorkerState
         /\ In(output) = In(output) \cup {}
  BY DEF CrawlInv, CrawlTypeOK, WorkersOwn, Claim, PassedOnce, FaultInv

\* A worker that puts nothing and has not failed itself.
LEMMA NoneFailed ==
  ASSUME NEW r, r.puts = {}, r.pc \notin {"error", "send error"}
  PROVE  FailedIn(r) = {}
  BY DEF FailedIn

LEMMA IdleClaims ==
  ASSUME NEW r, OwnOf(r), r.pc \notin Busy
  PROVE  ClaimOf(r) = {} /\ r.names = {} /\ r.puts = {} /\ r.found = {}
<1>1. r.names = {} /\ r.puts = {} /\ r.found = {} /\ r.pc # "list"
  BY DEF OwnOf, Busy
<1> QED BY <1>1 DEF ClaimOf, Putting, Coming, Kids

\* Steps that change where a worker is and nothing of what it is to bring.
LEMMA WorkerMoves ==
  ASSUME CrawlInv, ended = "no", NEW w \in Workers, NEW r \in WorkerState, Turns(w, r),
         UNCHANGED Around, UNCHANGED <<unstarted, dirInProgress, output>>,
         worker[w].pc \notin Busy, worker[w].pc \notin {"gone", "send error"}, skipped' = skipped,
         r.pc \in {"acquire", "waiting", "gone"},
         r.dir = worker[w].dir, r.names = worker[w].names, r.puts = worker[w].puts,
         r.found = worker[w].found,
         r.pc = "gone" => unstarted = << >> /\ Active = {}
  PROVE  CrawlInv'
<1>1. OwnOf(worker[w]) /\ Claim(w) = ClaimOf(worker[w])
  BY RunningFacts
<1>2. ClaimOf(worker[w]) = {} /\ r.names = {} /\ r.puts = {} /\ r.found = {}
  BY <1>1, IdleClaims
<1>3. r.pc \notin Busy /\ r.pc # "list" /\ r.pc # "listed" /\ r.pc # "error" /\ r.pc # "send error"
  BY DEF Busy
<1>4. Putting(r) = {} /\ Coming(r) = {} /\ Kids(r) = {}
  BY <1>2, <1>3 DEF Putting, Coming, Kids
<1>5. OwnOf(r) /\ ClaimOf(r) = {}
  BY <1>2, <1>3, <1>4 DEF OwnOf, ClaimOf, Busy
<1> DEFINE G == {}
<1>6. /\ G \subseteq Claim(w) \ ClaimOf(r) /\ ClaimOf(r) \subseteq Claim(w)
      /\ Claim(w) \subseteq ClaimOf(r) \cup G \cup Concerns(FailedIn(r)) \cup skipped'
      /\ In(output') = In(output) \cup G
  BY <1>1, <1>2, <1>5
<1> HIDE DEF G
<1>7. output' \in Seq(Results) /\ Single(output') /\ (\A i \in DOMAIN output' : output'[i].err => bad # {})
  BY RunningFacts
<1>8. FailedIn(worker[w]) = {} /\ ErrIn(output') = ErrIn(output)
  BY <1>1, <1>2, IdleClaims, NoneFailed DEF Busy
<1> QED BY <1>3, <1>5, <1>6, <1>7, <1>8, WorkerStep

LEMMA HeartbeatKeeps == ASSUME CrawlInv, ended = "no", Heartbeat PROVE CrawlInv'
<1>1. PICK w \in Workers : worker[w].pc = "waiting"
  BY DEF Heartbeat
<1> DEFINE r == Broadcast(worker)[w]
<1>2. worker \in [Workers -> WorkerState]
  BY RunningFacts
<1>3. /\ r \in WorkerState /\ r.pc = "acquire" /\ r.dir = worker[w].dir
      /\ r.names = worker[w].names /\ r.puts = worker[w].puts /\ r.found = worker[w].found
  BY <1>1, <1>2, BroadcastKeeps
<1>4. Turns(w, r)
  <2>1. \A v \in Workers : Broadcast(worker)[v] \in WorkerState /\ Woken(worker[v], Broadcast(worker)[v])
    BY <1>2, BroadcastKeeps DEF Woken
  <2>2. worker' = Broadcast(worker)
    BY DEF Heartbeat
  <2>3. worker' = [v \in Workers |-> worker'[v]]
    BY <2>2 DEF Broadcast
  <2> QED BY <2>1, <2>2, <2>3 DEF Turns
<1>5. UNCHANGED Around /\ UNCHANGED <<unstarted, dirInProgress, output>> /\ skipped' = skipped
  BY DEF Heartbeat, Around, retryVars
<1>6. worker[w].pc \notin Busy /\ worker[w].pc \notin {"gone", "send error"}
  BY <1>1 DEF Busy
<1> HIDE DEF r
<1> QED BY <1>3, <1>4, <1>5, <1>6, WorkerMoves

LEMMA LooksInVain ==
  ASSUME CrawlInv, ended = "no", NEW w \in Workers, Acquire(w), unstarted = << >>
  PROVE  CrawlInv'
<1> DEFINE pc == IF dirInProgress > 0 THEN "waiting" ELSE "gone"
           r == [worker[w] EXCEPT !.pc = pc]
<1>1. worker \in [Workers -> WorkerState] /\ worker[w] \in WorkerState /\ ctxDone = FALSE
  BY RunningFacts
<1>2. worker' = [worker EXCEPT ![w] = r]
  BY <1>1 DEF Acquire, GoTo
<1>3. /\ r \in WorkerState /\ r.pc = pc /\ r.dir = worker[w].dir
      /\ r.names = worker[w].names /\ r.puts = worker[w].puts /\ r.found = worker[w].found
  BY <1>1 DEF WorkerState
<1>4. UNCHANGED Around /\ UNCHANGED <<unstarted, dirInProgress, output>> /\ skipped' = skipped
  BY DEF Acquire, Around, retryVars
<1>5. worker[w].pc \notin Busy /\ worker[w].pc \notin {"gone", "send error"}
  BY DEF Acquire, Busy
<1>6. pc = "gone" => Active = {}
  <2>1. IsFiniteSet(Active) /\ dirInProgress = Cardinality(Active)
    BY FS_Subset, Crews DEF Active, CrawlInv, CrawlTypeOK
  <2>2. pc = "gone" => ~(dirInProgress > 0)
    OBVIOUS
  <2>3. Cardinality(Active) \in Nat
    BY <2>1, FS_CardinalityType
  <2>4. pc = "gone" => Cardinality(Active) = 0
    BY <2>1, <2>2, <2>3
  <2> QED BY <2>1, <2>4, FS_EmptySet
<1>7. pc \in {"acquire", "waiting", "gone"}
  OBVIOUS
<1> HIDE DEF r, pc
<1>8. Turns(w, r)
  BY <1>1, <1>2, <1>3, OneTurns
<1> QED BY <1>3, <1>4, <1>5, <1>6, <1>7, <1>8, WorkerMoves

\* Steps of a worker that is busy and puts nothing.
LEMMA WorkerReads ==
  ASSUME CrawlInv, ended = "no", NEW w \in Workers, NEW r \in WorkerState,
         worker' = [worker EXCEPT ![w] = r], OwnOf(r),
         UNCHANGED Around, UNCHANGED <<unstarted, dirInProgress, output>>,
         worker[w].pc \in Busy, r.pc \in Busy,
         ClaimOf(r) \subseteq ClaimOf(worker[w]), FailedIn(worker[w]) = {},
         ClaimOf(worker[w]) \subseteq ClaimOf(r) \cup Concerns(FailedIn(r)) \cup skipped',
         skipped \subseteq skipped'
  PROVE  CrawlInv'
<1>1. worker \in [Workers -> WorkerState] /\ Claim(w) = ClaimOf(worker[w])
  BY RunningFacts
<1>2. Turns(w, r)
  BY <1>1, OneTurns
<1>3. worker[w].pc # "gone" /\ r.pc # "gone"
  BY DEF Busy
<1> DEFINE G == {}
<1>4. /\ G \subseteq Claim(w) \ ClaimOf(r) /\ ClaimOf(r) \subseteq Claim(w)
      /\ Claim(w) \subseteq ClaimOf(r) \cup G \cup Concerns(FailedIn(r)) \cup skipped'
      /\ In(output') = In(output) \cup G
  BY <1>1
<1> HIDE DEF G
<1>5. output' \in Seq(Results) /\ Single(output') /\ (\A i \in DOMAIN output' : output'[i].err => bad # {})
  BY RunningFacts
<1>6. ErrIn(output') = ErrIn(output)
  OBVIOUS
<1> QED BY <1>2, <1>3, <1>4, <1>5, <1>6, WorkerStep

\* A worker that lists: what it has found is still to be found.
LEMMA ListingFacts ==
  ASSUME CrawlInv, ended = "no", NEW w \in Workers, Listing(w)
  PROVE  /\ worker[w].pc = "list" /\ worker[w].puts = {}
         /\ worker[w].pc \in Busy /\ worker[w] \in WorkerState
         /\ worker[w].dir \in Dirs /\ worker[w].names \subseteq FilesIn[worker[w].dir]
         /\ worker[w].found \subseteq Subdirs[worker[w].dir]
         /\ worker[w].names \in SUBSET Files
         /\ Kids(worker[w]) = worker[w].found /\ Kids(worker[w]) \in SUBSET Dirs
         /\ Coming(worker[w]) \cap worker[w].names = {}
         /\ Putting(worker[w]) = {}
         /\ ClaimOf(worker[w]) = worker[w].names \cup Coming(worker[w])
         /\ ClaimOf(worker[w]) \subseteq Below(worker[w].dir)
         /\ \A c, d \in Kids(worker[w]) : c # d => Below(c) \cap Below(d) = {}
         /\ FailedIn(worker[w]) = {}
<1>1. OwnOf(worker[w]) /\ worker[w] \in WorkerState
  BY RunningFacts
<1>2. /\ worker[w].pc = "list" /\ worker[w].puts = {}
      /\ worker[w].pc \in Busy
      /\ worker[w].dir \in Dirs /\ worker[w].names \subseteq FilesIn[worker[w].dir]
      /\ worker[w].found \subseteq Subdirs[worker[w].dir]
      /\ Coming(worker[w]) \cap worker[w].names = {}
      /\ \A c, d \in Kids(worker[w]) : c # d => Below(c) \cap Below(d) = {}
  BY <1>1 DEF Listing, OwnOf, Busy
<1>3. worker[w].names \in SUBSET Files
  BY <1>1 DEF WorkerState
<1>4. Kids(worker[w]) = worker[w].found
  BY DEF Kids
<1>5. Kids(worker[w]) \in SUBSET Dirs
  BY <1>2, <1>4, TreeShape
<1>6. Putting(worker[w]) = {} /\ FailedIn(worker[w]) = {}
  BY <1>2, NoneFailed DEF Putting
<1>7. ClaimOf(worker[w]) = worker[w].names \cup Coming(worker[w])
  BY <1>6 DEF ClaimOf
<1>8. ClaimOf(worker[w]) \subseteq Below(worker[w].dir)
  BY <1>2, <1>4, <1>7, BelowParts DEF Coming
<1> QED BY <1>1, <1>2, <1>3, <1>4, <1>5, <1>6, <1>7, <1>8

LEMMA ReadBatchKeeps ==
  ASSUME CrawlInv, ended = "no", NEW w \in Workers, ReadBatch(w) PROVE CrawlInv'
<1> DEFINE q == worker[w]
<1>1. worker \in [Workers -> WorkerState]
  BY RunningFacts
<1>2. Listing(w)
  BY DEF ReadBatch
<1>3. PICK batch \in SUBSET q.names :
         worker' = [worker EXCEPT ![w].puts = {Found(f) : f \in batch},
                                  ![w].names = @ \ batch,
                                  ![w].pc = IF batch = q.names THEN "listed" ELSE "list"]
  BY DEF ReadBatch
<1> DEFINE pc == IF batch = q.names THEN "listed" ELSE "list"
           r == [pc |-> pc, dir |-> q.dir, names |-> q.names \ batch,
                 puts |-> {Found(f) : f \in batch}, found |-> q.found]
<1>4. /\ q.pc = "list" /\ q.puts = {} /\ q.pc \in Busy /\ q \in WorkerState
      /\ q.dir \in Dirs /\ q.names \subseteq FilesIn[q.dir] /\ q.names \in SUBSET Files
      /\ q.found \subseteq Subdirs[q.dir]
      /\ Kids(q) = q.found /\ Kids(q) \in SUBSET Dirs /\ Coming(q) \cap q.names = {}
      /\ ClaimOf(q) = q.names \cup Coming(q)
      /\ \A c, d \in Kids(q) : c # d => Below(c) \cap Below(d) = {}
      /\ FailedIn(q) = {}
  BY <1>2, ListingFacts
<1>5. worker' = [worker EXCEPT ![w] = r]
  <2>1. q = [pc |-> q.pc, dir |-> q.dir, names |-> q.names, puts |-> q.puts, found |-> q.found]
    BY <1>4 DEF WorkerState
  <2>2. worker'[w] = r
    BY <1>1, <1>3, <1>4, <2>1
  <2> QED BY <1>1, <1>3, <2>2
<1>6. r \in WorkerState
  <2>1. pc \in Busy /\ q.found \in SUBSET Dirs
    BY <1>4 DEF Busy
  <2>2. {Found(f) : f \in batch} \in SUBSET Results
    BY <1>4 DEF Results
  <2>3. q.names \ batch \in SUBSET Files
    BY <1>4
  <2> QED BY <1>4, <2>1, <2>2, <2>3 DEF WorkerState
<1>7. Kids(r) = Kids(q) /\ Coming(r) = Coming(q)
  <2>1. Kids(r) = Kids(q)
    BY <1>4 DEF Kids
  <2> QED BY <2>1 DEF Coming
<1>8. Putting(r) = batch
  BY <1>4, FoundApart DEF Putting
<1>9. ClaimOf(r) = ClaimOf(q)
  BY <1>4, <1>7, <1>8 DEF ClaimOf
<1>10. OwnOf(r)
  <2>1. /\ r.names \cap Putting(r) = {} /\ r.names \cap Coming(r) = {}
        /\ Putting(r) \cap Coming(r) = {}
    BY <1>4, <1>7, <1>8
  <2>2. \A c, d \in Kids(r) : c # d => Below(c) \cap Below(d) = {}
    BY <1>4, <1>7
  <2>3. \A p \in r.puts : p.err = FALSE
    BY DEF Found
  <2>4. r.pc \in Busy /\ r.dir \in Dirs /\ r.names \subseteq FilesIn[r.dir]
        /\ r.found \subseteq Subdirs[r.dir] /\ r.pc # "error" /\ r.pc # "send error"
        /\ (r.pc = "listed" => r.names = {})
    BY <1>4 DEF Busy
  <2> QED BY <2>1, <2>2, <2>3, <2>4 DEF OwnOf
<1>11. UNCHANGED Around /\ UNCHANGED <<unstarted, dirInProgress, output, skipped>> /\ r.pc \in Busy
  BY DEF ReadBatch, Around, Busy
<1> HIDE DEF r
<1> QED BY <1>4, <1>5, <1>6, <1>9, <1>10, <1>11, WorkerReads

LEMMA PoolIsLateKeeps ==
  ASSUME CrawlInv, ended = "no", NEW w \in Workers, PoolIsLate(w) PROVE CrawlInv'
<1> DEFINE q == worker[w]
<1>1. worker \in [Workers -> WorkerState]
  BY RunningFacts
<1>2. Listing(w)
  BY DEF PoolIsLate
<1>3. PICK files \in SUBSET q.names, dirs \in SUBSET q.found :
         /\ worker' = [worker EXCEPT ![w].names = @ \ files, ![w].found = @ \ dirs]
         /\ skipped' = skipped \cup files \cup UNION {Below(d) : d \in dirs}
  BY DEF PoolIsLate
<1> DEFINE r == [q EXCEPT !.names = q.names \ files, !.found = q.found \ dirs]
<1>4. /\ q.pc = "list" /\ q.puts = {} /\ q.pc \in Busy /\ q \in WorkerState
      /\ q.dir \in Dirs /\ q.names \subseteq FilesIn[q.dir] /\ q.names \in SUBSET Files
      /\ q.found \subseteq Subdirs[q.dir]
      /\ Kids(q) = q.found /\ Kids(q) \in SUBSET Dirs /\ Coming(q) \cap q.names = {}
      /\ ClaimOf(q) = q.names \cup Coming(q)
      /\ \A c, d \in Kids(q) : c # d => Below(c) \cap Below(d) = {}
      /\ FailedIn(q) = {}
  BY <1>2, ListingFacts
<1>5. worker' = [worker EXCEPT ![w] = r]
  BY <1>1, <1>3
<1>6. /\ r \in WorkerState /\ r.pc = q.pc /\ r.dir = q.dir /\ r.names = q.names \ files
      /\ r.puts = q.puts /\ r.found = q.found \ dirs
  BY <1>4 DEF WorkerState
<1> HIDE DEF r
<1>7. Kids(r) = q.found \ dirs /\ Putting(r) = {}
  BY <1>4, <1>6 DEF Kids, Putting
<1>8. Coming(r) \subseteq Coming(q) /\ Coming(q) \subseteq Coming(r) \cup UNION {Below(d) : d \in dirs}
  BY <1>4, <1>7 DEF Coming
<1>9. ClaimOf(r) = (q.names \ files) \cup Coming(r)
  BY <1>6, <1>7 DEF ClaimOf
<1>10. OwnOf(r)
  <2>1. r.pc \in Busy /\ r.pc # "error" /\ r.pc # "listed" /\ r.pc # "send error"
    BY <1>4, <1>6
  <2>2. \A c, d \in Kids(r) : c # d => Below(c) \cap Below(d) = {}
    BY <1>4, <1>7
  <2> QED BY <1>4, <1>6, <1>7, <1>8, <2>1, <2>2 DEF OwnOf
<1>11. UNCHANGED Around /\ UNCHANGED <<unstarted, dirInProgress, output>> /\ r.pc \in Busy
  BY <1>4, <1>6 DEF PoolIsLate, Around
<1>12. ClaimOf(r) \subseteq ClaimOf(q) /\ ClaimOf(q) \subseteq ClaimOf(r) \cup skipped'
  BY <1>3, <1>4, <1>8, <1>9
<1>13. skipped \subseteq skipped'
  BY <1>3
<1> QED BY <1>4, <1>5, <1>6, <1>10, <1>11, <1>12, <1>13, WorkerReads

LEMMA ListingFailsKeeps ==
  ASSUME CrawlInv, ended = "no", NEW w \in Workers, ListingFails(w) PROVE CrawlInv'
<1> DEFINE q == worker[w]
           pc == IF mode = "walk" THEN "listed" ELSE "error"
           puts == IF mode = "walk" THEN {Failed(q.dir)} ELSE {}
<1>1. worker \in [Workers -> WorkerState]
  BY RunningFacts
<1>2. Listing(w) /\ bad # {}
  BY DEF ListingFails
<1>3. PICK dirs \in SUBSET q.found :
         worker' = [worker EXCEPT ![w] =
             [pc |-> pc, dir |-> q.dir, names |-> {}, found |-> dirs, puts |-> puts]]
  BY DEF ListingFails
<1> DEFINE r == [pc |-> pc, dir |-> q.dir, names |-> {}, found |-> dirs, puts |-> puts]
<1>4. /\ q.pc \in Busy /\ q.dir \in Dirs /\ q.found \subseteq Subdirs[q.dir]
      /\ Kids(q) = q.found /\ Kids(q) \in SUBSET Dirs
      /\ ClaimOf(q) = q.names \cup Coming(q) /\ ClaimOf(q) \subseteq Below(q.dir)
      /\ \A c, d \in Kids(q) : c # d => Below(c) \cap Below(d) = {}
      /\ FailedIn(q) = {}
  BY <1>2, ListingFacts
<1>5. worker' = [worker EXCEPT ![w] = r]
  BY <1>3
<1>6. /\ r \in WorkerState /\ r.dir = q.dir /\ r.names = {} /\ r.found = dirs
      /\ r.pc \in {"listed", "error"} /\ r.puts \subseteq {Failed(q.dir)}
  <2>1. puts \in SUBSET Results /\ puts \subseteq {Failed(q.dir)}
    BY <1>4 DEF Results
  <2>2. pc \in Busy /\ pc \in {"listed", "error"}
    BY DEF Busy
  <2> HIDE DEF pc, puts
  <2> QED BY <1>4, <2>1, <2>2 DEF WorkerState
<1>7. q.dir \in FailedIn(r)
  <2>1. CASE mode = "walk"
    BY <1>4, <2>1 DEF FailedIn
  <2>2. CASE mode # "walk"
    BY <1>4, <2>2 DEF FailedIn
  <2> QED BY <2>1, <2>2
<1> HIDE DEF r, pc, puts
<1>8. Putting(r) = {} /\ Kids(r) = dirs /\ Coming(r) \subseteq Coming(q)
  <2>1. Failed(q.dir).err = TRUE /\ \A f : Found(f).err = FALSE
    BY DEF Failed, Found
  <2>2. Putting(r) = {}
    BY <1>6, <2>1 DEF Putting
  <2>3. Kids(r) = dirs
    BY <1>6 DEF Kids
  <2> QED BY <1>4, <2>2, <2>3 DEF Coming
<1>9. ClaimOf(r) = Coming(r) /\ ClaimOf(q) \subseteq Concerns(FailedIn(r))
  <2>1. Below(q.dir) \subseteq Concerns(FailedIn(r))
    BY <1>4, <1>7, Covers
  <2> QED BY <1>4, <1>6, <1>8, <2>1 DEF ClaimOf
<1>10. OwnOf(r)
  <2>1. r.pc \in Busy /\ r.pc # "list"
    BY <1>6 DEF Busy
  <2>2. \A c, d \in Kids(r) : c # d => Below(c) \cap Below(d) = {}
    BY <1>4, <1>8
  <2> QED BY <1>2, <1>4, <1>6, <1>8, <2>1, <2>2 DEF OwnOf
<1>11. UNCHANGED Around /\ UNCHANGED <<unstarted, dirInProgress, output, skipped>> /\ r.pc \in Busy
  BY <1>6 DEF ListingFails, Around, Busy
<1>12. ClaimOf(r) \subseteq ClaimOf(q)
  BY <1>4, <1>8, <1>9
<1> QED BY <1>4, <1>5, <1>6, <1>9, <1>10, <1>11, <1>12, WorkerReads

LEMMA PutKeeps ==
  ASSUME CrawlInv, ended = "no", NEW w \in Workers, Put(w) PROVE CrawlInv'
<1> DEFINE q == worker[w]
<1>1. /\ worker \in [Workers -> WorkerState] /\ q \in WorkerState /\ OwnOf(q) /\ Claim(w) = ClaimOf(q)
      /\ output \in Seq(Results) /\ Single(output) /\ ctxDone = FALSE
      /\ \A i \in DOMAIN output : output[i].err => bad # {}
  BY RunningFacts
<1>2. PICK p \in q.puts : /\ worker' = [worker EXCEPT ![w].puts = @ \ {p}]
                          /\ output' = Append(output, p)
  BY <1>1 DEF Put
<1> DEFINE r == [q EXCEPT !.puts = q.puts \ {p}]
           G == IF p.err THEN {} ELSE {p.file}
<1>3. worker' = [worker EXCEPT ![w] = r]
  BY <1>1, <1>2
<1>4. /\ r \in WorkerState /\ r.pc = q.pc /\ r.dir = q.dir /\ r.names = q.names
      /\ r.puts = q.puts \ {p} /\ r.found = q.found
  BY <1>1 DEF WorkerState
<1> HIDE DEF r
<1>5. q.pc \in Busy
  BY <1>1, <1>2 DEF OwnOf
<1>6. p \in Results
  BY <1>1, <1>2 DEF WorkerState
<1>7. Kids(r) = Kids(q) /\ Coming(r) = Coming(q)
  <2>1. Kids(r) = Kids(q)
    BY <1>4 DEF Kids
  <2> QED BY <2>1 DEF Coming
<1>8. Putting(r) = Putting(q) \ G /\ G \subseteq Putting(q)
  <2>1. CASE p.err
    BY <1>2, <1>4, <1>6, <2>1, ResultIs DEF Putting
  <2>2. CASE ~p.err
    <3>1. p.file \in Files /\ p = Found(p.file) /\ \A f \in Files : Found(f) = p => f = p.file
      BY <1>6, <2>2, ResultIs, FoundApart
    <3> QED BY <1>2, <1>4, <2>2, <3>1 DEF Putting
  <2> QED BY <2>1, <2>2
<1>9. /\ q.names \cap Putting(q) = {} /\ q.names \cap Coming(q) = {} /\ Putting(q) \cap Coming(q) = {}
  BY <1>1 DEF OwnOf
<1>10. ClaimOf(r) = ClaimOf(q) \ G /\ G \subseteq ClaimOf(q)
  BY <1>4, <1>7, <1>8, <1>9 DEF ClaimOf
<1>11. OwnOf(r)
  <2>1. /\ r.names \cap Putting(r) = {} /\ r.names \cap Coming(r) = {} /\ Putting(r) \cap Coming(r) = {}
    BY <1>4, <1>7, <1>8, <1>9
  <2> QED BY <1>1, <1>4, <1>5, <1>7, <2>1 DEF OwnOf
<1>12. Claim(w) \cap Passed = {}
  BY DEF CrawlInv, WorkersApart
<1>13. p.err \/ p.file \notin In(output)
  BY <1>1, <1>10, <1>12 DEF Passed
<1>14. p.err => bad # {}
  BY <1>1, <1>2 DEF OwnOf
<1>15. /\ output' \in Seq(Results) /\ Single(output')
       /\ In(output') = IF p.err THEN In(output) ELSE In(output) \cup {p.file}
       /\ \A i \in DOMAIN output' : output'[i] = p \/ \E j \in DOMAIN output : output'[i] = output[j]
  BY <1>1, <1>2, <1>6, <1>13, AppendResults
<1>16. In(output') = In(output) \cup G /\ \A i \in DOMAIN output' : output'[i].err => bad # {}
  BY <1>1, <1>14, <1>15
<1>17. Turns(w, r)
  BY <1>1, <1>3, <1>4, OneTurns
<1>18. UNCHANGED Around /\ UNCHANGED <<unstarted, dirInProgress>> /\ skipped' = skipped
  BY DEF Put, Around, retryVars
<1>19. worker[w].pc # "gone" /\ r.pc # "gone" /\ (r.pc \in Busy <=> worker[w].pc \in Busy)
  BY <1>4, <1>5 DEF Busy
<1>20. /\ G \subseteq Claim(w) \ ClaimOf(r) /\ ClaimOf(r) \subseteq Claim(w)
       /\ Claim(w) \subseteq ClaimOf(r) \cup G \cup Concerns(FailedIn(r)) \cup skipped'
  BY <1>1, <1>10
<1>21. ErrIn(output) \subseteq ErrIn(output') /\ FailedIn(q) \subseteq FailedIn(r) \cup ErrIn(output')
  <2>1. /\ ErrIn(output) \subseteq ErrIn(output')
        /\ \A x \in Dirs \cup Files : p = Failed(x) => x \in ErrIn(output')
    BY <1>1, <1>2, <1>6, AppendErrs
  <2>2. \A x \in FailedIn(q) : x \in Dirs \cup Files /\ (x \in FailedIn(r) \/ p = Failed(x))
    BY <1>4 DEF FailedIn
  <2> QED BY <2>1, <2>2
<1> HIDE DEF G, q
<1> QED BY <1>4, <1>11, <1>15, <1>16, <1>17, <1>18, <1>19, <1>20, <1>21, WorkerStep DEF q

LEMMA SendErrorKeeps ==
  ASSUME CrawlInv, ended = "no", NEW w \in Workers, SendError(w) PROVE CrawlInv'
<1> DEFINE q == worker[w]
           r == [q EXCEPT !.pc = "acquire"]
           p == Failed(q.dir)
           G == {}
<1>1. /\ worker \in [Workers -> WorkerState] /\ q \in WorkerState /\ OwnOf(q) /\ Claim(w) = ClaimOf(q)
      /\ output \in Seq(Results) /\ Single(output) /\ ctxDone = FALSE
      /\ \A i \in DOMAIN output : output[i].err => bad # {}
  BY RunningFacts
<1>2. q.pc = "send error" /\ q.pc \notin Busy /\ output' = Append(output, p)
  BY DEF SendError, Busy
<1>3. worker' = [worker EXCEPT ![w] = r]
  BY <1>1 DEF SendError, GoTo
<1>4. /\ r \in WorkerState /\ r.pc = "acquire" /\ r.dir = q.dir /\ r.names = q.names
      /\ r.puts = q.puts /\ r.found = q.found
  BY <1>1 DEF WorkerState
<1>5. q.dir \in Dirs /\ bad # {}
  BY <1>1, <1>2 DEF OwnOf
<1>6. p \in Results /\ p.err
  BY <1>5 DEF Results, Failed
<1>e. ErrIn(output) \subseteq ErrIn(output') /\ q.dir \in ErrIn(output')
  BY <1>1, <1>2, <1>5, <1>6, AppendErrs
<1> HIDE DEF r, p
<1>7. ClaimOf(q) = {} /\ q.names = {} /\ q.puts = {} /\ q.found = {}
  BY <1>1, <1>2, IdleClaims
<1>8. r.pc \notin Busy /\ Putting(r) = {} /\ Kids(r) = {} /\ Coming(r) = {}
  <2>1. r.pc \notin Busy /\ Putting(r) = {} /\ Kids(r) = {}
    BY <1>4, <1>7 DEF Putting, Kids, Busy
  <2> QED BY <2>1 DEF Coming
<1>9. OwnOf(r) /\ ClaimOf(r) = {}
  BY <1>4, <1>7, <1>8 DEF OwnOf, ClaimOf, Busy
<1>10. /\ output' \in Seq(Results) /\ Single(output')
       /\ In(output') = IF p.err THEN In(output) ELSE In(output) \cup {p.file}
       /\ \A i \in DOMAIN output' : output'[i] = p \/ \E j \in DOMAIN output : output'[i] = output[j]
  BY <1>1, <1>2, <1>6, AppendResults
<1>11. In(output') = In(output) \cup G /\ \A i \in DOMAIN output' : output'[i].err => bad # {}
  BY <1>1, <1>5, <1>6, <1>10
<1>12. Turns(w, r)
  BY <1>1, <1>3, <1>4, OneTurns
<1>13. UNCHANGED Around /\ UNCHANGED <<unstarted, dirInProgress>> /\ skipped' = skipped
  BY DEF SendError, Around, retryVars
<1>14. worker[w].pc # "gone" /\ r.pc # "gone" /\ (r.pc \in Busy <=> worker[w].pc \in Busy)
  BY <1>2, <1>4, <1>8
<1>15. /\ G \subseteq Claim(w) \ ClaimOf(r) /\ ClaimOf(r) \subseteq Claim(w)
       /\ Claim(w) \subseteq ClaimOf(r) \cup G \cup Concerns(FailedIn(r)) \cup skipped'
  BY <1>1, <1>7, <1>9
<1>16. FailedIn(q) \subseteq ErrIn(output')
  <2>1. \A x \in FailedIn(q) : x = q.dir
    BY <1>2, <1>7 DEF FailedIn
  <2> QED BY <1>e, <2>1
<1> HIDE DEF G, q
<1> QED BY <1>4, <1>9, <1>10, <1>11, <1>12, <1>13, <1>14, <1>15, <1>16, <1>e, WorkerStep DEF q

\* Steps that move directories between the list and a worker.
LEMMA WorkerExchanges ==
  ASSUME CrawlInv, ended = "no", NEW w \in Workers, NEW r \in WorkerState, Turns(w, r), OwnOf(r),
         UNCHANGED Around, UNCHANGED <<output, skipped>>, FailedIn(worker[w]) \subseteq FailedIn(r), unstarted' \in Seq(Dirs),
         dirInProgress' = Cardinality(Active'),
         \A v \in Workers : worker[v].pc # "gone", r.pc # "gone",
         \A i, j \in DOMAIN unstarted' : i # j => Below(unstarted'[i]) \cap Below(unstarted'[j]) = {},
         \A i \in DOMAIN unstarted' : Below(unstarted'[i]) \cap ClaimOf(r) = {},
         \A i \in DOMAIN unstarted' : \/ Below(unstarted'[i]) \subseteq Claim(w)
                                      \/ \E j \in DOMAIN unstarted : unstarted'[i] = unstarted[j],
         \/ ClaimOf(r) \subseteq Claim(w)
         \/ \E j \in DOMAIN unstarted : ClaimOf(r) \subseteq Below(unstarted[j]),
         \A f \in Claim(w) : f \in ClaimOf(r) \/ \E i \in DOMAIN unstarted' : f \in Below(unstarted'[i]),
         \A j \in DOMAIN unstarted : \/ Below(unstarted[j]) \subseteq ClaimOf(r)
                                     \/ \E i \in DOMAIN unstarted' : unstarted'[i] = unstarted[j]
  PROVE  CrawlInv'
<1>0. WorkersOwn /\ PassedOnce /\ WorkersApart /\ NothingLost /\ bad' = bad /\ mode' = mode
  BY DEF CrawlInv, Around
<1>1. /\ \A v \in Workers \ {w} : Claim(v)' = Claim(v)
      /\ Claim(w)' = ClaimOf(r) /\ WorkersOwn'
  BY <1>0, TurnKeeps
<1>m. Missable \subseteq Missable'
  <2>1. ErrIn(output') = ErrIn(output)
    OBVIOUS
  <2> QED BY <2>1, WorkerFailures DEF Around, transformVars, readerVars
<1>2. PassedOnce' /\ Passed' = Passed
  <2> DEFINE G == {}
  <2>1. In(output') = In(output) \cup G /\ Single(output') /\ G \cap Passed = {}
    BY <1>0 DEF PassedOnce
  <2> HIDE DEF G
  <2>2. PassedOnce' /\ Passed' = Passed \cup G
    BY <1>0, <2>1, OutputGrows
  <2> QED BY <2>2 DEF G
<1>3. CrawlTypeOK' /\ FaultInv'
  <2>1. output' \in Seq(Results) /\ \A i \in DOMAIN output' : output'[i].err => bad # {}
    BY RunningFacts
  <2> QED BY <2>1, AroundKeeps DEF Turns
<1>4. /\ \A v \in Workers : Claim(v) \cap Passed = {}
      /\ \A v \in Workers : \A j \in DOMAIN unstarted : Claim(v) \cap Below(unstarted[j]) = {}
      /\ \A v, u \in Workers : u # v => Claim(v) \cap Claim(u) = {}
      /\ \A j \in DOMAIN unstarted : Below(unstarted[j]) \cap Passed = {}
  BY <1>0 DEF WorkersApart
<1>5. ClaimOf(r) \cap Passed = {} /\ \A v \in Workers \ {w} : Claim(v) \cap ClaimOf(r) = {}
  <2>1. CASE ClaimOf(r) \subseteq Claim(w)
    BY <1>4, <2>1
  <2>2. ASSUME NEW j \in DOMAIN unstarted, ClaimOf(r) \subseteq Below(unstarted[j])
        PROVE  ClaimOf(r) \cap Passed = {} /\ \A v \in Workers \ {w} : Claim(v) \cap ClaimOf(r) = {}
    BY <1>4, <2>2
  <2> QED BY <2>1, <2>2
<1>6. ASSUME NEW i \in DOMAIN unstarted'
      PROVE  /\ Below(unstarted'[i]) \cap Passed = {}
             /\ \A v \in Workers \ {w} : Claim(v) \cap Below(unstarted'[i]) = {}
  <2>1. CASE Below(unstarted'[i]) \subseteq Claim(w)
    BY <1>4, <2>1
  <2>2. ASSUME NEW j \in DOMAIN unstarted, unstarted'[i] = unstarted[j]
        PROVE  /\ Below(unstarted'[i]) \cap Passed = {}
               /\ \A v \in Workers \ {w} : Claim(v) \cap Below(unstarted'[i]) = {}
    BY <1>4, <2>2
  <2> QED BY <2>1, <2>2
<1>8. WorkersApart'
  <2>1. ASSUME NEW v \in Workers
        PROVE  /\ Claim(v)' \cap Passed' = {}
               /\ \A i \in DOMAIN unstarted' : Claim(v)' \cap Below(unstarted'[i]) = {}
               /\ \A u \in Workers : u # v => Claim(v)' \cap Claim(u)' = {}
    <3>1. CASE v = w
      BY <1>1, <1>2, <1>5, <3>1
    <3>2. CASE v # w
      <4>1. Claim(v)' = Claim(v)
        BY <1>1, <3>2
      <4>2. Claim(v)' \cap Passed' = {}
        BY <1>2, <1>4, <4>1
      <4>3. \A i \in DOMAIN unstarted' : Claim(v)' \cap Below(unstarted'[i]) = {}
        BY <1>6, <3>2, <4>1
      <4>4. \A u \in Workers : u # v => Claim(v)' \cap Claim(u)' = {}
        BY <1>1, <1>4, <1>5, <3>2, <4>1
      <4> QED BY <4>2, <4>3, <4>4
    <3> QED BY <3>1, <3>2
  <2>2. \A i \in DOMAIN unstarted' : Below(unstarted'[i]) \cap Passed' = {}
    BY <1>2, <1>6
  <2> QED BY <2>1, <2>2 DEF WorkersApart
<1>9. NothingLost'
  <2> SUFFICES ASSUME NEW f \in Files \ Missable'
               PROVE  \/ f \in Passed' \/ \E v \in Workers : f \in Claim(v)'
                      \/ \E i \in DOMAIN unstarted' : f \in Below(unstarted'[i])
    BY <1>1 DEF NothingLost, Below, Subtree
  <2>1. CASE f \in Passed
    BY <1>2, <2>1
  <2>2. ASSUME NEW v \in Workers, f \in Claim(v)
        PROVE  \/ \E u \in Workers : f \in Claim(u)'
               \/ \E i \in DOMAIN unstarted' : f \in Below(unstarted'[i])
    BY <1>1, <2>2
  <2>3. ASSUME NEW j \in DOMAIN unstarted, f \in Below(unstarted[j])
        PROVE  \/ \E u \in Workers : f \in Claim(u)'
               \/ \E i \in DOMAIN unstarted' : f \in Below(unstarted'[i])
    <3>1. CASE Below(unstarted[j]) \subseteq ClaimOf(r)
      BY <1>1, <2>3, <3>1
    <3>2. ASSUME NEW i \in DOMAIN unstarted', unstarted'[i] = unstarted[j]
          PROVE  \E k \in DOMAIN unstarted' : f \in Below(unstarted'[k])
      BY <2>3, <3>2
    <3> QED BY <3>1, <3>2
  <2>4. f \in Files \ Missable
    BY <1>m
  <2> QED BY <1>0, <2>1, <2>2, <2>3, <2>4 DEF NothingLost
<1>10. GoneInv'
  <2>1. \A v \in Workers : worker'[v].pc # "gone"
    BY WokenKeeps DEF Turns
  <2>2. \A t \in Transformers : transformer[t].pc # "gone"
    BY DEF CrawlInv, GoneInv, OutputClosed
  <2> QED BY <2>1, <2>2 DEF CrawlInv, GoneInv, Around, transformVars
<1> QED BY <1>1, <1>2, <1>3, <1>8, <1>9, <1>10 DEF CrawlInv

LEMMA ActiveCounts ==
  ASSUME CrawlInv
  PROVE  IsFiniteSet(Active) /\ dirInProgress = Cardinality(Active)
  BY FS_Subset, Crews DEF Active, CrawlInv, CrawlTypeOK

LEMMA Starts ==
  ASSUME NEW d, NEW names, NEW found
  PROVE  [NoDir EXCEPT !.pc = "list", !.dir = d, !.names = names, !.found = found]
            = [pc |-> "list", dir |-> d, names |-> names, puts |-> {}, found |-> found]
<1> DEFINE a == [NoDir EXCEPT !.pc = "list", !.dir = d, !.names = names, !.found = found]
<1>1. a = [[[[NoDir EXCEPT !.pc = "list"] EXCEPT !.dir = d] EXCEPT !.names = names] EXCEPT !.found = found]
  OBVIOUS
<1>2. [NoDir EXCEPT !.pc = "list"] = [pc |-> "list", dir |-> "none", names |-> {}, puts |-> {}, found |-> {}]
  BY DEF NoDir
<1>3. [[pc |-> "list", dir |-> "none", names |-> {}, puts |-> {}, found |-> {}] EXCEPT !.dir = d]
        = [pc |-> "list", dir |-> d, names |-> {}, puts |-> {}, found |-> {}]
  OBVIOUS
<1>4. [[pc |-> "list", dir |-> d, names |-> {}, puts |-> {}, found |-> {}] EXCEPT !.names = names]
        = [pc |-> "list", dir |-> d, names |-> names, puts |-> {}, found |-> {}]
  OBVIOUS
<1>5. [[pc |-> "list", dir |-> d, names |-> names, puts |-> {}, found |-> {}] EXCEPT !.found = found]
        = [pc |-> "list", dir |-> d, names |-> names, puts |-> {}, found |-> found]
  OBVIOUS
<1> QED BY <1>1, <1>2, <1>3, <1>4, <1>5

LEMMA TakesDirectory ==
  ASSUME CrawlInv, ended = "no", NEW w \in Workers, Acquire(w), unstarted # << >>
  PROVE  CrawlInv'
<1> DEFINE d == Head(unstarted)
           n == Len(unstarted)
           r == [pc |-> "list", dir |-> d, names |-> FilesIn[d], puts |-> {}, found |-> Subdirs[d]]
<1>1. /\ worker \in [Workers -> WorkerState] /\ ctxDone = FALSE
      /\ OwnOf(worker[w]) /\ Claim(w) = ClaimOf(worker[w]) /\ unstarted \in Seq(Dirs)
  BY RunningFacts DEF CrawlInv, CrawlTypeOK
<1>2. /\ worker' = Broadcast([worker EXCEPT ![w] = r]) /\ unstarted' = Tail(unstarted)
      /\ dirInProgress' = dirInProgress + 1 /\ worker[w].pc = "acquire"
      /\ UNCHANGED <<output, skipped>> /\ UNCHANGED Around
  <2>1. [NoDir EXCEPT !.pc = "list", !.dir = d, !.names = FilesIn[d],
                   !.found = Subdirs[d]] = r
    BY Starts
  <2>2. /\ worker' = Broadcast([worker EXCEPT ![w] =
                       [NoDir EXCEPT !.pc = "list", !.dir = d, !.names = FilesIn[d],
                   !.found = Subdirs[d]]])
        /\ unstarted' = Tail(unstarted) /\ dirInProgress' = dirInProgress + 1
        /\ worker[w].pc = "acquire" /\ UNCHANGED <<output, skipped>> /\ UNCHANGED Around
    BY <1>1 DEF Acquire, Around, retryVars
  <2> QED BY <2>1, <2>2
<1>3. /\ Tail(unstarted) \in Seq(Dirs) /\ d \in Dirs /\ d = unstarted[1] /\ n \in Nat /\ n >= 1
      /\ DOMAIN unstarted = 1..n /\ DOMAIN Tail(unstarted) = 1..(n - 1)
      /\ \A i \in 1..(n - 1) : Tail(unstarted)[i] = unstarted[i + 1]
  BY <1>1, TailOf
<1> HIDE DEF d, n
<1>4. /\ FilesIn[d] \in SUBSET Files /\ Subdirs[d] \in SUBSET Dirs
  BY <1>3, TreeShape DEF Files
<1>5. r \in WorkerState
  BY <1>3, <1>4 DEF WorkerState, Busy
<1>6. Kids(r) = Subdirs[d] /\ Putting(r) = {}
  BY DEF Kids, Putting
<1>7. Coming(r) = UNION {Below(c) : c \in Subdirs[d]}
  BY <1>6 DEF Coming
<1>8. ClaimOf(r) = Below(d)
  BY <1>3, <1>6, <1>7, BelowParts DEF ClaimOf
<1>9. OwnOf(r)
  <2>0. /\ \A c \in Subdirs[d] : FilesIn[d] \cap Below(c) = {}
        /\ \A c, e \in Subdirs[d] : c # e => Below(c) \cap Below(e) = {}
    BY <1>3, BelowParts
  <2>1. FilesIn[d] \cap Coming(r) = {} /\ \A c, e \in Kids(r) : c # e => Below(c) \cap Below(e) = {}
    <3>1. FilesIn[d] \cap Coming(r) = {}
      <4> SUFFICES ASSUME NEW f \in FilesIn[d], f \in Coming(r) PROVE FALSE
        OBVIOUS
      <4>1. PICK c \in Subdirs[d] : f \in Below(c)
        BY <1>7
      <4> QED BY <2>0, <4>1
    <3>2. \A c, e \in Kids(r) : c # e => Below(c) \cap Below(e) = {}
      BY <1>6, <2>0
    <3> QED BY <3>1, <3>2
  <2> QED BY <1>3, <1>6, <2>1 DEF OwnOf, Busy
<1>10. Claim(w) = {}
  BY <1>1, <1>2, IdleClaims DEF Busy
<1>r. r.pc = "list"
  OBVIOUS
<1>e. FailedIn(worker[w]) = {}
  BY <1>1, <1>2, IdleClaims, NoneFailed DEF Busy
<1> HIDE DEF r
<1>11. Turns(w, r)
  BY <1>1, <1>2, <1>5, <1>r, OneTurns
<1>12. (\A v \in Workers : worker[v].pc # "gone") /\ r.pc # "gone"
  BY <1>r DEF CrawlInv, GoneInv
<1>13. dirInProgress' = Cardinality(Active')
  <2>1. Active' = Active \cup {w} /\ w \notin Active
    BY <1>2, <1>5, <1>11, <1>r, TurnKeeps DEF Active, Busy, CrawlInv, Around
  <2>2. IsFiniteSet(Active) /\ dirInProgress = Cardinality(Active)
    BY ActiveCounts
  <2> QED BY <1>2, <2>1, <2>2, FS_AddElement
<1>14. \A i \in DOMAIN unstarted' : /\ i + 1 \in DOMAIN unstarted /\ 1 \in DOMAIN unstarted /\ i + 1 # 1
                                    /\ unstarted'[i] = unstarted[i + 1] /\ i \in Nat
  BY <1>2, <1>3
<1>15. /\ \A i, j \in DOMAIN unstarted : i # j => Below(unstarted[i]) \cap Below(unstarted[j]) = {}
  BY DEF CrawlInv, WorkersApart
<1>16. \A i, j \in DOMAIN unstarted' : i # j => Below(unstarted'[i]) \cap Below(unstarted'[j]) = {}
  <2> SUFFICES ASSUME NEW i \in DOMAIN unstarted', NEW j \in DOMAIN unstarted', i # j
               PROVE  Below(unstarted'[i]) \cap Below(unstarted'[j]) = {}
    OBVIOUS
  <2>1. i + 1 # j + 1 /\ i + 1 \in DOMAIN unstarted /\ j + 1 \in DOMAIN unstarted
    BY <1>14
  <2> QED BY <1>14, <1>15, <2>1
<1>17. \A i \in DOMAIN unstarted' : Below(unstarted'[i]) \cap ClaimOf(r) = {}
  BY <1>3, <1>8, <1>14, <1>15
<1>18. \A j \in DOMAIN unstarted : \/ Below(unstarted[j]) \subseteq ClaimOf(r)
                                   \/ \E i \in DOMAIN unstarted' : unstarted'[i] = unstarted[j]
  <2> SUFFICES ASSUME NEW j \in DOMAIN unstarted, j # 1
               PROVE  \E i \in DOMAIN unstarted' : unstarted'[i] = unstarted[j]
    BY <1>3, <1>8
  <2>1. j - 1 \in DOMAIN unstarted' /\ unstarted'[j - 1] = unstarted[j]
    BY <1>2, <1>3
  <2> QED BY <2>1
<1>19. \E j \in DOMAIN unstarted : ClaimOf(r) \subseteq Below(unstarted[j])
  <2>1. 1 \in DOMAIN unstarted
    BY <1>3
  <2> QED BY <1>3, <1>8, <2>1
<1>20. \A i \in DOMAIN unstarted' : \E j \in DOMAIN unstarted : unstarted'[i] = unstarted[j]
  BY <1>14
<1> QED BY <1>2, <1>3, <1>5, <1>9, <1>10, <1>11, <1>12, <1>13, <1>16, <1>17, <1>18, <1>19, <1>20, <1>e,
           WorkerExchanges

LEMMA SetToSeqIs ==
  ASSUME NEW S, IsFiniteSet(S)
  PROVE  /\ SetToSeq(S) \in Seq(S)
         /\ \A i, j \in DOMAIN SetToSeq(S) : SetToSeq(S)[i] = SetToSeq(S)[j] => i = j
         /\ \A x \in S : \E i \in DOMAIN SetToSeq(S) : SetToSeq(S)[i] = x
<1> DEFINE n == Cardinality(S)
           s == SetToSeq(S)
<1>1. n \in Nat /\ ExistsBijection(1..n, S)
  BY FS_CardinalityType
<1>2. PICK f \in Injection(1..n, S) : TRUE
  BY <1>1 DEF ExistsBijection, Bijection
<1>3. \E g \in [1..n -> S] : IsInjective(g)
  BY <1>2 DEF Injection
<1>4. s \in [1..n -> S] /\ IsInjective(s)
  BY <1>3 DEF SetToSeq
<1> HIDE DEF s
<1>5. s \in Seq(S) /\ DOMAIN s = 1..n
  <2> HIDE DEF n
  <2> QED BY <1>1, <1>4
<1>6. s \in Injection(1..n, S)
  BY <1>4 DEF Injection
<1>7. Cardinality(1..n) = n
  <2> HIDE DEF n
  <2>1. 1 \in Int /\ n \in Int
    BY <1>1
  <2>2. Cardinality(1..n) = IF 1 > n THEN 0 ELSE n - 1 + 1
    BY <2>1, FS_Interval
  <2> QED BY <1>1, <2>2
<1>8. s \in Surjection(1..n, S)
  BY <1>6, <1>7, FS_Injection
<1>9. \A x \in S : \E i \in 1..n : s[i] = x
  BY <1>8 DEF Surjection
<1>10. \A i, j \in DOMAIN s : s[i] = s[j] => i = j
  BY <1>4 DEF IsInjective
<1> QED BY <1>5, <1>9, <1>10 DEF s

LEMMA Concatenated ==
  ASSUME NEW T, NEW u \in Seq(T), NEW s \in Seq(T)
  PROVE  LET n == Len(u)  m == Len(s)  c == u \o s
         IN  /\ c \in Seq(T) /\ n \in Nat /\ m \in Nat /\ DOMAIN c = 1..(n + m)
             /\ DOMAIN u = 1..n /\ DOMAIN s = 1..m
             /\ \A i \in 1..n : c[i] = u[i]
             /\ \A i \in 1..m : c[n + i] = s[i]
  OBVIOUS

LEMMA ConcatenatedParts ==
  ASSUME NEW T, NEW u \in Seq(T), NEW s \in Seq(T)
  PROVE  /\ \A i \in DOMAIN (u \o s) : \/ i \in DOMAIN u /\ (u \o s)[i] = u[i]
                                       \/ \E k \in DOMAIN s : i = Len(u) + k /\ (u \o s)[i] = s[k]
         /\ \A i \in DOMAIN u : i \in DOMAIN (u \o s) /\ (u \o s)[i] = u[i]
         /\ \A k \in DOMAIN s : Len(u) + k \in DOMAIN (u \o s) /\ (u \o s)[Len(u) + k] = s[k]
<1> DEFINE n == Len(u)
           m == Len(s)
           c == u \o s
<1>1. /\ n \in Nat /\ m \in Nat /\ DOMAIN c = 1..(n + m) /\ DOMAIN u = 1..n /\ DOMAIN s = 1..m
      /\ \A i \in 1..n : c[i] = u[i]
      /\ \A i \in 1..m : c[n + i] = s[i]
  BY Concatenated
<1> HIDE DEF n, m, c
<1>2. ASSUME NEW i \in DOMAIN c, i \notin DOMAIN u
      PROVE  \E k \in DOMAIN s : i = n + k /\ c[i] = s[k]
  <2>1. i \in Nat /\ i - n \in 1..m /\ n + (i - n) = i
    BY <1>1, <1>2
  <2>2. c[n + (i - n)] = s[i - n]
    BY <1>1, <2>1
  <2> QED BY <1>1, <2>1, <2>2
<1>3. \A i \in DOMAIN u : i \in DOMAIN c
  BY <1>1
<1>4. \A k \in DOMAIN s : n + k \in DOMAIN c
  BY <1>1
<1> QED BY <1>1, <1>2, <1>3, <1>4 DEF n, m, c

LEMMA FinishKeeps ==
  ASSUME CrawlInv, ended = "no", NEW w \in Workers, FinishDirectory(w) PROVE CrawlInv'
<1> DEFINE q == worker[w]
           s == SetToSeq(q.found)
           u == unstarted
           r == IF q.pc = "error" THEN [NoDir EXCEPT !.pc = "send error", !.dir = q.dir] ELSE NoDir
<1>1. /\ worker \in [Workers -> WorkerState] /\ q \in WorkerState
      /\ OwnOf(q) /\ Claim(w) = ClaimOf(q) /\ unstarted \in Seq(Dirs)
  BY RunningFacts DEF CrawlInv, CrawlTypeOK
<1>2. /\ worker' = Broadcast([worker EXCEPT ![w] = r]) /\ unstarted' = u \o s
      /\ dirInProgress' = dirInProgress - 1 /\ q.puts = {} /\ q.pc \in {"listed", "error"}
      /\ UNCHANGED <<output, skipped>> /\ UNCHANGED Around
  BY <1>1 DEF FinishDirectory, Around, retryVars
<1>3. q.pc \in Busy /\ q.dir \in Dirs /\ q.names = {} /\ q.found \in SUBSET Dirs
      /\ Kids(q) = q.found /\ Putting(q) = {} /\ (q.pc = "error" => bad # {})
      /\ \A c, d \in Kids(q) : c # d => Below(c) \cap Below(d) = {}
  BY <1>1, <1>2 DEF OwnOf, WorkerState, Busy, Kids, Putting
<1>4. /\ r \in WorkerState /\ r.pc \in {"send error", "acquire"} /\ r.names = {} /\ r.puts = {}
      /\ r.found = {} /\ (r.pc = "send error" => r.dir \in Dirs /\ bad # {})
  BY <1>3 DEF NoDir, WorkerState
<1>e. FailedIn(q) \subseteq FailedIn(r)
  <2>1. q.pc = "error" => r.pc = "send error" /\ r.dir = q.dir
    BY DEF NoDir
  <2> HIDE DEF r
  <2> QED BY <1>2, <2>1 DEF FailedIn
<1>5. \A c, d \in q.found : c # d => Below(c) \cap Below(d) = {}
  BY <1>3
<1> HIDE DEF r
<1>6. r.pc \notin Busy /\ Putting(r) = {} /\ Kids(r) = {} /\ Coming(r) = {}
  <2>1. r.pc \notin Busy /\ Putting(r) = {} /\ Kids(r) = {}
    BY <1>4 DEF Putting, Kids, Busy
  <2> QED BY <2>1 DEF Coming
<1>7. OwnOf(r) /\ ClaimOf(r) = {}
  BY <1>4, <1>6 DEF OwnOf, ClaimOf, Busy
<1>8. ClaimOf(q) = UNION {Below(c) : c \in q.found}
  BY <1>3 DEF ClaimOf, Coming
<1>9. Turns(w, r)
  BY <1>1, <1>2, <1>4, OneTurns
<1>10. (\A v \in Workers : worker[v].pc # "gone") /\ r.pc # "gone"
  BY <1>3, <1>4 DEF CrawlInv, GoneInv, Active
<1>11. dirInProgress' = Cardinality(Active')
  <2>1. Active' = Active \ {w} /\ w \in Active
    BY <1>2, <1>3, <1>4, <1>6, <1>9, TurnKeeps DEF Active, CrawlInv, Around
  <2>2. IsFiniteSet(Active) /\ dirInProgress = Cardinality(Active)
    BY ActiveCounts
  <2> QED BY <1>2, <2>1, <2>2, FS_RemoveElement
<1>12. IsFiniteSet(q.found)
  BY <1>3, TreeShape, FS_Subset
<1>13. /\ s \in Seq(q.found) /\ \A i, j \in DOMAIN s : s[i] = s[j] => i = j
       /\ \A x \in q.found : \E i \in DOMAIN s : s[i] = x
  BY <1>12, SetToSeqIs
<1>14. s \in Seq(Dirs) /\ \A i \in DOMAIN s : s[i] \in q.found
  BY <1>3, <1>13
<1> HIDE DEF s, u, q
<1>q. FailedIn(worker[w]) \subseteq FailedIn(r)
  BY <1>e DEF q
<1>u. u = unstarted
  BY DEF u
<1>15. u \o s \in Seq(Dirs)
  BY <1>1, <1>14, <1>u
<1>16. /\ \A i \in DOMAIN (u \o s) : \/ i \in DOMAIN u /\ (u \o s)[i] = u[i]
                                     \/ \E k \in DOMAIN s : i = Len(u) + k /\ (u \o s)[i] = s[k]
       /\ \A i \in DOMAIN u : i \in DOMAIN (u \o s) /\ (u \o s)[i] = u[i]
       /\ \A k \in DOMAIN s : Len(u) + k \in DOMAIN (u \o s) /\ (u \o s)[Len(u) + k] = s[k]
  BY <1>1, <1>14, <1>u, ConcatenatedParts
<1>17. /\ \A i, j \in DOMAIN u : i # j => Below(u[i]) \cap Below(u[j]) = {}
       /\ \A i \in DOMAIN u : Claim(w) \cap Below(u[i]) = {}
  BY <1>u DEF CrawlInv, WorkersApart
<1>18. \A k \in DOMAIN s : Below(s[k]) \subseteq Claim(w)
  BY <1>1, <1>8, <1>14
<1>19. \A i, j \in DOMAIN (u \o s) : i # j => Below((u \o s)[i]) \cap Below((u \o s)[j]) = {}
  <2> SUFFICES ASSUME NEW i \in DOMAIN (u \o s), NEW j \in DOMAIN (u \o s), i # j
               PROVE  Below((u \o s)[i]) \cap Below((u \o s)[j]) = {}
    OBVIOUS
  <2>1. CASE i \in DOMAIN u /\ (u \o s)[i] = u[i] /\ j \in DOMAIN u /\ (u \o s)[j] = u[j]
    BY <1>17, <2>1
  <2>2. ASSUME NEW k \in DOMAIN s, (u \o s)[i] = s[k], j \in DOMAIN u, (u \o s)[j] = u[j]
        PROVE  Below((u \o s)[i]) \cap Below((u \o s)[j]) = {}
    BY <1>17, <1>18, <2>2
  <2>3. ASSUME NEW k \in DOMAIN s, (u \o s)[j] = s[k], i \in DOMAIN u, (u \o s)[i] = u[i]
        PROVE  Below((u \o s)[i]) \cap Below((u \o s)[j]) = {}
    BY <1>17, <1>18, <2>3
  <2>4. ASSUME NEW k \in DOMAIN s, NEW l \in DOMAIN s, i = Len(u) + k, j = Len(u) + l,
               (u \o s)[i] = s[k], (u \o s)[j] = s[l]
        PROVE  Below((u \o s)[i]) \cap Below((u \o s)[j]) = {}
    <3>1. k # l
      BY <2>4
    <3>2. s[k] # s[l] /\ s[k] \in q.found /\ s[l] \in q.found
      BY <1>13, <1>14, <3>1
    <3> QED BY <1>5, <2>4, <3>2
  <2> QED BY <1>16, <2>1, <2>2, <2>3, <2>4
<1>20. \A i \in DOMAIN (u \o s) : \/ Below((u \o s)[i]) \subseteq Claim(w)
                                  \/ \E j \in DOMAIN u : (u \o s)[i] = u[j]
  BY <1>16, <1>18
<1>21. \A f \in Claim(w) : \E i \in DOMAIN (u \o s) : f \in Below((u \o s)[i])
  <2> SUFFICES ASSUME NEW f \in Claim(w)
               PROVE  \E i \in DOMAIN (u \o s) : f \in Below((u \o s)[i])
    OBVIOUS
  <2>1. PICK c \in q.found : f \in Below(c)
    BY <1>1, <1>3, <1>8
  <2>2. PICK k \in DOMAIN s : s[k] = c
    BY <1>13
  <2> QED BY <1>16, <2>1, <2>2
<1>22. \A j \in DOMAIN u : \E i \in DOMAIN (u \o s) : (u \o s)[i] = u[j]
  BY <1>16
<1>23. unstarted' = u \o s
  BY <1>2
<1>24. /\ \A i, j \in DOMAIN unstarted' : i # j => Below(unstarted'[i]) \cap Below(unstarted'[j]) = {}
       /\ unstarted' \in Seq(Dirs)
  BY <1>15, <1>19, <1>23
<1>25. \A i \in DOMAIN unstarted' : Below(unstarted'[i]) \cap ClaimOf(r) = {}
  BY <1>7
<1>26. \A i \in DOMAIN unstarted' : \/ Below(unstarted'[i]) \subseteq Claim(w)
                                     \/ \E j \in DOMAIN unstarted : unstarted'[i] = unstarted[j]
  BY <1>20, <1>23, <1>u
<1>27. ClaimOf(r) \subseteq Claim(w)
  BY <1>7
<1>28. \A f \in Claim(w) : \/ f \in ClaimOf(r)
                            \/ \E i \in DOMAIN unstarted' : f \in Below(unstarted'[i])
  BY <1>21, <1>23
<1>29. \A j \in DOMAIN unstarted : \/ Below(unstarted[j]) \subseteq ClaimOf(r)
                                   \/ \E i \in DOMAIN unstarted' : unstarted'[i] = unstarted[j]
  BY <1>22, <1>23, <1>u
<1> QED BY <1>2, <1>4, <1>7, <1>9, <1>10, <1>11, <1>24, <1>25, <1>26, <1>27, <1>28, <1>29, <1>q,
           WorkerExchanges

LEMMA CrawlKeeps ==
  ASSUME CrawlInv, ended = "no", NEW w \in Workers, CrawlStep(w) \/ PoolIsLate(w)
  PROVE  CrawlInv'
  BY LooksInVain, TakesDirectory, ReadBatchKeeps, PoolIsLateKeeps, ListingFailsKeeps, PutKeeps,
     FinishKeeps, SendErrorKeeps DEF CrawlStep

(***************************************************************************)
(* The second pool and the caller.                                         *)
(***************************************************************************)
Alone == \A t, u \in Holding : transformer[t].file = transformer[u].file => t = u
Apart4(a, b, c, d) ==
    a \cap b = {} /\ a \cap c = {} /\ a \cap d = {} /\ b \cap c = {} /\ b \cap d = {} /\ c \cap d = {}

LEMMA PassedOnceParts ==
  PassedOnce <=> /\ Single(output) /\ Single(transformed) /\ Alone
                 /\ Apart4(In(output), InHand, In(transformed), Delivered)
  BY DEF PassedOnce, Alone, Apart4

LEMMA PassStep ==
  ASSUME CrawlInv, ended = "no", UNCHANGED <<mode, bad, crawlVars>>,
         PassedOnce', CrawlTypeOK', FaultInv', GoneInv',
         Passed' \subseteq Passed, Passed \subseteq Passed' \cup Underway', skipped' = skipped,
         Underway \subseteq Underway'
  PROVE  CrawlInv'
<1>0. WorkersApart /\ WorkersOwn /\ NothingLost
  BY DEF CrawlInv
<1>1. /\ \A w \in Workers : Claim(w)' = Claim(w)
      /\ unstarted' = unstarted /\ worker' = worker /\ bad' = bad
  BY DEF crawlVars, Claim
<1>m. Missable \subseteq Missable' /\ (Underway' \cap Files \subseteq Missable')
  <2>1. Failing \subseteq Failing' /\ Underway' \subseteq Failing'
    BY <1>1 DEF Failing
  <2> QED BY <2>1, MissableGrows, Covers
<1>2. WorkersOwn'
  BY <1>0, <1>1 DEF WorkersOwn, OwnOf
<1>3. WorkersApart'
  <2>1. /\ \A w \in Workers : /\ Claim(w)' \cap Passed' = {}
                              /\ \A i \in DOMAIN unstarted : Claim(w)' \cap Below(unstarted[i]) = {}
                              /\ \A v \in Workers : v # w => Claim(w)' \cap Claim(v)' = {}
    BY <1>0, <1>1 DEF WorkersApart
  <2>2. /\ \A i \in DOMAIN unstarted : /\ Below(unstarted[i]) \cap Passed' = {}
                                       /\ \A j \in DOMAIN unstarted :
                                             i # j => Below(unstarted[i]) \cap Below(unstarted[j]) = {}
    BY <1>0 DEF WorkersApart
  <2> QED BY <1>1, <2>1, <2>2 DEF WorkersApart
<1>4. NothingLost'
  <2> SUFFICES ASSUME NEW f \in Files \ Missable'
               PROVE  \/ f \in Passed' \/ \E v \in Workers : f \in Claim(v)'
                      \/ \E i \in DOMAIN unstarted : f \in Below(unstarted[i])
    BY <1>1 DEF NothingLost
  <2>1. f \notin Missable /\ f \notin Underway'
    BY <1>m
  <2> QED BY <1>0, <1>1, <2>1 DEF NothingLost
<1> QED BY <1>2, <1>3, <1>4 DEF CrawlInv

LEMMA PassTypes ==
  ASSUME CrawlInv, UNCHANGED <<mode, bad, crawlVars>>,
         ended' = "no" => ctxDone' = FALSE, sharedErr' \in BOOLEAN,
         output' \in Seq(Results), transformed' \in Seq(Results),
         transformer' \in [Transformers -> HandState],
         RightlyHeld(transformer'),
         delivered' \in [Files -> {0, 1}]
  PROVE  CrawlTypeOK'
  BY DEF CrawlInv, CrawlTypeOK, crawlVars, Active, Holding

LEMMA TransformerFacts ==
  ASSUME CrawlInv, ended = "no"
  PROVE  /\ sharedErr \in BOOLEAN /\ output \in Seq(Results) /\ transformed \in Seq(Results)
         /\ transformer \in [Transformers -> HandState]
         /\ RightlyHeld(transformer)
         /\ delivered \in [Files -> {0, 1}] /\ ctxDone = FALSE
         /\ Single(output) /\ Single(transformed) /\ Alone
         /\ Apart4(In(output), InHand, In(transformed), Delivered)
  BY PassedOnceParts DEF CrawlInv, CrawlTypeOK, Holding

\* What is held, seen as the images of those that hold.
One(H, F) == \A u, v \in H : F[u] = F[v] => u = v
Image(H, F) == {F[u] : u \in H}

LEMMA HandMoves ==
  ASSUME CrawlInv, ended = "no", NEW t \in Transformers,
         NEW pc \in Loaded \cup {"take", "put error", "gone"}, NEW file \in Dirs \cup Files \cup {"none"},
         transformer' = [transformer EXCEPT ![t] = [pc |-> pc, file |-> file]],
         pc \in Loaded => file \in Files, pc = "put error" => file \in Dirs \cup Files
  PROVE  /\ transformer' \in [Transformers -> HandState]
         /\ RightlyHeld(transformer')
         /\ t \notin Holding /\ pc \notin Loaded => Alone' /\ InHand' = InHand
         /\ t \notin Holding /\ pc \in Loaded /\ file \notin InHand => Alone' /\ InHand' = InHand \cup {file}
         /\ t \in Holding /\ pc \in Loaded /\ file = transformer[t].file => Alone' /\ InHand' = InHand
         /\ t \in Holding /\ pc \notin Loaded => Alone' /\ InHand' = InHand \ {transformer[t].file}
<1>1. /\ transformer \in [Transformers -> HandState]
      /\ RightlyHeld(transformer)
      /\ Alone
  BY TransformerFacts
<1>2. /\ transformer'[t].pc = pc /\ transformer'[t].file = file
      /\ \A u \in Transformers \ {t} : transformer'[u] = transformer[u]
  BY <1>1
<1>3. transformer' \in [Transformers -> HandState]
  BY <1>1 DEF HandState
<1>4. RightlyHeld(transformer')
  BY <1>1, <1>2 DEF RightlyHeld
<1>5. Holding' = IF pc \in Loaded THEN Holding \cup {t} ELSE Holding \ {t}
  BY <1>2 DEF Holding
<1>6. \A u \in Holding \ {t} : transformer'[u].file = transformer[u].file /\ transformer[u].file \in InHand
  BY <1>2 DEF Holding, InHand
<1> DEFINE F == [u \in Transformers |-> transformer[u].file]
           G == [u \in Transformers |-> transformer'[u].file]
<1>7. /\ Holding \in SUBSET Transformers /\ Holding' \in SUBSET Transformers
      /\ InHand = Image(Holding, F) /\ InHand' = Image(Holding', G)
      /\ Alone <=> One(Holding, F)
      /\ Alone' <=> One(Holding', G)
  BY DEF InHand, Alone, Image, One, Holding
<1>8. \A u \in Transformers : F[u] = transformer[u].file /\ G[u] = transformer'[u].file
  OBVIOUS
<1> HIDE DEF F, G
<1>f. \A u \in Transformers : u # t => G[u] = F[u]
  BY <1>2, <1>8
<1>g. G[t] = file /\ F[t] = transformer[t].file
  BY <1>2, <1>8
<1>h. One(Holding, F) /\ Holding \in SUBSET Transformers
  BY <1>1, <1>7
<1>9. ASSUME t \notin Holding PROVE One(Holding, G) /\ Image(Holding, G) = Image(Holding, F)
  <2>1. \A u \in Holding : G[u] = F[u]
    BY <1>9, <1>f, <1>h
  <2> QED BY <1>h, <2>1 DEF One, Image
<1>10. ASSUME t \notin Holding, G[t] \notin Image(Holding, F)
       PROVE  /\ One(Holding \cup {t}, G)
              /\ Image(Holding \cup {t}, G) = Image(Holding, F) \cup {G[t]}
  <2>1. \A u \in Holding : G[u] = F[u] /\ G[u] # G[t]
    BY <1>10, <1>f, <1>h DEF Image
  <2> QED BY <1>h, <2>1 DEF One, Image
<1>11. ASSUME t \in Holding, G[t] = F[t] PROVE One(Holding, G) /\ Image(Holding, G) = Image(Holding, F)
  <2>1. \A u \in Holding : G[u] = F[u]
    BY <1>11, <1>f, <1>h
  <2> QED BY <1>h, <2>1 DEF One, Image
<1>12. ASSUME t \in Holding
       PROVE  /\ One(Holding \ {t}, G)
              /\ Image(Holding \ {t}, G) = Image(Holding, F) \ {F[t]}
  <2>1. \A u \in Holding \ {t} : G[u] = F[u] /\ F[u] # F[t]
    BY <1>12, <1>f, <1>h DEF One
  <2> QED BY <1>h, <1>12, <2>1 DEF One, Image
<1>13. /\ t \notin Holding /\ pc \notin Loaded => Holding' = Holding
       /\ t \notin Holding /\ pc \in Loaded => Holding' = Holding \cup {t}
       /\ t \in Holding /\ pc \in Loaded => Holding' = Holding
       /\ t \in Holding /\ pc \notin Loaded => Holding' = Holding \ {t}
  BY <1>5
<1> QED BY <1>3, <1>4, <1>7, <1>f, <1>g, <1>9, <1>10, <1>11, <1>12, <1>13

LEMMA PassGone ==
  ASSUME CrawlInv, ended = "no", UNCHANGED <<mode, crawlVars>>,
         \/ ended' # "no"
         \/ /\ \A u \in Transformers : transformer'[u].pc = "gone" =>
                  transformer[u].pc = "gone" \/ (OutputClosed /\ output = << >>)
            /\ output = << >> => output' = << >>
            /\ mode # "file" => UNCHANGED transformVars
  PROVE  GoneInv'
<1>1. Active' = Active /\ worker' = worker /\ unstarted' = unstarted /\ (OutputClosed' <=> OutputClosed)
  BY DEF crawlVars, Active, OutputClosed
<1> QED BY <1>1 DEF CrawlInv, GoneInv, transformVars

LEMMA SharedIsBad == ASSUME CrawlInv, sharedErr PROVE bad # {} /\ mode = "file"
  BY DEF CrawlInv, FaultInv

\* What the second pool holds as an error.
LEMMA HeldErrs ==
  ASSUME transformer \in [Transformers -> HandState], NEW t \in Transformers, NEW pc, NEW file,
         transformer' = [transformer EXCEPT ![t] = [pc |-> pc, file |-> file]]
  PROVE  /\ transformer[t].pc # "put error" => ErrHeld \subseteq ErrHeld'
         /\ ErrHeld \subseteq ErrHeld' \cup {transformer[t].file}
         /\ pc = "put error" /\ file \in Dirs \cup Files => file \in ErrHeld'
<1>1. transformer'[t].pc = pc /\ transformer'[t].file = file
  OBVIOUS
<1>2. \A u \in Transformers \ {t} : transformer'[u] = transformer[u]
  OBVIOUS
<1>3. ASSUME NEW x \in ErrHeld, x \notin ErrHeld'
      PROVE  transformer[t].pc = "put error" /\ transformer[t].file = x
  <2>1. PICK u \in Transformers : transformer[u].pc = "put error" /\ transformer[u].file = x
    BY DEF ErrHeld
  <2>2. u = t
    BY <1>2, <1>3, <2>1 DEF ErrHeld
  <2> QED BY <2>1, <2>2
<1>4. pc = "put error" /\ file \in Dirs \cup Files => file \in ErrHeld'
  BY <1>1 DEF ErrHeld
<1> QED BY <1>3, <1>4

\* An entry that moves on is nowhere else.
LEMMA OneMoves ==
  ASSUME NEW a, NEW b, NEW c, NEW d, Apart4(a, b, c, d)
  PROVE  /\ \A f \in a : /\ Apart4(a \ {f}, b \cup {f}, c, d) /\ f \notin b
                         /\ (a \ {f}) \cup (b \cup {f}) \cup c \cup d = a \cup b \cup c \cup d
         /\ \A f \in a : /\ Apart4(a \ {f}, b, c, d \cup {f}) /\ f \notin d
                         /\ (a \ {f}) \cup b \cup c \cup (d \cup {f}) = a \cup b \cup c \cup d
         /\ \A f \in b : /\ Apart4(a, b \ {f}, c \cup {f}, d) /\ f \notin c
                         /\ a \cup (b \ {f}) \cup (c \cup {f}) \cup d = a \cup b \cup c \cup d
         /\ \A f \in c : /\ Apart4(a, b, c \ {f}, d \cup {f}) /\ f \notin d
                         /\ a \cup b \cup (c \ {f}) \cup (d \cup {f}) = a \cup b \cup c \cup d
         /\ \A f \in b : Apart4(a, b \ {f}, c, d)
  BY DEF Apart4

LEMMA TakeResultKeeps ==
  ASSUME CrawlInv, ended = "no", NEW t \in Transformers, TakeResult(t) PROVE CrawlInv'
<1> DEFINE h == Head(output)
           pc == IF h.err THEN "put error" ELSE "get"
<1>1. /\ mode = "file" /\ transformer[t].pc = "take" /\ output # << >> /\ output' = Tail(output)
      /\ transformer' = [transformer EXCEPT ![t] = [pc |-> pc, file |-> h.file]]
      /\ UNCHANGED <<mode, bad, crawlVars, sharedErr, transformed, readerVars, skipped>>
  BY DEF TakeResult, Move, retryVars
<1>2. /\ sharedErr \in BOOLEAN /\ output \in Seq(Results) /\ transformed \in Seq(Results)
      /\ delivered \in [Files -> {0, 1}] /\ ctxDone = FALSE
      /\ Single(output) /\ Single(transformed) /\ Alone
      /\ Apart4(In(output), InHand, In(transformed), Delivered)
  BY TransformerFacts
<1>3. /\ Single(Tail(output)) /\ Tail(output) \in Seq(Results) /\ h \in Results
      /\ h.err => In(Tail(output)) = In(output)
      /\ ~h.err => h.file \in In(output) /\ In(Tail(output)) = In(output) \ {h.file}
      /\ \A i \in DOMAIN Tail(output) : \E j \in DOMAIN output : Tail(output)[i] = output[j]
      /\ \E j \in DOMAIN output : h = output[j]
  BY <1>1, <1>2, TailResults
<1>u. ErrIn(output) \subseteq ErrIn(Tail(output)) \cup (IF h.err THEN {h.file} ELSE {})
  BY <1>1, <1>2, TailErrs
<1> HIDE DEF h
<1>4. h.file \in Dirs \cup Files /\ (~h.err => h.file \in Files) /\ h.err \in BOOLEAN
  BY <1>3, ResultIs
<1>5. /\ pc \in Loaded \cup {"take", "put error", "gone"}
      /\ h.file \in Dirs \cup Files \cup {"none"}
      /\ pc \in Loaded => h.file \in Files /\ ~h.err
      /\ pc = "put error" => h.file \in Dirs \cup Files /\ h.err
      /\ pc \in Loaded <=> ~h.err
      /\ pc # "gone"
  BY <1>4 DEF Loaded
<1>6. t \notin Holding
  BY <1>1 DEF Holding, Loaded
<1>v. h.err => pc = "put error"
  OBVIOUS
<1> HIDE DEF pc
<1>7. ~h.err => h.file \notin InHand
  BY <1>2, <1>3 DEF Apart4
<1>8. /\ transformer' \in [Transformers -> HandState]
      /\ RightlyHeld(transformer')
      /\ Alone'
      /\ InHand' = IF h.err THEN InHand ELSE InHand \cup {h.file}
  BY <1>1, <1>4, <1>5, <1>6, <1>7, HandMoves
<1>9. CrawlTypeOK'
  BY <1>1, <1>2, <1>3, <1>8, PassTypes DEF readerVars
<1>10. Delivered' = Delivered /\ In(transformed)' = In(transformed) /\ Single(transformed)'
  BY <1>1, <1>2 DEF Delivered, readerVars, In, Single
<1>11. In(output)' = (IF h.err THEN In(output) ELSE In(output) \ {h.file}) /\ Single(output)'
  BY <1>1, <1>3, <1>4 DEF In, Single
<1>12. /\ Apart4(In(output)', InHand', In(transformed)', Delivered')
       /\ Passed' = Passed
  <2>1. CASE h.err
    BY <1>2, <1>8, <1>10, <1>11, <2>1 DEF Passed
  <2>2. CASE ~h.err
    <3>1. /\ Apart4(In(output) \ {h.file}, InHand \cup {h.file}, In(transformed), Delivered)
          /\ (In(output) \ {h.file}) \cup (InHand \cup {h.file}) \cup In(transformed) \cup Delivered
                = In(output) \cup InHand \cup In(transformed) \cup Delivered
      BY <1>2, <1>3, <2>2, OneMoves
    <3> QED BY <1>8, <1>10, <1>11, <2>2, <3>1 DEF Passed
  <2> QED BY <1>4, <2>1, <2>2
<1>13. PassedOnce'
  <2>1. (Apart4(In(output), InHand, In(transformed), Delivered))'
    BY <1>12 DEF Apart4
  <2>2. (Single(output) /\ Single(transformed) /\ Alone)'
    BY <1>8, <1>10, <1>11
  <2>3. PassedOnce' <=> (/\ Single(output) /\ Single(transformed) /\ Alone
                         /\ Apart4(In(output), InHand, In(transformed), Delivered))'
    BY PassedOnceParts, PTL
  <2> QED BY <2>1, <2>2, <2>3
<1>14. FaultInv'
  <2>1. h.err => bad # {}
    BY <1>3 DEF CrawlInv, FaultInv
  <2>2. \A u \in Transformers : transformer'[u].pc = "put error" => bad # {}
    <3>1. \A u \in Transformers \ {t} : transformer'[u] = transformer[u]
      BY <1>1, TransformerFacts
    <3>2. transformer'[t].pc = "put error" => h.err
      BY <1>1, <1>5, TransformerFacts
    <3> QED BY <2>1, <3>1, <3>2 DEF CrawlInv, FaultInv
  <2>3. \A i \in DOMAIN output' : output'[i].err => bad # {}
    BY <1>1, <1>3 DEF CrawlInv, FaultInv
  <2> QED BY <1>1, <2>2, <2>3 DEF CrawlInv, FaultInv
<1>15. GoneInv'
  <2>1. \A u \in Transformers : transformer'[u].pc = "gone" => transformer[u].pc = "gone"
    BY <1>1, <1>5, TransformerFacts
  <2> QED BY <1>1, <2>1, PassGone
<1>16. Underway \subseteq Underway'
  <2>1. ErrHeld \subseteq ErrHeld' /\ (h.err => h.file \in ErrHeld')
    <3>1. transformer[t].pc # "put error"
      BY <1>1
    <3> QED BY <1>v, <1>1, <1>4, <3>1, TransformerFacts, HeldErrs
  <2>2. ErrIn(transformed)' = ErrIn(transformed) /\ ErrIn(output)' = ErrIn(Tail(output)) /\ warned' = warned
    BY <1>1 DEF ErrIn, readerVars
  <2> QED BY <1>u, <2>1, <2>2 DEF Underway
<1> QED BY <1>1, <1>9, <1>12, <1>13, <1>14, <1>15, <1>16, PassStep

Still == <<mode, bad, crawlVars, output, transformed, delivered, warned, ctxDone, skipped>>

\* Steps of the second pool that touch no channel.
LEMMA HandStep ==
  ASSUME CrawlInv, ended = "no", UNCHANGED Still, sharedErr' \in BOOLEAN,
         transformer' \in [Transformers -> HandState],
         RightlyHeld(transformer'),
         Alone', InHand' \subseteq InHand, InHand \subseteq InHand' \cup ErrHeld', ErrHeld \subseteq ErrHeld',
         \A u \in Transformers : transformer'[u].pc = "put error" => bad # {},
         sharedErr' => mode = "file" /\ bad \cap BadFiles # {}, GoneInv'
  PROVE  CrawlInv'
<1>1. /\ Single(output) /\ Single(transformed) /\ output \in Seq(Results) /\ transformed \in Seq(Results)
      /\ delivered \in [Files -> {0, 1}] /\ ctxDone = FALSE
      /\ Apart4(In(output), InHand, In(transformed), Delivered)
  BY TransformerFacts
<1>2. CrawlTypeOK'
  BY <1>1, PassTypes DEF Still
<1>3. /\ Delivered' = Delivered /\ In(transformed)' = In(transformed) /\ In(output)' = In(output)
      /\ Single(output)' /\ Single(transformed)'
  BY <1>1 DEF Still, Delivered, In, Single
<1>4. PassedOnce'
  <2>1. (Apart4(In(output), InHand, In(transformed), Delivered))'
    BY <1>1, <1>3 DEF Apart4
  <2>2. PassedOnce' <=> (/\ Single(output) /\ Single(transformed) /\ Alone
                         /\ Apart4(In(output), InHand, In(transformed), Delivered))'
    BY PassedOnceParts, PTL
  <2> QED BY <1>3, <2>1, <2>2
<1>5. Passed' \subseteq Passed /\ Passed \subseteq Passed' \cup Underway' /\ Underway \subseteq Underway'
  <2>1. ErrIn(transformed)' = ErrIn(transformed) /\ ErrIn(output)' = ErrIn(output) /\ warned' = warned
    BY DEF ErrIn, Still
  <2>2. ErrHeld' \subseteq Underway' /\ Underway \subseteq Underway'
    BY <2>1 DEF Underway
  <2> QED BY <1>3, <2>2 DEF Passed
<1>6. FaultInv'
  BY DEF CrawlInv, FaultInv, Still
<1>7. UNCHANGED <<mode, bad, crawlVars>> /\ skipped' = skipped
  BY DEF Still
<1> QED BY <1>2, <1>4, <1>5, <1>6, <1>7, PassStep

\* A transformer that has a result is in "file".
LEMMA InFileMode ==
  ASSUME CrawlInv, ended = "no", NEW t \in Transformers, transformer[t].pc # "take"
  PROVE  mode = "file"
  BY DEF CrawlInv, GoneInv

LEMMA GetPropertiesKeeps ==
  ASSUME CrawlInv, ended = "no", NEW t \in Transformers, GetProperties(t) PROVE CrawlInv'
<1> DEFINE f == transformer[t].file
<1>1. /\ transformer[t].pc = "get" /\ sharedErr' = (f \in bad) /\ UNCHANGED Still /\ ended' = ended
      /\ transformer' = [transformer EXCEPT ![t] = [pc |-> "check", file |-> f]]
  BY DEF GetProperties, Move, Still, readerVars, retryVars
<1>2. t \in Holding /\ f \in Files /\ mode = "file" /\ "check" \in Loaded
  BY <1>1, TransformerFacts, InFileMode DEF RightlyHeld, Holding, Loaded
<1>3. /\ transformer' \in [Transformers -> HandState]
      /\ RightlyHeld(transformer')
      /\ Alone' /\ InHand' = InHand
  BY <1>1, <1>2, HandMoves
<1>4. sharedErr' => mode = "file" /\ bad \cap BadFiles # {}
  BY <1>1, <1>2 DEF CrawlInv, FaultInv
<1>5. /\ \A u \in Transformers \ {t} : transformer'[u] = transformer[u]
      /\ transformer'[t].pc = "check"
  BY <1>1, TransformerFacts
<1>6. \A u \in Transformers : transformer'[u].pc = "put error" => bad # {}
  BY <1>5 DEF CrawlInv, FaultInv
<1>7. GoneInv'
  <2>1. \A u \in Transformers : transformer'[u].pc = "gone" => transformer[u].pc = "gone"
    BY <1>5
  <2> QED BY <1>1, <1>2, <2>1, PassGone DEF Still
<1>8. sharedErr' \in BOOLEAN
  BY <1>1
<1>e. ErrHeld \subseteq ErrHeld'
  BY <1>1, TransformerFacts, HeldErrs
<1> QED BY <1>1, <1>3, <1>e, <1>4, <1>6, <1>7, <1>8, HandStep

LEMMA PanicKeeps ==
  ASSUME CrawlInv, ended = "no", ended' = "failed", UNCHANGED Still, UNCHANGED transformVars
  PROVE  CrawlInv'
<1>1. /\ sharedErr \in BOOLEAN
      /\ transformer \in [Transformers -> HandState]
      /\ RightlyHeld(transformer)
      /\ Alone
  BY TransformerFacts
<1>2. Alone' /\ InHand' = InHand /\ ErrHeld' = ErrHeld /\ transformer' = transformer /\ sharedErr' = sharedErr
  BY <1>1 DEF Alone, InHand, Holding, ErrHeld, transformVars
<1>3. /\ \A u \in Transformers : transformer[u].pc = "put error" => bad # {}
      /\ sharedErr => mode = "file" /\ bad \cap BadFiles # {}
  BY DEF CrawlInv, FaultInv
<1>4. GoneInv'
  BY DEF GoneInv
<1> QED BY <1>1, <1>2, <1>3, <1>4, HandStep

LEMMA CheckErrKeeps ==
  ASSUME CrawlInv, ended = "no", NEW t \in Transformers, CheckErr(t) PROVE CrawlInv'
<1> DEFINE f == transformer[t].file
           pc == IF sharedErr THEN "put error" ELSE "put"
<1>1. transformer[t].pc = "check" /\ UNCHANGED Still /\ sharedErr' = sharedErr /\ transformed' = transformed
  BY DEF CheckErr, Still, retryVars
<1>2. t \in Holding /\ f \in Files
  BY <1>1, TransformerFacts DEF RightlyHeld, Holding, Loaded
<1>3. CASE ~sharedErr /\ f \in bad
  <2>1. ended' = "failed" /\ UNCHANGED transformVars
    BY <1>1, <1>3 DEF CheckErr, transformVars
  <2> QED BY <1>1, <2>1, PanicKeeps
<1>4. CASE ~(~sharedErr /\ f \in bad)
  <2>1. transformer' = [transformer EXCEPT ![t] = [pc |-> pc, file |-> f]] /\ ended' = ended
    BY <1>4 DEF CheckErr, Move
  <2>2. pc \in Loaded \cup {"take", "put error", "gone"} /\ (pc \in Loaded <=> ~sharedErr)
        /\ (pc = "put error" => sharedErr) /\ pc # "gone"
    BY DEF Loaded
  <2>3. /\ transformer' \in [Transformers -> HandState]
        /\ RightlyHeld(transformer')
        /\ Alone' /\ InHand' = IF sharedErr THEN InHand \ {f} ELSE InHand
    <3> HIDE DEF pc
    <3> QED BY <1>2, <2>1, <2>2, HandMoves
  <2>4. sharedErr => bad # {} /\ mode = "file"
    BY SharedIsBad
  <2>e. ErrHeld \subseteq ErrHeld' /\ (sharedErr => f \in ErrHeld')
    <3>1. (sharedErr => pc = "put error") /\ transformer[t].pc # "put error"
      BY <1>1
    <3> HIDE DEF pc
    <3> QED BY <1>2, <2>1, <3>1, TransformerFacts, HeldErrs
  <2>5. InHand' \subseteq InHand /\ InHand \subseteq InHand' \cup ErrHeld'
    BY <1>2, <2>3, <2>e
  <2>6. /\ \A u \in Transformers \ {t} : transformer'[u] = transformer[u]
        /\ transformer'[t].pc = pc
    BY <2>1, TransformerFacts
  <2>7. \A u \in Transformers : transformer'[u].pc = "put error" => bad # {}
    BY <2>2, <2>4, <2>6 DEF CrawlInv, FaultInv
  <2>8. GoneInv'
    <3>1. \A u \in Transformers : transformer'[u].pc = "gone" => transformer[u].pc = "gone"
      BY <2>2, <2>6
    <3>2. mode = "file"
      BY <1>1, InFileMode
    <3> QED BY <1>1, <3>1, <3>2, PassGone DEF Still
  <2>9. sharedErr' \in BOOLEAN /\ (sharedErr' => mode = "file" /\ bad \cap BadFiles # {})
    BY <1>1, TransformerFacts DEF CrawlInv, FaultInv
  <2> QED BY <1>1, <2>3, <2>5, <2>e, <2>7, <2>8, <2>9, HandStep
<1> QED BY <1>3, <1>4

LEMMA TransformerLeavesKeeps ==
  ASSUME CrawlInv, ended = "no", NEW t \in Transformers, TransformerLeaves(t) PROVE CrawlInv'
<1>1. /\ mode = "file" /\ transformer[t].pc = "take" /\ OutputClosed /\ output = << >>
      /\ transformer' = [transformer EXCEPT ![t] = [pc |-> "gone", file |-> "none"]]
      /\ UNCHANGED Still /\ sharedErr' = sharedErr /\ ended' = ended
  BY TransformerFacts DEF TransformerLeaves, Move, Still, readerVars, retryVars
<1>2. t \notin Holding /\ "gone" \notin Loaded
  BY <1>1 DEF Holding, Loaded
<1>3. /\ transformer' \in [Transformers -> HandState]
      /\ RightlyHeld(transformer')
      /\ Alone' /\ InHand' = InHand
  BY <1>1, <1>2, HandMoves
<1>4. /\ \A u \in Transformers \ {t} : transformer'[u] = transformer[u]
      /\ transformer'[t].pc = "gone"
  BY <1>1, TransformerFacts
<1>5. \A u \in Transformers : transformer'[u].pc = "put error" => bad # {}
  BY <1>4 DEF CrawlInv, FaultInv
<1>6. GoneInv'
  BY <1>1, PassGone DEF Still
<1>7. sharedErr' \in BOOLEAN /\ (sharedErr' => mode = "file" /\ bad \cap BadFiles # {})
  BY <1>1, TransformerFacts DEF CrawlInv, FaultInv
<1>e. ErrHeld \subseteq ErrHeld'
  BY <1>1, TransformerFacts, HeldErrs
<1> QED BY <1>1, <1>3, <1>e, <1>5, <1>6, <1>7, HandStep

LEMMA PutObjectKeeps ==
  ASSUME CrawlInv, ended = "no", NEW t \in Transformers, PutObject(t) PROVE CrawlInv'
<1> DEFINE f == transformer[t].file
           p == IF transformer[t].pc = "put" THEN Found(f) ELSE Failed(f)
<1>1. /\ transformer[t].pc \in {"put", "put error"} /\ transformed' = Append(transformed, p)
      /\ transformer' = [transformer EXCEPT ![t] = [pc |-> "take", file |-> "none"]]
      /\ UNCHANGED <<mode, bad, crawlVars, output, sharedErr, readerVars, skipped>>
  BY DEF PutObject, Move, retryVars
<1>2. /\ sharedErr \in BOOLEAN /\ output \in Seq(Results) /\ transformed \in Seq(Results)
      /\ delivered \in [Files -> {0, 1}] /\ ctxDone = FALSE
      /\ Single(output) /\ Single(transformed) /\ Alone
      /\ Apart4(In(output), InHand, In(transformed), Delivered)
  BY TransformerFacts
<1>3. mode = "file"
  BY <1>1, InFileMode
<1>4. /\ transformer[t].pc = "put" => t \in Holding /\ f \in Files /\ f \in InHand
      /\ transformer[t].pc = "put error" => t \notin Holding /\ f \in Dirs \cup Files /\ bad # {}
      /\ "take" \notin Loaded
  BY TransformerFacts DEF RightlyHeld, Holding, Loaded, InHand, CrawlInv, FaultInv
<1>5. /\ p \in Results /\ p.file = f /\ (p.err <=> transformer[t].pc = "put error") /\ p.err \in BOOLEAN
  BY <1>1, <1>4 DEF Results, Found, Failed
<1>e. transformer[t].pc = "put error" => p = Failed(f)
  OBVIOUS
<1> HIDE DEF p
<1>6. p.err \/ p.file \notin In(transformed)
  BY <1>1, <1>2, <1>4, <1>5 DEF Apart4
<1>7. /\ transformed' \in Seq(Results) /\ Single(transformed')
      /\ In(transformed') = IF p.err THEN In(transformed) ELSE In(transformed) \cup {p.file}
      /\ \A i \in DOMAIN transformed' : transformed'[i] = p \/ \E j \in DOMAIN transformed : transformed'[i] = transformed[j]
  BY <1>1, <1>2, <1>5, <1>6, AppendResults
<1>8. /\ transformer' \in [Transformers -> HandState]
      /\ RightlyHeld(transformer')
      /\ Alone' /\ InHand' = IF p.err THEN InHand ELSE InHand \ {f}
  BY <1>1, <1>4, <1>5, HandMoves
<1>9. CrawlTypeOK'
  BY <1>1, <1>2, <1>7, <1>8, PassTypes DEF readerVars
<1>10. /\ Delivered' = Delivered /\ In(output)' = In(output) /\ Single(output)'
       /\ Single(transformed)' /\ In(transformed)' = IF p.err THEN In(transformed) ELSE In(transformed) \cup {f}
  BY <1>1, <1>2, <1>5, <1>7 DEF Delivered, readerVars, In, Single
<1>12. /\ Apart4(In(output)', InHand', In(transformed)', Delivered')
       /\ Passed' = Passed
  <2>1. CASE p.err
    BY <1>2, <1>8, <1>10, <2>1 DEF Passed
  <2>2. CASE ~p.err
    <3>0. f \in InHand
      BY <1>1, <1>4, <1>5, <2>2
    <3>1. /\ Apart4(In(output), InHand \ {f}, In(transformed) \cup {f}, Delivered)
          /\ In(output) \cup (InHand \ {f}) \cup (In(transformed) \cup {f}) \cup Delivered
                = In(output) \cup InHand \cup In(transformed) \cup Delivered
      BY <1>2, <3>0, OneMoves
    <3> QED BY <1>8, <1>10, <2>2, <3>1 DEF Passed
  <2> QED BY <1>5, <2>1, <2>2
<1>13. PassedOnce'
  <2>1. (Apart4(In(output), InHand, In(transformed), Delivered))'
    BY <1>12 DEF Apart4
  <2>2. (Single(output) /\ Single(transformed) /\ Alone)'
    BY <1>8, <1>10
  <2>3. PassedOnce' <=> (/\ Single(output) /\ Single(transformed) /\ Alone
                         /\ Apart4(In(output), InHand, In(transformed), Delivered))'
    BY PassedOnceParts, PTL
  <2> QED BY <2>1, <2>2, <2>3
<1>14. /\ \A u \in Transformers \ {t} : transformer'[u] = transformer[u]
       /\ transformer'[t].pc = "take"
  BY <1>1, TransformerFacts
<1>15. FaultInv'
  <2>1. \A u \in Transformers : transformer'[u].pc = "put error" => bad # {}
    BY <1>14 DEF CrawlInv, FaultInv
  <2>2. \A i \in DOMAIN transformed' : transformed'[i].err => bad # {}
    BY <1>4, <1>5, <1>7 DEF CrawlInv, FaultInv
  <2> QED BY <1>1, <2>1, <2>2 DEF CrawlInv, FaultInv
<1>16. GoneInv'
  <2>1. \A u \in Transformers : transformer'[u].pc = "gone" => transformer[u].pc = "gone"
    BY <1>14
  <2> QED BY <1>1, <1>3, <2>1, PassGone
<1>17. Underway \subseteq Underway'
  <2>1. ErrIn(transformed) \subseteq ErrIn(transformed') /\ (p = Failed(f) /\ f \in Dirs \cup Files => f \in ErrIn(transformed'))
    BY <1>1, <1>2, <1>5, AppendErrs
  <2>2. ErrHeld \subseteq ErrHeld' \cup ErrIn(transformed')
    <3>1. /\ transformer[t].pc # "put error" => ErrHeld \subseteq ErrHeld'
          /\ ErrHeld \subseteq ErrHeld' \cup {f}
      BY <1>1, TransformerFacts, HeldErrs
    <3> QED BY <1>4, <1>e, <2>1, <3>1
  <2>3. ErrIn(transformed)' = ErrIn(transformed') /\ ErrIn(output)' = ErrIn(output) /\ warned' = warned
    BY <1>1 DEF ErrIn, readerVars
  <2> QED BY <2>1, <2>2, <2>3 DEF Underway
<1> QED BY <1>1, <1>9, <1>12, <1>13, <1>15, <1>16, <1>17, PassStep

LEMMA Counted ==
  ASSUME delivered \in [Files -> {0, 1}], NEW f \in Files, f \notin Delivered,
         delivered' = [delivered EXCEPT ![f] = @ + 1]
  PROVE  /\ delivered' \in [Files -> {0, 1}] /\ Delivered' = Delivered \cup {f}
         /\ delivered[f] = 0 /\ delivered' = [delivered EXCEPT ![f] = 1]
<1>1. delivered[f] = 0
  BY DEF Delivered
<1>2. delivered' = [delivered EXCEPT ![f] = 1]
  BY <1>1
<1>3. Delivered' = Delivered \cup {f}
  BY <1>2 DEF Delivered
<1> QED BY <1>1, <1>2, <1>3

\* The caller's loop over the transformed results.
LEMMA ProcessTransformed ==
  ASSUME CrawlInv, ended = "no", mode = "file", transformed # << >>, transformed' = Tail(transformed),
         Receive(Head(transformed)), UNCHANGED <<mode, bad, crawlVars, output, transformer, sharedErr, skipped>>
  PROVE  /\ CrawlInv' /\ ended' = ended
         /\ \/ delivered' = delivered /\ (warned' = warned \/ (bad # {} /\ \E x \in Dirs \cup Files : warned' = warned \cup {x}))
            \/ warned' = warned /\ \E f \in Files : delivered[f] = 0 /\ delivered' = [delivered EXCEPT ![f] = 1]
<1> DEFINE h == Head(transformed)
<1>1. /\ sharedErr \in BOOLEAN /\ output \in Seq(Results) /\ transformed \in Seq(Results)
      /\ delivered \in [Files -> {0, 1}] /\ ctxDone = FALSE
      /\ Single(output) /\ Single(transformed) /\ Alone
      /\ Apart4(In(output), InHand, In(transformed), Delivered)
      /\ transformer \in [Transformers -> HandState]
      /\ RightlyHeld(transformer)
  BY TransformerFacts
<1>2. /\ Single(Tail(transformed)) /\ Tail(transformed) \in Seq(Results) /\ h \in Results
      /\ h.err => In(Tail(transformed)) = In(transformed)
      /\ ~h.err => h.file \in In(transformed) /\ In(Tail(transformed)) = In(transformed) \ {h.file}
      /\ \A i \in DOMAIN Tail(transformed) : \E j \in DOMAIN transformed : Tail(transformed)[i] = transformed[j]
      /\ \E j \in DOMAIN transformed : h = transformed[j]
  BY <1>1, TailResults
<1>3. /\ ended' = ended /\ ctxDone' = ctxDone
      /\ h.err => delivered' = delivered /\ warned' = warned \cup {h.file}
      /\ ~h.err => delivered' = [delivered EXCEPT ![h.file] = @ + 1] /\ warned' = warned
  BY DEF Receive
<1>u. ErrIn(transformed) \subseteq ErrIn(Tail(transformed)) \cup (IF h.err THEN {h.file} ELSE {})
  BY <1>1, TailErrs
<1> HIDE DEF h
<1>4. h.err \in BOOLEAN /\ (~h.err => h.file \in Files) /\ (h.err => bad # {} /\ h.file \in Dirs \cup Files)
  BY <1>2, ResultIs DEF CrawlInv, FaultInv
<1>5. /\ delivered' \in [Files -> {0, 1}]
      /\ Delivered' = IF h.err THEN Delivered ELSE Delivered \cup {h.file}
      /\ h.err \/ \E f \in Files : delivered[f] = 0 /\ delivered' = [delivered EXCEPT ![f] = 1]
  <2>1. CASE h.err
    BY <1>1, <1>3, <2>1 DEF Delivered
  <2>2. CASE ~h.err
    <3>1. h.file \notin Delivered
      BY <1>1, <1>2, <2>2 DEF Apart4
    <3> QED BY <1>1, <1>3, <1>4, <2>2, <3>1, Counted
  <2> QED BY <1>4, <2>1, <2>2
<1>6. CrawlTypeOK'
  BY <1>1, <1>2, <1>3, <1>5, PassTypes
<1>7. /\ InHand' = InHand /\ Alone' /\ In(output)' = In(output) /\ Single(output)' /\ Single(transformed)'
      /\ In(transformed)' = IF h.err THEN In(transformed) ELSE In(transformed) \ {h.file}
  <2>1. InHand' = InHand /\ Alone'
    <3>1. transformer' = transformer /\ Alone
      BY <1>1
    <3>2. Holding' = Holding
      BY <3>1 DEF Holding
    <3>3. InHand' = InHand
      BY <3>1, <3>2 DEF InHand
    <3> QED BY <3>1, <3>2, <3>3 DEF Alone
  <2>2. In(output)' = In(output) /\ Single(output)'
    BY <1>1 DEF In, Single
  <2>3. In(transformed)' = In(Tail(transformed)) /\ Single(transformed)'
    BY <1>2 DEF In, Single
  <2> QED BY <1>2, <1>4, <2>1, <2>2, <2>3
<1>8. /\ Apart4(In(output)', InHand', In(transformed)', Delivered')
      /\ Passed' = Passed
  <2>1. CASE h.err
    BY <1>1, <1>5, <1>7, <2>1 DEF Passed
  <2>2. CASE ~h.err
    <3>1. /\ Apart4(In(output), InHand, In(transformed) \ {h.file}, Delivered \cup {h.file})
          /\ In(output) \cup InHand \cup (In(transformed) \ {h.file}) \cup (Delivered \cup {h.file})
                = In(output) \cup InHand \cup In(transformed) \cup Delivered
      <4>1. h.file \in In(transformed) /\ Apart4(In(output), InHand, In(transformed), Delivered)
        BY <1>1, <1>2, <2>2
      <4> QED BY <4>1, OneMoves
    <3> QED BY <1>5, <1>7, <2>2, <3>1 DEF Passed
  <2> QED BY <1>4, <2>1, <2>2
<1>9. PassedOnce'
  <2>1. (Apart4(In(output), InHand, In(transformed), Delivered))'
    BY <1>8 DEF Apart4
  <2>2. PassedOnce' <=> (/\ Single(output) /\ Single(transformed) /\ Alone
                         /\ Apart4(In(output), InHand, In(transformed), Delivered))'
    BY PassedOnceParts, PTL
  <2> QED BY <1>7, <2>1, <2>2
<1>10. FaultInv'
  <2>1. \A i \in DOMAIN transformed' : transformed'[i].err => bad # {}
    BY <1>2 DEF CrawlInv, FaultInv
  <2> QED BY <2>1 DEF CrawlInv, FaultInv
<1>11. GoneInv'
  BY PassGone
<1>w. Underway \subseteq Underway'
  <2>1. ErrIn(transformed)' = ErrIn(Tail(transformed)) /\ ErrIn(output)' = ErrIn(output) /\ ErrHeld' = ErrHeld
    BY DEF ErrIn, ErrHeld
  <2>2. warned \subseteq warned' /\ (h.err => h.file \in warned' \cap (Dirs \cup Files))
    BY <1>3, <1>4
  <2> QED BY <1>u, <2>1, <2>2 DEF Underway
<1>12. CrawlInv'
  BY <1>6, <1>8, <1>9, <1>10, <1>11, <1>w, PassStep
<1> QED BY <1>3, <1>4, <1>5, <1>12

\* The caller's loop over what the crawl puts out.
LEMMA ProcessOutput ==
  ASSUME CrawlInv, ended = "no", mode # "file", output # << >>, output' = Tail(output),
         Receive(Head(output)), UNCHANGED <<mode, bad, crawlVars, transformVars, skipped>>
  PROVE  /\ CrawlInv'
         /\ ended' = ended \/ (ended' = "failed" /\ bad # {} /\ delivered' = delivered)
         /\ \/ delivered' = delivered /\ (warned' = warned \/ (bad # {} /\ \E x \in Dirs \cup Files : warned' = warned \cup {x}))
            \/ warned' = warned /\ \E f \in Files : delivered[f] = 0 /\ delivered' = [delivered EXCEPT ![f] = 1]
<1> DEFINE h == Head(output)
<1>1. /\ sharedErr \in BOOLEAN /\ output \in Seq(Results) /\ transformed \in Seq(Results)
      /\ delivered \in [Files -> {0, 1}] /\ ctxDone = FALSE
      /\ Single(output) /\ Single(transformed) /\ Alone
      /\ Apart4(In(output), InHand, In(transformed), Delivered)
      /\ transformer \in [Transformers -> HandState]
      /\ RightlyHeld(transformer)
  BY TransformerFacts
<1>2. /\ Single(Tail(output)) /\ Tail(output) \in Seq(Results) /\ h \in Results
      /\ h.err => In(Tail(output)) = In(output)
      /\ ~h.err => h.file \in In(output) /\ In(Tail(output)) = In(output) \ {h.file}
      /\ \A i \in DOMAIN Tail(output) : \E j \in DOMAIN output : Tail(output)[i] = output[j]
      /\ \E j \in DOMAIN output : h = output[j]
  BY <1>1, TailResults
<1>3. /\ (ended' = ended /\ ctxDone' = ctxDone) \/ (ended' = "failed" /\ h.err)
      /\ h.err => delivered' = delivered /\ warned' = warned \cup {h.file}
      /\ ~h.err => delivered' = [delivered EXCEPT ![h.file] = @ + 1] /\ warned' = warned
  BY DEF Receive
<1>u. ErrIn(output) \subseteq ErrIn(Tail(output)) \cup (IF h.err THEN {h.file} ELSE {})
  BY <1>1, TailErrs
<1> HIDE DEF h
<1>4. h.err \in BOOLEAN /\ (~h.err => h.file \in Files) /\ (h.err => bad # {} /\ h.file \in Dirs \cup Files)
  BY <1>2, ResultIs DEF CrawlInv, FaultInv
<1>5. /\ delivered' \in [Files -> {0, 1}]
      /\ Delivered' = IF h.err THEN Delivered ELSE Delivered \cup {h.file}
      /\ h.err \/ \E f \in Files : delivered[f] = 0 /\ delivered' = [delivered EXCEPT ![f] = 1]
  <2>1. CASE h.err
    BY <1>1, <1>3, <2>1 DEF Delivered
  <2>2. CASE ~h.err
    <3>1. h.file \notin Delivered
      BY <1>1, <1>2, <2>2 DEF Apart4
    <3> QED BY <1>1, <1>3, <1>4, <2>2, <3>1, Counted
  <2> QED BY <1>4, <2>1, <2>2
<1>t. UNCHANGED <<transformer, sharedErr, transformed>>
  BY DEF transformVars
<1>6. CrawlTypeOK'
  BY <1>1, <1>2, <1>3, <1>5, <1>t, PassTypes
<1>7. /\ InHand' = InHand /\ Alone' /\ In(transformed)' = In(transformed) /\ Single(output)' /\ Single(transformed)'
      /\ In(output)' = IF h.err THEN In(output) ELSE In(output) \ {h.file}
  <2>1. InHand' = InHand /\ Alone'
    <3>1. transformer' = transformer /\ Alone
      BY <1>1, <1>t
    <3>2. Holding' = Holding
      BY <3>1 DEF Holding
    <3>3. InHand' = InHand
      BY <3>1, <3>2 DEF InHand
    <3> QED BY <3>1, <3>2, <3>3 DEF Alone
  <2>2. In(transformed)' = In(transformed) /\ Single(transformed)'
    BY <1>1, <1>t DEF In, Single
  <2>3. In(output)' = In(Tail(output)) /\ Single(output)'
    BY <1>2 DEF In, Single
  <2> QED BY <1>2, <1>4, <2>1, <2>2, <2>3
<1>8. /\ Apart4(In(output)', InHand', In(transformed)', Delivered')
      /\ Passed' = Passed
  <2>1. CASE h.err
    BY <1>1, <1>5, <1>7, <2>1 DEF Passed
  <2>2. CASE ~h.err
    <3>1. /\ Apart4(In(output) \ {h.file}, InHand, In(transformed), Delivered \cup {h.file})
          /\ (In(output) \ {h.file}) \cup InHand \cup In(transformed) \cup (Delivered \cup {h.file})
                = In(output) \cup InHand \cup In(transformed) \cup Delivered
      <4>1. h.file \in In(output) /\ Apart4(In(output), InHand, In(transformed), Delivered)
        BY <1>1, <1>2, <2>2
      <4> QED BY <4>1, OneMoves
    <3> QED BY <1>5, <1>7, <2>2, <3>1 DEF Passed
  <2> QED BY <1>4, <2>1, <2>2
<1>9. PassedOnce'
  <2>1. (Apart4(In(output), InHand, In(transformed), Delivered))'
    BY <1>8 DEF Apart4
  <2>2. PassedOnce' <=> (/\ Single(output) /\ Single(transformed) /\ Alone
                         /\ Apart4(In(output), InHand, In(transformed), Delivered))'
    BY PassedOnceParts, PTL
  <2> QED BY <1>7, <2>1, <2>2
<1>10. FaultInv'
  <2>1. \A i \in DOMAIN output' : output'[i].err => bad # {}
    BY <1>2 DEF CrawlInv, FaultInv
  <2> QED BY <1>t, <2>1 DEF CrawlInv, FaultInv
<1>11. GoneInv'
  BY <1>t, PassGone
<1>w. Underway \subseteq Underway'
  <2>1. ErrIn(output)' = ErrIn(Tail(output)) /\ ErrIn(transformed)' = ErrIn(transformed) /\ ErrHeld' = ErrHeld
    BY <1>t DEF ErrIn, ErrHeld
  <2>2. warned \subseteq warned' /\ (h.err => h.file \in warned' \cap (Dirs \cup Files))
    BY <1>3, <1>4
  <2> QED BY <1>u, <2>1, <2>2 DEF Underway
<1>12. CrawlInv'
  BY <1>6, <1>8, <1>9, <1>10, <1>11, <1>w, PassStep
<1> QED BY <1>3, <1>4, <1>5, <1>12

\* When the traversal ends well, nothing is on its way any more.
LEMMA AllCame ==
  ASSUME CrawlInv, ended = "no", TraverseReturns
  PROVE  /\ CrawlInv' /\ UNCHANGED <<delivered, warned, skipped>>
         /\ \/ ended' = "failed" /\ bad # {}
            \/ ended' = "done" /\ \A f \in Files : delivered[f] = 1 \/ f \in Reported \cup skipped
<1>1. /\ UNCHANGED <<mode, bad, crawlVars, output, transformVars, delivered, warned, skipped>>
      /\ ended' = IF sharedErr THEN "failed" ELSE "done"
  BY DEF TraverseReturns, retryVars
<1>2. CrawlInv'
  <2>1. /\ sharedErr \in BOOLEAN /\ output \in Seq(Results) /\ transformed \in Seq(Results)
        /\ delivered \in [Files -> {0, 1}]
        /\ transformer \in [Transformers -> HandState]
        /\ RightlyHeld(transformer)
    BY TransformerFacts
  <2>2. UNCHANGED <<transformer, sharedErr, transformed>> /\ ended' # "no"
    BY <1>1 DEF transformVars
  <2>3. CrawlTypeOK'
    BY <1>1, <2>1, <2>2, PassTypes
  <2>4. PassedOnce' /\ Passed' = Passed
    BY <1>1, <2>2 DEF CrawlInv, PassedOnce, Passed, Single, In, InHand, Holding, Delivered
  <2>5. FaultInv' /\ GoneInv'
    BY <1>1, <2>2 DEF CrawlInv, FaultInv, GoneInv
  <2>6. Underway' = Underway
    BY <1>1, <2>2 DEF Underway, ErrIn, ErrHeld
  <2> QED BY <1>1, <2>3, <2>4, <2>5, <2>6, PassStep
<1>3. ASSUME ~sharedErr, NEW f \in Files, f \notin Reported \cup skipped PROVE delivered[f] = 1
  <2>1. OutputClosed /\ output = << >> /\ transformed = << >> /\ Holding = {} /\ ErrHeld = {}
    <3>1. CASE mode = "file"
      <4>1. transformed = << >> /\ \A t \in Transformers : transformer[t].pc = "gone"
        BY <3>1 DEF TraverseReturns, TransformedClosed
      <4>2. OutputClosed /\ output = << >>
        BY <4>1, Crews DEF CrawlInv, GoneInv
      <4> QED BY <4>1, <4>2 DEF Holding, Loaded, ErrHeld
    <3>2. CASE mode # "file"
      BY <3>2 DEF TraverseReturns, CrawlInv, GoneInv, Holding, Loaded, ErrHeld
    <3> QED BY <3>1, <3>2
  <2>2. unstarted = << >>
    BY <2>1, Crews DEF OutputClosed, CrawlInv, GoneInv
  <2>3. \A w \in Workers : Claim(w) = {}
    BY <2>1, RunningFacts, IdleClaims DEF OutputClosed, Busy
  <2>4. In(output) = {} /\ In(transformed) = {} /\ InHand = {}
    BY <2>1 DEF In, InHand
  <2>m. f \notin Missable
    <3>1. ErrIn(output) = {} /\ ErrIn(transformed) = {}
      BY <2>1 DEF ErrIn
    <3>2. \A w \in Workers : FailedIn(worker[w]) = {}
      BY <2>1, RunningFacts, IdleClaims, NoneFailed DEF OutputClosed, Busy
    <3>3. Failing = warned \cap (Dirs \cup Files)
      BY <2>1, <3>1, <3>2 DEF Failing, Underway
    <3>4. Concerns(Failing) = Reported
      BY <3>3 DEF Concerns, Reported
    <3> QED BY <1>3, <3>4 DEF Missable
  <2>5. f \in Passed
    BY <2>2, <2>3, <2>m DEF CrawlInv, NothingLost
  <2> QED BY <2>4, <2>5 DEF Passed, Delivered
<1>4. sharedErr => bad # {}
  BY SharedIsBad
<1> QED BY <1>1, <1>2, <1>3, <1>4

\* What a step means to those who rely on the traversal.
Quiet == UNCHANGED <<ended, delivered, warned, skipped>>
Shows ==
    /\ UNCHANGED <<mode, bad>>
    /\ \/ Quiet
       \/ /\ UNCHANGED <<ended, warned, skipped>>
          /\ \E f \in Files : delivered[f] = 0 /\ delivered' = [delivered EXCEPT ![f] = 1]
       \/ /\ UNCHANGED <<ended, delivered, skipped>> /\ bad # {}
          /\ \E x \in Dirs \cup Files : warned' = warned \cup {x}
       \/ /\ UNCHANGED <<ended, delivered, warned>> /\ bad # {}
          /\ \E es \in SUBSET Files : skipped' = skipped \cup es
       \/ /\ ended' = "failed" /\ bad # {} /\ UNCHANGED <<delivered, skipped>>
          /\ warned' = warned \/ \E x \in Dirs \cup Files : warned' = warned \cup {x}
       \/ /\ ended' = "done" /\ UNCHANGED <<delivered, warned, skipped>>
          /\ \A f \in Files : delivered[f] = 1 \/ f \in Reported \cup skipped

LEMMA CrawlStepShows ==
  ASSUME CrawlInv, CrawlerNext
  PROVE  CrawlInv' /\ Shows /\ ended = "no"
<1>0. ended = "no"
  BY DEF CrawlerNext
<1>1. ASSUME NEW w \in Workers, CrawlStep(w) PROVE CrawlInv' /\ Shows
  <2>1. UNCHANGED <<mode, bad, readerVars, skipped>>
    BY <1>1 DEF CrawlStep, Acquire, ReadBatch, ListingFails, Put, FinishDirectory, SendError, retryVars
  <2> QED BY <1>0, <1>1, <2>1, CrawlKeeps DEF Shows, Quiet, readerVars
<1>2. ASSUME NEW w \in Workers, PoolIsLate(w) PROVE CrawlInv' /\ Shows
  <2>1. UNCHANGED <<mode, bad, readerVars>> /\ bad # {}
    BY <1>2 DEF PoolIsLate
  <2>2. Listing(w)
    BY <1>2 DEF PoolIsLate
  <2>3. PICK files \in SUBSET worker[w].names, dirs \in SUBSET worker[w].found :
           skipped' = skipped \cup files \cup UNION {Below(d) : d \in dirs}
    BY <1>2 DEF PoolIsLate
  <2>4. files \cup UNION {Below(d) : d \in dirs} \in SUBSET Files
    <3>1. worker[w].names \in SUBSET Files /\ worker[w].found \in SUBSET Dirs
      BY <1>0, <2>2, ListingFacts
    <3> QED BY <3>1, BelowFiles
  <2>5. skipped' = skipped \cup (files \cup UNION {Below(d) : d \in dirs})
    BY <2>3
  <2>6. UNCHANGED <<ended, delivered, warned>>
    BY <2>1 DEF readerVars
  <2>7. Shows
    BY <2>1, <2>4, <2>5, <2>6 DEF Shows
  <2> QED BY <1>0, <1>2, <2>7, CrawlKeeps
<1>3. CASE Heartbeat
  <2>1. UNCHANGED <<mode, bad, readerVars, skipped>>
    BY <1>3 DEF Heartbeat, retryVars
  <2> QED BY <1>0, <1>3, <2>1, HeartbeatKeeps DEF Shows, Quiet, readerVars
<1>4. ASSUME NEW t \in Transformers, TransformStep(t) PROVE CrawlInv' /\ Shows
  <2>1. CASE TakeResult(t)
    BY <1>0, <2>1, TakeResultKeeps DEF TakeResult, Shows, Quiet, readerVars, retryVars
  <2>2. CASE GetProperties(t)
    BY <1>0, <2>2, GetPropertiesKeeps DEF GetProperties, Shows, Quiet, readerVars, retryVars
  <2>3. CASE CheckErr(t)
    <3>1. UNCHANGED <<mode, bad, delivered, warned, skipped>>
      BY <2>3 DEF CheckErr, retryVars
    <3>2. ended' = ended \/ (ended' = "failed" /\ transformer[t].file \in bad)
      BY <2>3 DEF CheckErr
    <3> QED BY <1>0, <2>3, <3>1, <3>2, CheckErrKeeps DEF Shows, Quiet
  <2>4. CASE PutObject(t)
    BY <1>0, <2>4, PutObjectKeeps DEF PutObject, Shows, Quiet, readerVars, retryVars
  <2>5. CASE TransformerLeaves(t)
    BY <1>0, <2>5, TransformerLeavesKeeps DEF TransformerLeaves, Shows, Quiet, readerVars, retryVars
  <2> QED BY <1>4, <2>1, <2>2, <2>3, <2>4, <2>5 DEF TransformStep
<1>5. CASE Process
  <2>1. UNCHANGED <<mode, bad, skipped>>
    BY <1>5 DEF Process, retryVars
  <2>2. CrawlInv'
        /\ (ended' = ended \/ (ended' = "failed" /\ bad # {} /\ delivered' = delivered))
        /\ \/ delivered' = delivered /\ (warned' = warned \/ (bad # {} /\ \E x \in Dirs \cup Files : warned' = warned \cup {x}))
           \/ warned' = warned /\ \E f \in Files : delivered[f] = 0 /\ delivered' = [delivered EXCEPT ![f] = 1]
    <3>1. CASE mode = "file"
      BY <1>0, <1>5, <2>1, <3>1, ProcessTransformed DEF Process
    <3>2. CASE mode # "file"
      BY <1>0, <1>5, <2>1, <3>2, ProcessOutput DEF Process
    <3> QED BY <3>1, <3>2
  <2>3. CASE ended' = ended /\ delivered' = delivered
    BY <1>0, <2>1, <2>2, <2>3 DEF Shows, Quiet
  <2>4. CASE ended' = ended /\ delivered' # delivered
    BY <1>0, <2>1, <2>2, <2>4 DEF Shows
  <2>5. CASE ended' # ended
    <3>1. ended' = "failed" /\ bad # {} /\ delivered' = delivered
      BY <2>2, <2>5
    <3>2. warned' = warned \/ \E x \in Dirs \cup Files : warned' = warned \cup {x}
      BY <2>2
    <3> QED BY <1>0, <2>1, <2>2, <3>1, <3>2 DEF Shows
  <2> QED BY <2>2, <2>3, <2>4, <2>5
<1>6. CASE TraverseReturns
  <2>1. UNCHANGED <<mode, bad>>
    BY <1>6 DEF TraverseReturns
  <2> QED BY <1>0, <1>6, <2>1, AllCame DEF Shows
<1> QED BY <1>0, <1>1, <1>2, <1>3, <1>4, <1>5, <1>6 DEF CrawlerNext, CallerStep

LEMMA CrawlInvStep == CrawlInv /\ [CrawlerNext]_crawlerVars => CrawlInv'
<1> SUFFICES ASSUME CrawlInv, [CrawlerNext]_crawlerVars PROVE CrawlInv'
  OBVIOUS
<1>1. CASE CrawlerNext
  BY <1>1, CrawlStepShows
<1>2. CASE UNCHANGED crawlerVars
  <2>1. UNCHANGED <<mode, bad, unstarted, dirInProgress, worker, output, ctxDone, transformer,
                    sharedErr, transformed, delivered, ended, warned, skipped>>
    BY <1>2 DEF crawlerVars, crawlVars, transformVars, readerVars, retryVars
  <2>2. /\ Active' = Active /\ Holding' = Holding /\ In(output)' = In(output)
        /\ In(transformed)' = In(transformed) /\ InHand' = InHand /\ Delivered' = Delivered
        /\ Missable' = Missable /\ (OutputClosed' <=> OutputClosed)
        /\ (Single(output)' <=> Single(output)) /\ (Single(transformed)' <=> Single(transformed))
        /\ \A w : Claim(w)' = Claim(w)
    BY <2>1 DEF Active, Holding, In, InHand, Delivered, Missable, Failing, Underway, ErrIn, ErrHeld,
                OutputClosed, Single, Claim
  <2>3. Passed' = Passed
    BY <2>2 DEF Passed
  <2>4. CrawlTypeOK'
    BY <2>1, <2>2 DEF CrawlInv, CrawlTypeOK
  <2>5. PassedOnce'
    BY <2>1, <2>2 DEF CrawlInv, PassedOnce
  <2>6. WorkersApart'
    BY <2>1, <2>2, <2>3 DEF CrawlInv, WorkersApart
  <2>7. WorkersOwn'
    BY <2>1, <2>2 DEF CrawlInv, WorkersOwn, OwnOf
  <2>8. NothingLost'
    BY <2>1, <2>2, <2>3 DEF CrawlInv, NothingLost
  <2>9. GoneInv' /\ FaultInv'
    BY <2>1, <2>2 DEF CrawlInv, GoneInv, FaultInv
  <2> QED BY <2>4, <2>5, <2>6, <2>7, <2>8, <2>9 DEF CrawlInv
<1> QED BY <1>1, <1>2

LEMMA CrawlerInitInv == CrawlerInit => CrawlInv
<1> SUFFICES ASSUME CrawlerInit PROVE CrawlInv
  OBVIOUS
<1>1. \A w \in Workers : worker[w] = NoDir
  BY DEF CrawlerInit
<1>2. /\ unstarted = <<Root>> /\ unstarted \in Seq(Dirs) /\ DOMAIN unstarted = {1} /\ unstarted[1] = Root
  BY TreeShape DEF CrawlerInit
<1>3. /\ NoDir \in WorkerState /\ NoDir.pc = "acquire" /\ NoDir.names = {} /\ NoDir.puts = {}
      /\ NoDir.found = {}
  BY DEF NoDir, WorkerState
<1>4. Active = {} /\ Holding = {}
  BY <1>1, <1>3 DEF Active, Busy, Holding, Loaded, CrawlerInit
<1>5. dirInProgress = Cardinality(Active)
  BY <1>4, FS_EmptySet DEF CrawlerInit
<1>6. CrawlTypeOK
  <2>1. << >> \in Seq(Results)
    OBVIOUS
  <2>2. worker \in [Workers -> WorkerState]
    BY <1>3 DEF CrawlerInit
  <2> QED BY <1>2, <1>4, <1>5, <2>1, <2>2 DEF CrawlerInit, CrawlTypeOK, HandState,
                RightlyHeld, Loaded
<1>7. In(output) = {} /\ In(transformed) = {} /\ InHand = {} /\ Delivered = {}
  BY <1>4 DEF In, InHand, Delivered, CrawlerInit
<1>8. PassedOnce /\ Passed = {}
  BY <1>4, <1>7 DEF PassedOnce, Passed, Single, CrawlerInit
<1>9. OwnOf(NoDir)
  <2>1. NoDir.pc \notin Busy /\ NoDir.pc # "send error"
    BY <1>3 DEF Busy
  <2>2. Putting(NoDir) = {} /\ Kids(NoDir) = {}
    BY <1>3 DEF Putting, Kids
  <2>3. Coming(NoDir) = {}
    BY <2>2 DEF Coming
  <2> QED BY <1>3, <2>1, <2>2, <2>3 DEF OwnOf, Busy
<1>10. \A w \in Workers : Claim(w) = {}
  BY <1>1, <1>3, <1>9, IdleClaims DEF Claim, Busy
<1>11. WorkersOwn
  BY <1>1, <1>9 DEF WorkersOwn
<1>12. WorkersApart
  BY <1>2, <1>8, <1>10 DEF WorkersApart
<1>13. NothingLost
  BY <1>2, BelowFiles DEF NothingLost
<1>14. GoneInv
  BY <1>1, <1>3 DEF GoneInv, CrawlerInit
<1>15. FaultInv
  <2>1. bad \subseteq BadDirs \cup BadFiles \cup {"pool"} /\ (mode = "file" => bad \subseteq BadDirs \cup BadFiles)
    BY Crews DEF CrawlerInit
  <2>2. mode = "file" => bad \cap (Files \cup {"pool"}) = bad \cap BadFiles
    BY <2>1, TreeShape, CanFail
  <2>3. /\ \A i \in DOMAIN output : output[i].err => bad # {}
        /\ \A i \in DOMAIN transformed : transformed[i].err => bad # {}
    BY DEF CrawlerInit
  <2>4. \A t \in Transformers : transformer[t].pc # "put error"
    BY DEF CrawlerInit
  <2>5. ~sharedErr
    BY DEF CrawlerInit
  <2> QED BY <2>1, <2>2, <2>3, <2>4, <2>5 DEF FaultInv
<1> QED BY <1>6, <1>8, <1>11, <1>12, <1>13, <1>14, <1>15 DEF CrawlInv

(* parallel.Crawl with its workers and the pool of parallel.Transform      *)
(* implement the scan that the callers of a traverser rely on, for any     *)
(* tree, crews and channels: no entry comes twice, of a traversal that     *)
(* ends well each entry has come, was reported itself or with a directory  *)
(* above it, or was in a batch asked for again, and it fails only if       *)
(* something is bad.                                                       *)
THEOREM CrawlImplements == CrawlerSpec => ImplementsScan
<1>1. CrawlerInit => TraverserScan!ScanInit
  BY DEF CrawlerInit, TraverserScan!ScanInit, Reported
<1>2. CrawlInv /\ [CrawlerNext]_crawlerVars => [TraverserScan!ScanNext]_(TraverserScan!scanVars)
  <2> SUFFICES ASSUME CrawlInv, [CrawlerNext]_crawlerVars
               PROVE  [TraverserScan!ScanNext]_(TraverserScan!scanVars)
    OBVIOUS
  <2>1. CASE UNCHANGED crawlerVars
    BY <2>1 DEF crawlerVars, readerVars, retryVars, TraverserScan!scanVars, Reported
  <2>2. CASE CrawlerNext
    <3>1. Shows /\ ended = "no"
      BY <2>2, CrawlStepShows
    <3>2. bad' = bad /\ (warned' = warned => Reported' = Reported)
      BY <3>1 DEF Shows, Reported, Below, Subtree
    <3>3. ASSUME NEW x \in Dirs \cup Files, warned' = warned \cup {x}
          PROVE  \E es \in SUBSET Files : Reported' = Reported \cup es
      <4>1. Reported = Concerns(warned) /\ Reported' = Concerns(warned \cup {x})
        BY <3>3 DEF Reported, Concerns, Below, Subtree
      <4>2. Reported' = Reported \cup Concerns({x}) /\ Concerns({x}) \in SUBSET Files
        BY <4>1, Covers
      <4> QED BY <4>2
    <3>4. ASSUME warned' = warned PROVE \E es \in SUBSET Files : Reported' = Reported \cup es
      <4>1. Reported' = Reported \cup {} /\ {} \in SUBSET Files
        BY <3>2, <3>4
      <4> QED BY <4>1
    <3>5. CASE Quiet
      BY <3>2, <3>5 DEF Quiet, TraverserScan!scanVars
    <3>6. CASE /\ UNCHANGED <<ended, warned, skipped>>
               /\ \E f \in Files : delivered[f] = 0 /\ delivered' = [delivered EXCEPT ![f] = 1]
      BY <3>1, <3>2, <3>6 DEF TraverserScan!ScanNext, TraverserScan!Deliver
    <3>7. CASE /\ UNCHANGED <<ended, delivered, skipped>> /\ bad # {}
               /\ \E x \in Dirs \cup Files : warned' = warned \cup {x}
      BY <3>1, <3>2, <3>3, <3>7 DEF TraverserScan!ScanNext, TraverserScan!Report
    <3>8. CASE /\ UNCHANGED <<ended, delivered, warned>> /\ bad # {}
               /\ \E es \in SUBSET Files : skipped' = skipped \cup es
      BY <3>1, <3>2, <3>8 DEF TraverserScan!ScanNext, TraverserScan!Skip
    <3>9. CASE /\ ended' = "failed" /\ bad # {} /\ UNCHANGED <<delivered, skipped>>
               /\ warned' = warned \/ \E x \in Dirs \cup Files : warned' = warned \cup {x}
      BY <3>1, <3>2, <3>3, <3>4, <3>9 DEF TraverserScan!ScanNext, TraverserScan!Fail
    <3>10. CASE /\ ended' = "done" /\ UNCHANGED <<delivered, warned, skipped>>
                /\ \A f \in Files : delivered[f] = 1 \/ f \in Reported \cup skipped
      BY <3>1, <3>2, <3>10 DEF TraverserScan!ScanNext, TraverserScan!Complete
    <3> QED BY <3>1, <3>5, <3>6, <3>7, <3>8, <3>9, <3>10 DEF Shows
  <2> QED BY <2>1, <2>2
<1> QED BY <1>1, <1>2, CrawlerInitInv, CrawlInvStep, PTL
       DEF CrawlerSpec, ImplementsScan, TraverserScan!ScanSpec

-----------------------------------------------------------------------------
(* The local walk: what holds in each of its states.                       *)

(* What is found below at is called base and its path from there.  Names   *)
(* are told apart by the last link before their end, if there is one: the  *)
(* base is the name of that link.                                          *)
Splits(name, j) ==
    /\ j \in 0..(Len(name) - 1)
    /\ j > 0 => name[j] \in Links
    /\ \A k \in (j + 1)..(Len(name) - 1) : name[k] \in Folders

BaseOf(base, name) == Splits(name, Len(base)) /\ SubSeq(name, 1, Len(base)) = base

ItemType == [at : Folders, base : Seq(Entries), direct : BOOLEAN]
SeenType == [direct : BOOLEAN, entry : Entries]
NamedType == [name : Seq(Entries), is : Folders \cup Leaves]
OptionsType == [recursive : BOOLEAN, followSymlinks : BOOLEAN, direct : BOOLEAN]

WalkTypeOK ==
    /\ linkTo \in [Links -> LinkTargets] /\ options \in OptionsType
    /\ walkQueue \in Seq(ItemType) /\ walking \in ItemType /\ pending \subseteq Entries
    /\ seenPaths \subseteq SeenType /\ named \subseteq NamedType
    /\ walkEnds \in {"no", "done", "failed"} /\ repeated \in BOOLEAN

Directly(e) == [direct |-> TRUE, entry |-> e]
IsNamed(name) == \E m \in named : m.name = name

ByStart(item) == item.base = << >> /\ item.at = Start /\ item.direct = options.direct
ByLink(item) ==
    /\ item.base # << >> /\ Last(item.base) \in Links /\ item.at = linkTo[Last(item.base)]
    /\ item.direct = TRUE /\ Directly(item.at) \in seenPaths /\ IsNamed(item.base)

(* Links are not followed at all.                                          *)
Plain == ~(options.recursive /\ options.followSymlinks)

(* No name has been made of a queued item's base yet.                      *)
ItemsInv ==
    /\ ByStart(walking) \/ ByLink(walking)
    /\ pending \subseteq Under(walking.at)
    /\ \A i \in DOMAIN walkQueue :
          /\ ByLink(walkQueue[i]) /\ walkQueue[i].base # walking.base
          /\ \A m \in named : ~BaseOf(walkQueue[i].base, m.name)
          /\ \A j \in DOMAIN walkQueue : walkQueue[j].base = walkQueue[i].base => j = i
    /\ Plain => ByStart(walking) /\ walkQueue = << >>
    /\ ~options.recursive => Start \notin pending

NamesInv ==
    /\ ~repeated
    /\ \A m \in named :
          /\ BaseOf(walking.base, m.name) => Last(m.name) \notin pending
          /\ m.name = << >> => ~(walking.base = << >> /\ Start \in pending)
          /\ \A j \in 1..Len(m.name) : Splits(m.name, j) => IsNamed(SubSeq(m.name, 1, j))

CountsFor(m) == m.is \in Folders \/ ByItself(m)
Other(m) == CountsFor(m) /\ (options.direct \/ m.name # NameFrom(Start, m.is))

(* Only what is found from the start can come before its path was seen as  *)
(* one that a link leads to.                                               *)
OnceInv ==
    /\ Plain => \A m \in named : CountsFor(m) => m.name = NameFrom(Start, m.is)
    /\ ~Plain => \A m \in named : Other(m) =>
          /\ Directly(m.is) \in seenPaths
          /\ \A n \in named : Other(n) /\ n.is = m.is => n = m

(* An entry that came: it, or what it leads to, was handed over, or is not *)
(* to be.                                                                  *)
Handled(e) ==
    \/ e \in rejected
    \/ IF e \in Links
       THEN \/ ~options.followSymlinks
            \/ /\ linkTo[e] \in Folders => Directly(linkTo[e]) \in seenPaths
               /\ linkTo[e] \in Leaves => NamesOf(linkTo[e]) # {}
       ELSE NamesOf(e) # {}

Covered(found) ==
    \A e \in found : Handled(e) \/ e \in pending \/ \E i \in DOMAIN walkQueue : e \in Under(walkQueue[i].at)

WholeInv ==
    options.recursive =>
        /\ \A m \in named : m.is \in ToBeFound
        /\ Under(walking.at) \subseteq ToBeFound
        /\ \A i \in DOMAIN walkQueue : Under(walkQueue[i].at) \subseteq ToBeFound
        /\ \A p \in seenPaths : p.entry \notin Links => NamesOf(p.entry) # {}
        /\ \A e \in Under(walking.at) : Handled(e) \/ e \in pending
        /\ Covered(Under(Start))
        /\ \A dir \in Folders : Directly(dir) \in seenPaths => Covered(Under(dir))

DoneInv == walkEnds = "done" => pending = {} /\ walkQueue = << >>

WalkInv == WalkTypeOK /\ ItemsInv /\ NamesInv /\ OnceInv /\ WholeInv /\ DoneInv

-----------------------------------------------------------------------------
(* The local walk: paths, and the names that are made of them.             *)

LEMMA PathFacts ==
  ASSUME NEW e \in Entries
  PROVE  /\ PathTo[e] \in Seq(Entries) /\ Len(PathTo[e]) \in Nat \ {0}
         /\ DOMAIN PathTo[e] = 1..Len(PathTo[e]) /\ PathTo[e][Len(PathTo[e])] = e
         /\ \A i \in 1..(Len(PathTo[e]) - 1) : PathTo[e][i] \in Folders
         /\ \A i \in 1..Len(PathTo[e]) : PathTo[PathTo[e][i]] = SubSeq(PathTo[e], 1, i)
<1>1. PathTo[e] \in Seq(Entries) /\ PathTo[e] # << >> /\ Last(PathTo[e]) = e
      /\ \A i \in 1..(Len(PathTo[e]) - 1) :
            PathTo[e][i] \in Folders /\ PathTo[PathTo[e][i]] = SubSeq(PathTo[e], 1, i)
  BY LocalWalkAssumption
<1> DEFINE path == PathTo[e]
<1>2. path \in Seq(Entries) /\ path # << >>
  BY <1>1
<1>3. PathTo[e][Len(PathTo[e])] = e
  BY <1>1 DEF Last
<1> HIDE DEF path
<1>4. Len(path) \in Nat \ {0} /\ DOMAIN path = 1..Len(path)
  BY <1>2, EmptySeq, LenProperties
<1>7. Len(path) \in Nat
  BY <1>4
<1>5. SubSeq(path, 1, Len(path)) = path
  BY <1>2, SubSeqFull
<1>6. ASSUME NEW i \in 1..Len(path) PROVE PathTo[path[i]] = SubSeq(path, 1, i)
  <2>1. CASE i = Len(path)
    BY <2>1, <1>3, <1>5 DEF path
  <2>2. CASE i # Len(path)
    <3>1. i \in 1..(Len(path) - 1)
      BY <2>2, <1>7
    <3> QED BY <3>1, <1>1 DEF path
  <2> QED BY <2>1, <2>2
<1> QED BY <1>1, <1>2, <1>3, <1>4, <1>6 DEF path

(* An entry's path goes through what the entry is under, and to there it   *)
(* is the path of that.                                                    *)
LEMMA UnderWhere ==
  ASSUME NEW dir \in Entries, NEW e \in Under(dir)
  PROVE  /\ e \in Entries /\ Len(PathTo[dir]) \in 1..Len(PathTo[e])
         /\ PathTo[e][Len(PathTo[dir])] = dir
         /\ \A i \in 1..Len(PathTo[dir]) : PathTo[e][i] = PathTo[dir][i]
<1>1. e \in Entries /\ dir \in ToSet(PathTo[e])
  BY DEF Under
<1>2. PICK i \in 1..Len(PathTo[e]) : PathTo[e][i] = dir
  BY <1>1, PathFacts DEF ToSet
<1>3. PathTo[dir] = SubSeq(PathTo[e], 1, i)
  BY <1>1, <1>2, PathFacts
<1>4. Len(PathTo[dir]) = i /\ \A j \in 1..i : PathTo[dir][j] = PathTo[e][j]
  <2>1. PathTo[e] \in Seq(Entries) /\ Len(PathTo[e]) \in Nat
    BY <1>1, PathFacts
  <2> DEFINE path == PathTo[e]
  <2>2. path \in Seq(Entries) /\ Len(path) \in Nat /\ i \in 1..Len(path)
    BY <2>1
  <2> HIDE DEF path
  <2>3. Len(SubSeq(path, 1, i)) = i /\ \A j \in 1..i : SubSeq(path, 1, i)[j] = path[j]
    BY <2>2
  <2> QED BY <2>3, <1>3 DEF path
<1> QED BY <1>1, <1>2, <1>4

LEMMA UnderItself ==
  ASSUME NEW e \in Entries
  PROVE  e \in Under(e)
<1>1. Len(PathTo[e]) \in DOMAIN PathTo[e] /\ PathTo[e][Len(PathTo[e])] = e
  BY PathFacts
<1> QED BY <1>1 DEF Under, ToSet

LEMMA UnderUnder ==
  ASSUME NEW top \in Entries, NEW dir \in Under(top), NEW e \in Under(dir)
  PROVE  e \in Under(top)
<1>1. dir \in Entries /\ Len(PathTo[top]) \in 1..Len(PathTo[dir])
      /\ PathTo[dir][Len(PathTo[top])] = top
  BY UnderWhere
<1>2. e \in Entries /\ Len(PathTo[dir]) \in 1..Len(PathTo[e])
      /\ \A i \in 1..Len(PathTo[dir]) : PathTo[e][i] = PathTo[dir][i]
  BY <1>1, UnderWhere
<1>3. PathTo[e][Len(PathTo[top])] = top
  BY <1>1, <1>2
<1>4. DOMAIN PathTo[e] = 1..Len(PathTo[e]) /\ Len(PathTo[e]) \in Nat
  BY <1>2, PathFacts
<1>5. Len(PathTo[top]) \in DOMAIN PathTo[e]
  BY <1>1, <1>2, <1>4
<1> QED BY <1>2, <1>3, <1>5 DEF Under, ToSet

(* There is nothing below what is no folder.                               *)
LEMMA UnderLeaf ==
  ASSUME NEW leaf \in Leaves, NEW e \in Under(leaf)
  PROVE  e = leaf
<1>1. leaf \in Entries /\ leaf \notin Folders
  BY LocalWalkAssumption DEF Entries
<1>2. e \in Entries /\ Len(PathTo[leaf]) \in 1..Len(PathTo[e])
      /\ PathTo[e][Len(PathTo[leaf])] = leaf
  BY <1>1, UnderWhere
<1>3. Len(PathTo[e]) \in Nat /\ PathTo[e][Len(PathTo[e])] = e
      /\ \A i \in 1..(Len(PathTo[e]) - 1) : PathTo[e][i] \in Folders
  BY <1>2, PathFacts
<1>4. Len(PathTo[leaf]) \notin 1..(Len(PathTo[e]) - 1)
  BY <1>1, <1>2, <1>3
<1>5. Len(PathTo[leaf]) = Len(PathTo[e])
  BY <1>2, <1>3, <1>4
<1> QED BY <1>2, <1>3, <1>5

LEMMA NameFromFacts ==
  ASSUME NEW dir \in Entries, NEW e \in Under(dir)
  PROVE  /\ NameFrom(dir, e) \in Seq(Entries)
         /\ e = dir => NameFrom(dir, e) = << >>
         /\ e # dir => /\ Len(NameFrom(dir, e)) \in Nat \ {0}
                       /\ NameFrom(dir, e)[Len(NameFrom(dir, e))] = e
                       /\ \A i \in 1..(Len(NameFrom(dir, e)) - 1) : NameFrom(dir, e)[i] \in Folders
<1> DEFINE path == PathTo[e]
           m == Len(PathTo[dir])
           n == Len(PathTo[e])
<1>1. e \in Entries /\ m \in 1..n /\ path[m] = dir
  BY UnderWhere
<1>2. path \in Seq(Entries) /\ n \in Nat \ {0} /\ Len(path) = n /\ path[n] = e
      /\ \A i \in 1..(n - 1) : path[i] \in Folders
  BY <1>1, PathFacts
<1>3. NameFrom(dir, e) = SubSeq(path, m + 1, n)
  BY DEF NameFrom
<1> HIDE DEF path, m, n
<1>4. \A i \in (m + 1)..n : path[i] \in Entries
  BY <1>1, <1>2, ElementOfSeq
<1>5. m + 1 \in Int /\ n \in Int
  BY <1>1, <1>2
<1>6. /\ SubSeq(path, m + 1, n) \in Seq(Entries)
      /\ Len(SubSeq(path, m + 1, n)) = IF m + 1 <= n THEN n - (m + 1) + 1 ELSE 0
      /\ \A i \in 1..(n - (m + 1) + 1) : SubSeq(path, m + 1, n)[i] = path[(m + 1) + i - 1]
  BY <1>4, <1>5, SubSeqProperties
<1> DEFINE name == SubSeq(path, m + 1, n)
<1>7. name \in Seq(Entries) /\ Len(name) = n - m /\ \A i \in 1..(n - m) : name[i] = path[m + i]
  BY <1>1, <1>2, <1>6
<1> HIDE DEF name
<1>8. CASE e = dir
  <2>1. m = n
    BY <1>8 DEF m, n
  <2>2. Len(name) = 0
    BY <2>1, <1>7, <1>2
  <2>3. name = << >>
    BY <1>7, <2>2, EmptySeq
  <2> QED BY <1>8, <2>3, <1>3, <1>7 DEF name
<1>9. CASE e # dir
  <2>1. m # n
    BY <1>9, <1>1, <1>2
  <2>2. n - m \in Nat \ {0} /\ m + (n - m) = n /\ n - m \in 1..(n - m)
    BY <2>1, <1>1, <1>2
  <2>3. name[n - m] = e
    BY <2>2, <1>7, <1>2
  <2>4. ASSUME NEW i \in 1..((n - m) - 1) PROVE name[i] \in Folders
    <3>1. i \in 1..(n - m) /\ m + i \in 1..(n - 1)
      BY <1>1, <1>2
    <3> QED BY <3>1, <1>7, <1>2
  <2> QED BY <1>9, <2>2, <2>3, <2>4, <1>3, <1>7 DEF name
<1> QED BY <1>8, <1>9

LEMMA ConcatFacts ==
  ASSUME NEW base \in Seq(Entries), NEW rest \in Seq(Entries)
  PROVE  /\ base \o rest \in Seq(Entries)
         /\ Len(base) \in Nat /\ Len(rest) \in Nat /\ Len(base \o rest) = Len(base) + Len(rest)
         /\ \A i \in 1..Len(base) : (base \o rest)[i] = base[i]
         /\ \A i \in 1..Len(rest) : (base \o rest)[Len(base) + i] = rest[i]
         /\ SubSeq(base \o rest, 1, Len(base)) = base
<1>1. base \o rest \in Seq(Entries)
      /\ Len(base) \in Nat /\ Len(rest) \in Nat /\ Len(base \o rest) = Len(base) + Len(rest)
  BY ConcatProperties, LenProperties
<1>2. \A i \in 1..(Len(base) + Len(rest)) :
         (base \o rest)[i] = IF i <= Len(base) THEN base[i] ELSE rest[i - Len(base)]
  BY ConcatProperties
<1>3. \A i \in 1..Len(base) : (base \o rest)[i] = base[i]
  BY <1>1, <1>2
<1>4. \A i \in 1..Len(rest) : (base \o rest)[Len(base) + i] = rest[i]
  BY <1>1, <1>2
<1> DEFINE name == base \o rest
<1>5. SubSeq(name, 1, Len(base)) = base
  <2>1. name \in Seq(Entries) /\ Len(base) <= Len(name) /\ \A i \in 1..Len(base) : name[i] = base[i]
    BY <1>1, <1>3
  <2> HIDE DEF name
  <2>2. \A i \in 1..Len(base) : name[i] \in Entries
    BY <2>1, ElementOfSeq
  <2>3. /\ SubSeq(name, 1, Len(base)) \in Seq(Entries)
        /\ Len(SubSeq(name, 1, Len(base))) = IF 1 <= Len(base) THEN Len(base) - 1 + 1 ELSE 0
        /\ \A i \in 1..(Len(base) - 1 + 1) : SubSeq(name, 1, Len(base))[i] = name[1 + i - 1]
    BY <2>2, <1>1, SubSeqProperties
  <2>4. Len(SubSeq(name, 1, Len(base))) = Len(base)
    BY <2>3, <1>1
  <2>5. \A i \in 1..Len(base) : SubSeq(name, 1, Len(base))[i] = base[i]
    BY <2>3, <2>1, <1>1
  <2> DEFINE sub == SubSeq(name, 1, Len(base))
  <2>6. sub \in Seq(Entries) /\ Len(sub) = Len(base) /\ \A i \in 1..Len(sub) : sub[i] = base[i]
    BY <2>3, <2>4, <2>5
  <2> HIDE DEF sub
  <2>7. sub = base
    BY <2>6, SeqEqual
  <2> QED BY <2>7 DEF sub
<1> QED BY <1>1, <1>3, <1>4, <1>5

(* The name of what is found below at, as it is found under the name base. *)
LEMMA NewName ==
  ASSUME NEW base \in Seq(Entries), base = << >> \/ Last(base) \in Links,
         NEW at \in Folders, NEW e \in Under(at)
  PROVE  /\ base \o NameFrom(at, e) \in Seq(Entries)
         /\ e = at => base \o NameFrom(at, e) = base
         /\ e # at => /\ BaseOf(base, base \o NameFrom(at, e))
                      /\ Last(base \o NameFrom(at, e)) = e
                      /\ base \o NameFrom(at, e) # << >> /\ base \o NameFrom(at, e) # base
<1> DEFINE rest == NameFrom(at, e)
           name == base \o rest
<1>1. at \in Entries
  BY DEF Entries
<1>2. rest \in Seq(Entries) /\ (e = at => rest = << >>)
  BY <1>1, NameFromFacts
<1>3. e # at => /\ Len(rest) \in Nat \ {0} /\ rest[Len(rest)] = e
                /\ \A i \in 1..(Len(rest) - 1) : rest[i] \in Folders
  BY <1>1, NameFromFacts
<1> HIDE DEF rest
<1>4. /\ name \in Seq(Entries)
      /\ Len(base) \in Nat /\ Len(rest) \in Nat /\ Len(name) = Len(base) + Len(rest)
      /\ \A i \in 1..Len(base) : name[i] = base[i]
      /\ \A i \in 1..Len(rest) : name[Len(base) + i] = rest[i]
      /\ SubSeq(name, 1, Len(base)) = base
  BY <1>2, ConcatFacts
<1>5. CASE e = at
  <2>1. name = base
    BY <1>5, <1>2, ConcatEmptySeq
  <2> QED BY <2>1, <1>4, <1>5 DEF rest
<1>6. CASE e # at
  <2>1. Len(rest) \in 1..Len(rest) /\ Len(rest) # 0
    BY <1>3, <1>4, <1>6
  <2> HIDE DEF name
  <2>2. name[Len(name)] = e
    BY <2>1, <1>3, <1>4, <1>6
  <2>3. Len(base) \in 0..(Len(name) - 1)
    BY <2>1, <1>4
  <2>4. ASSUME Len(base) > 0 PROVE name[Len(base)] \in Links
    <3>1. Len(base) \in 1..Len(base) /\ base # << >>
      BY <2>4, <1>4, EmptySeq
    <3>2. base[Len(base)] \in Links
      BY <3>1 DEF Last
    <3> QED BY <3>1, <3>2, <1>4
  <2>5. ASSUME NEW k \in (Len(base) + 1)..(Len(name) - 1) PROVE name[k] \in Folders
    <3>1. k - Len(base) \in 1..(Len(rest) - 1) /\ k - Len(base) \in 1..Len(rest)
          /\ Len(base) + (k - Len(base)) = k
      BY <1>4
    <3>2. name[Len(base) + (k - Len(base))] = rest[k - Len(base)]
      BY <3>1, <1>4
    <3> QED BY <3>1, <3>2, <1>3, <1>6
  <2>6. BaseOf(base, name)
    BY <2>3, <2>4, <2>5, <1>4 DEF BaseOf, Splits
  <2>7. Len(name) # Len(base) /\ Len(name) # 0
    <3>1. Len(name) = Len(base) + Len(rest) /\ Len(base) \in Nat /\ Len(rest) \in Nat
      BY <1>4
    <3> QED BY <2>1, <3>1
  <2>8. name # base /\ name # << >>
    BY <2>7, EmptySeq
  <2>9. Last(name) = e
    BY <2>2 DEF Last
  <2> QED BY <2>6, <2>8, <2>9, <1>4, <1>6 DEF name, rest
<1> QED BY <1>5, <1>6

LEMMA BaseIsUnique ==
  ASSUME NEW name \in Seq(Entries), NEW b \in Seq(Entries), NEW c \in Seq(Entries),
         BaseOf(b, name), BaseOf(c, name)
  PROVE  b = c
<1>1. Len(name) \in Nat /\ Len(b) \in 0..(Len(name) - 1) /\ Len(c) \in 0..(Len(name) - 1)
      /\ Len(b) \in Nat /\ Len(c) \in Nat
  BY LenProperties DEF BaseOf, Splits
<1>2. \A x \in Entries : ~(x \in Folders /\ x \in Links)
  BY LocalWalkAssumption
<1>3. ~(Len(b) < Len(c))
  <2> SUFFICES ASSUME Len(b) < Len(c) PROVE FALSE
    OBVIOUS
  <2>1. Len(c) \in (Len(b) + 1)..(Len(name) - 1) /\ Len(c) > 0
    BY <1>1
  <2>2. name[Len(c)] \in Folders /\ name[Len(c)] \in Links
    BY <2>1 DEF BaseOf, Splits
  <2> QED BY <2>2, LocalWalkAssumption
<1>4. ~(Len(c) < Len(b))
  <2> SUFFICES ASSUME Len(c) < Len(b) PROVE FALSE
    OBVIOUS
  <2>1. Len(b) \in (Len(c) + 1)..(Len(name) - 1) /\ Len(b) > 0
    BY <1>1
  <2>2. name[Len(b)] \in Folders /\ name[Len(b)] \in Links
    BY <2>1 DEF BaseOf, Splits
  <2> QED BY <2>2, LocalWalkAssumption
<1>5. Len(b) = Len(c)
  BY <1>1, <1>3, <1>4
<1> QED BY <1>5 DEF BaseOf

LEMMA NotItsOwnBase ==
  ASSUME NEW name \in Seq(Entries)
  PROVE  ~BaseOf(name, name)
<1>1. Len(name) \in Nat
  BY LenProperties
<1> QED BY <1>1 DEF BaseOf, Splits

LEMMA LinksAreApart ==
  /\ \A e \in Links : e \in Entries /\ e \notin Folders /\ e \notin Leaves
  /\ \A e \in Folders : e \in Entries /\ e \notin Leaves /\ e # Nowhere
  /\ \A e \in Leaves : e \in Entries /\ e # Nowhere
BY LocalWalkAssumption DEF Entries

(* What lies in the start is below it.                                     *)
LEMMA ChildrenUnder ==
  ASSUME NEW e \in Entries, HomeOf(e) = Start
  PROVE  e \in Under(Start) /\ e # Start
<1> DEFINE path == PathTo[e]
<1>0. Start \in Folders /\ Start \in Entries /\ Start # Nowhere
  BY LocalWalkAssumption, LinksAreApart
<1>1. path \in Seq(Entries) /\ Len(path) \in Nat \ {0} /\ DOMAIN path = 1..Len(path)
  BY PathFacts
<1>2. \A i \in 1..Len(path) : PathTo[path[i]] = SubSeq(path, 1, i)
  BY PathFacts
<1>3. Len(path) # 1 /\ path[Len(path) - 1] = Start
  BY <1>0 DEF HomeOf
<1> HIDE DEF path
<1>4. Len(path) - 1 \in 1..Len(path) /\ Len(path) - 1 \in DOMAIN path /\ Len(path) \in Nat
  <2>1. Len(path) \in Nat /\ Len(path) # 0
    BY <1>1
  <2> QED BY <2>1, <1>1, <1>3
<1>5. PathTo[Start] = SubSeq(path, 1, Len(path) - 1)
  BY <1>2, <1>3, <1>4
<1>6. Len(SubSeq(path, 1, Len(path) - 1)) = Len(path) - 1
  BY <1>1, <1>4
<1>7. e # Start
  <2> SUFFICES ASSUME e = Start PROVE FALSE
    OBVIOUS
  <2>1. PathTo[Start] = path
    BY DEF path
  <2>2. Len(path) = Len(path) - 1
    BY <2>1, <1>5, <1>6
  <2> QED BY <2>2, <1>4
<1> QED BY <1>3, <1>4, <1>7 DEF Under, ToSet, path

LEMMA StartIsToBeFound == Under(Start) \subseteq ToBeFound
BY DEF ToBeFound, Under

LEMMA LinksAreToBeFollowed ==
  ASSUME NEW l \in ToBeFound, l \in Links, l \notin rejected, options.followSymlinks,
         linkTo[l] # Nowhere
  PROVE  Under(linkTo[l]) \subseteq ToBeFound
<1> SUFFICES ASSUME NEW e \in Under(linkTo[l]), NEW found \in SUBSET Entries,
                    Under(Start) \subseteq found, ClosedUnderLinks(found)
             PROVE  e \in found
  BY DEF ToBeFound, Under
<1>1. l \in found
  BY DEF ToBeFound
<1> QED BY <1>1 DEF ClosedUnderLinks

LEMMA WalkInitInv ==
  ASSUME WalkInit
  PROVE  WalkInv
<1>1. Start \in Folders /\ Start \in Entries
  BY LocalWalkAssumption, LinksAreApart
<1>2. walking = Item(Start, << >>, options.direct) /\ walkQueue = << >> /\ seenPaths = {}
      /\ named = {} /\ walkEnds = "no" /\ repeated = FALSE /\ options \in OptionsType
      /\ linkTo \in [Links -> LinkTargets]
  BY DEF WalkInit, OptionsType
<1>3. walking.at = Start /\ walking.base = << >> /\ walking.direct = options.direct
      /\ walking \in ItemType
  BY <1>1, <1>2, EmptySeq DEF Item, ItemType, OptionsType
<1>4. pending \subseteq Under(Start) /\ (~options.recursive => Start \notin pending)
      /\ (options.recursive => pending = Under(Start))
  BY ChildrenUnder DEF WalkInit
<1>5. WalkTypeOK
  <2>1. pending \subseteq Entries
    BY <1>4 DEF Under
  <2>2. walkQueue \in Seq(ItemType)
    BY <1>2, EmptySeq
  <2> QED BY <2>1, <2>2, <1>2, <1>3 DEF WalkTypeOK
<1>6. ItemsInv
  <2>1. DOMAIN walkQueue = {}
    BY <1>2
  <2> QED BY <2>1, <1>2, <1>3, <1>4 DEF ItemsInv, ByStart
<1>7. NamesInv /\ OnceInv /\ DoneInv
  BY <1>2 DEF NamesInv, OnceInv, DoneInv
<1>8. WholeInv
  <2>1. DOMAIN walkQueue = {}
    BY <1>2
  <2> QED BY <2>1, <1>2, <1>3, <1>4, StartIsToBeFound DEF WholeInv, Covered
<1> QED BY <1>5, <1>6, <1>7, <1>8 DEF WalkInv

(* Nothing has the name that what comes will have.                         *)
NameOf(e) == walking.base \o NameFrom(walking.at, e)

LEMMA ComesUnderNewName ==
  ASSUME WalkTypeOK, ItemsInv, NamesInv, NEW e \in pending,
         e # walking.at \/ walking.base = << >>
  PROVE  /\ NameOf(e) \in Seq(Entries) /\ ~IsNamed(NameOf(e)) /\ e \in Entries
         /\ e # walking.at => /\ BaseOf(walking.base, NameOf(e)) /\ Last(NameOf(e)) = e
                              /\ NameOf(e) # << >> /\ NameOf(e) # walking.base
         /\ e = walking.at => NameOf(e) = << >> /\ e = Start /\ walking.base = << >>
<1>1. walking.base \in Seq(Entries) /\ walking.at \in Folders /\ e \in Entries
  BY DEF WalkTypeOK, ItemType
<1>2. walking.base = << >> \/ Last(walking.base) \in Links
  BY DEF ItemsInv, ByStart, ByLink
<1>3. e \in Under(walking.at)
  BY DEF ItemsInv
<1>4. /\ NameOf(e) \in Seq(Entries)
      /\ e = walking.at => NameOf(e) = walking.base
      /\ e # walking.at => /\ BaseOf(walking.base, NameOf(e))
                           /\ Last(NameOf(e)) = e
                           /\ NameOf(e) # << >> /\ NameOf(e) # walking.base
  <2> DEFINE base == walking.base
             at == walking.at
  <2>1. base \in Seq(Entries) /\ (base = << >> \/ Last(base) \in Links) /\ at \in Folders
        /\ e \in Under(at)
    BY <1>1, <1>2, <1>3
  <2> HIDE DEF base, at
  <2>2. /\ base \o NameFrom(at, e) \in Seq(Entries)
        /\ e = at => base \o NameFrom(at, e) = base
        /\ e # at => /\ BaseOf(base, base \o NameFrom(at, e))
                     /\ Last(base \o NameFrom(at, e)) = e
                     /\ base \o NameFrom(at, e) # << >> /\ base \o NameFrom(at, e) # base
    BY <2>1, NewName
  <2> QED BY <2>2 DEF NameOf, base, at
<1>5. walking.base = << >> => walking.at = Start
  BY DEF ItemsInv, ByStart, ByLink
<1>6. ASSUME NEW m \in named, m.name = NameOf(e) PROVE FALSE
  <2>1. CASE e # walking.at
    BY <2>1, <1>4, <1>6 DEF NamesInv
  <2>2. CASE e = walking.at
    BY <2>2, <1>4, <1>5, <1>6 DEF NamesInv
  <2> QED BY <2>1, <2>2
<1> QED BY <1>1, <1>4, <1>5, <1>6 DEF IsNamed

LEMMA NamesStep ==
  ASSUME WalkTypeOK, ItemsInv, NamesInv, NEW e \in pending,
         e # walking.at \/ walking.base = << >>,
         NEW what, named' = named \cup {[name |-> NameOf(e), is |-> what]},
         repeated' = (repeated \/ IsNamed(NameOf(e))),
         pending' = pending \ {e}, walking' = walking
  PROVE  NamesInv'
<1>1. /\ NameOf(e) \in Seq(Entries) /\ ~IsNamed(NameOf(e))
      /\ e # walking.at => /\ BaseOf(walking.base, NameOf(e)) /\ Last(NameOf(e)) = e
                           /\ NameOf(e) # << >> /\ NameOf(e) # walking.base
      /\ e = walking.at => NameOf(e) = << >> /\ e = Start /\ walking.base = << >>
  BY ComesUnderNewName
<1>2. repeated' = FALSE
  BY <1>1 DEF NamesInv, WalkTypeOK
<1>3. \A name : IsNamed(name) => IsNamed(name)'
  BY DEF IsNamed
<1>4. ASSUME NEW m \in named', BaseOf(walking.base, m.name) PROVE Last(m.name) \notin pending'
  <2>1. CASE m \in named
    BY <2>1, <1>4 DEF NamesInv
  <2>2. CASE m = [name |-> NameOf(e), is |-> what]
    <3>1. m.name = NameOf(e)
      BY <2>2
    <3>2. e # walking.at
      <4> SUFFICES ASSUME e = walking.at PROVE FALSE
        OBVIOUS
      <4>1. BaseOf(NameOf(e), NameOf(e))
        BY <3>1, <1>1, <1>4
      <4> QED BY <4>1, <1>1, NotItsOwnBase
    <3> QED BY <3>1, <3>2, <1>1
  <2> QED BY <2>1, <2>2
<1>5. ASSUME NEW m \in named', m.name = << >> PROVE ~(walking.base = << >> /\ Start \in pending')
  <2>1. CASE m \in named
    BY <2>1, <1>5 DEF NamesInv
  <2>2. CASE m = [name |-> NameOf(e), is |-> what]
    <3>1. m.name = NameOf(e)
      BY <2>2
    <3> QED BY <3>1, <1>1, <1>5
  <2> QED BY <2>1, <2>2
<1>6. ASSUME NEW m \in named', NEW j \in 1..Len(m.name), Splits(m.name, j)
      PROVE  IsNamed(SubSeq(m.name, 1, j))'
  <2>1. CASE m \in named
    BY <2>1, <1>3, <1>6 DEF NamesInv
  <2>2. CASE m = [name |-> NameOf(e), is |-> what]
    <3> DEFINE name == NameOf(e)
               base == SubSeq(name, 1, j)
    <3>1. m.name = name /\ name \in Seq(Entries)
      BY <2>2, <1>1
    <3> HIDE DEF name
    <3>2. j \in 1..Len(name) /\ Len(name) \in Nat /\ Splits(name, j)
      BY <3>1, <1>6
    <3>3. base \in Seq(Entries) /\ Len(base) = j
      BY <3>1, <3>2
    <3> HIDE DEF base
    <3>4. BaseOf(base, name)
      BY <3>2, <3>3 DEF BaseOf, base
    <3>5. e # walking.at
      <4> SUFFICES ASSUME e = walking.at PROVE FALSE
        OBVIOUS
      <4>1. name = << >>
        BY <1>1 DEF name
      <4> QED BY <4>1, <3>2
    <3>6. walking.base \in Seq(Entries) /\ BaseOf(walking.base, name)
      BY <3>5, <1>1 DEF name, WalkTypeOK, ItemType
    <3>7. base = walking.base
      BY <3>1, <3>3, <3>4, <3>6, BaseIsUnique
    <3>8. walking.base # << >>
      BY <3>2, <3>3, <3>7, EmptySeq
    <3>9. IsNamed(walking.base)
      BY <3>8 DEF ItemsInv, ByStart, ByLink
    <3>10. PICK k \in named' : k.name = walking.base
      BY <3>9 DEF IsNamed
    <3>11. k.name = SubSeq(m.name, 1, j)
      BY <3>1, <3>7, <3>10 DEF base
    <3> HIDE DEF base
    <3> QED BY <3>10, <3>11 DEF IsNamed
  <2> QED BY <2>1, <2>2
<1> QED BY <1>2, <1>4, <1>5, <1>6 DEF NamesInv

LEMMA NamesStay ==
  ASSUME NamesInv, named' = named, repeated' = repeated, pending' \subseteq pending, walking' = walking
  PROVE  NamesInv'
<1>1. \A name : IsNamed(name)' <=> IsNamed(name)
  BY DEF IsNamed
<1> QED BY <1>1 DEF NamesInv

LEMMA ItemsStay ==
  ASSUME ItemsInv, UNCHANGED <<linkTo, options, walking, walkQueue>>, named' = named,
         seenPaths \subseteq seenPaths', pending' \subseteq pending
  PROVE  ItemsInv'
<1>1. ByStart(walking) => ByStart(walking)'
  BY DEF ByStart
<1>2. ByLink(walking) => ByLink(walking)'
  BY DEF ByLink, IsNamed
<1>3. ASSUME NEW i \in DOMAIN walkQueue'
      PROVE  /\ ByLink(walkQueue[i])' /\ walkQueue'[i].base # walking'.base
             /\ \A m \in named' : ~BaseOf(walkQueue'[i].base, m.name)
             /\ \A j \in DOMAIN walkQueue' : walkQueue'[j].base = walkQueue'[i].base => j = i
  <2>1. i \in DOMAIN walkQueue /\ walkQueue' = walkQueue /\ walking' = walking
    OBVIOUS
  <2>2. ByLink(walkQueue[i])
    BY <2>1 DEF ItemsInv
  <2>3. ByLink(walkQueue[i])'
    BY <2>1, <2>2 DEF ByLink, IsNamed
  <2> QED BY <2>1, <2>3 DEF ItemsInv
<1>4. (Plain => ByStart(walking) /\ walkQueue = << >>)'
  BY <1>1 DEF ItemsInv, Plain
<1>5. (ByStart(walking) \/ ByLink(walking))' /\ (pending \subseteq Under(walking.at))'
      /\ (~options.recursive => Start \notin pending)'
  BY <1>1, <1>2 DEF ItemsInv
<1> QED BY <1>3, <1>4, <1>5 DEF ItemsInv

LEMMA ItemsStep ==
  ASSUME WalkTypeOK, ItemsInv, NamesInv, NEW e \in pending,
         e # walking.at \/ walking.base = << >>,
         NEW what, named' = named \cup {[name |-> NameOf(e), is |-> what]},
         UNCHANGED <<linkTo, options, walking, walkQueue>>,
         seenPaths \subseteq seenPaths', pending' = pending \ {e}
  PROVE  ItemsInv'
<1>1. ByStart(walking) => ByStart(walking)'
  BY DEF ByStart
<1>2. ByLink(walking) => ByLink(walking)'
  BY DEF ByLink, IsNamed
<1>3. ASSUME NEW i \in DOMAIN walkQueue'
      PROVE  /\ ByLink(walkQueue[i])' /\ walkQueue'[i].base # walking'.base
             /\ \A m \in named' : ~BaseOf(walkQueue'[i].base, m.name)
             /\ \A j \in DOMAIN walkQueue' : walkQueue'[j].base = walkQueue'[i].base => j = i
  <2>1. i \in DOMAIN walkQueue /\ walkQueue' = walkQueue /\ walking' = walking
    OBVIOUS
  <2>2. ByLink(walkQueue[i]) /\ walkQueue[i].base # walking.base
        /\ (\A m \in named : ~BaseOf(walkQueue[i].base, m.name))
        /\ \A j \in DOMAIN walkQueue : walkQueue[j].base = walkQueue[i].base => j = i
    BY <2>1 DEF ItemsInv
  <2>3. ByLink(walkQueue[i])'
    BY <2>1, <2>2 DEF ByLink, IsNamed
  <2>4. ~BaseOf(walkQueue[i].base, NameOf(e))
    <3> SUFFICES ASSUME BaseOf(walkQueue[i].base, NameOf(e)) PROVE FALSE
      OBVIOUS
    <3>1. walkQueue[i].base \in Seq(Entries) /\ walking.base \in Seq(Entries)
      <4>1. walkQueue[i] \in ItemType
        BY <2>1 DEF WalkTypeOK
      <4> QED BY <4>1 DEF WalkTypeOK, ItemType
    <3>2. NameOf(e) \in Seq(Entries)
          /\ (e # walking.at => BaseOf(walking.base, NameOf(e)))
          /\ (e = walking.at => NameOf(e) = << >>)
      BY ComesUnderNewName
    <3>3. CASE e # walking.at
      BY <3>1, <3>2, <3>3, <2>2, BaseIsUnique
    <3>4. CASE e = walking.at
      <4>1. Len(NameOf(e)) = 0 /\ Len(walkQueue[i].base) \in Nat
        BY <3>1, <3>2, <3>4, EmptySeq, LenProperties
      <4>2. Len(walkQueue[i].base) \in 0..(Len(NameOf(e)) - 1)
        BY DEF BaseOf, Splits
      <4> QED BY <4>1, <4>2
    <3> QED BY <3>3, <3>4
  <2>5. \A m \in named' : ~BaseOf(walkQueue[i].base, m.name)
    BY <2>2, <2>4
  <2> QED BY <2>1, <2>2, <2>3, <2>5
<1>4. (Plain => ByStart(walking) /\ walkQueue = << >>)'
  BY <1>1 DEF ItemsInv, Plain
<1>5. (ByStart(walking) \/ ByLink(walking))' /\ (pending \subseteq Under(walking.at))'
      /\ (~options.recursive => Start \notin pending)'
  BY <1>1, <1>2 DEF ItemsInv
<1> QED BY <1>3, <1>4, <1>5 DEF ItemsInv

LEMMA OnceStay ==
  ASSUME OnceInv, options' = options, named' = named, seenPaths \subseteq seenPaths'
  PROVE  OnceInv'
BY DEF OnceInv, Plain, Other

LEMMA OnceStep ==
  ASSUME OnceInv, options' = options, NEW n, named' = named \cup {n},
         seenPaths \subseteq seenPaths',
         Plain /\ CountsFor(n) => n.name = NameFrom(Start, n.is),
         ~Plain /\ Other(n) => Directly(n.is) \notin seenPaths /\ Directly(n.is) \in seenPaths'
  PROVE  OnceInv'
<1>1. Plain' = Plain /\ \A m : Other(m)' = Other(m)
  BY DEF Plain, Other
<1>2. ASSUME Plain, NEW m \in named', CountsFor(m) PROVE m.name = NameFrom(Start, m.is)
  BY <1>2 DEF OnceInv
<1>3. ASSUME ~Plain, NEW m \in named', Other(m)
      PROVE  /\ Directly(m.is) \in seenPaths'
             /\ \A k \in named' : Other(k) /\ k.is = m.is => k = m
  <2>1. \A k \in named : Other(k) => Directly(k.is) \in seenPaths
    BY <1>3 DEF OnceInv
  <2>2. Directly(m.is) \in seenPaths'
    BY <2>1, <1>3
  <2>3. ASSUME NEW k \in named', Other(k), k.is = m.is PROVE k = m
    <3>1. CASE m \in named /\ k \in named
      BY <3>1, <2>3, <1>3 DEF OnceInv
    <3>2. CASE m = n /\ k \in named
      BY <3>2, <2>1, <2>3, <1>3
    <3>3. CASE m \in named /\ k = n
      BY <3>3, <2>1, <2>3, <1>3
    <3> QED BY <3>1, <3>2, <3>3, <1>3, <2>3
  <2> QED BY <2>2, <2>3
<1> QED BY <1>1, <1>2, <1>3 DEF OnceInv

LEMMA HandledStays ==
  ASSUME UNCHANGED <<linkTo, options, rejected>>, named \subseteq named', seenPaths \subseteq seenPaths',
         NEW e, Handled(e)
  PROVE  Handled(e)'
<1>1. \A x : NamesOf(x) # {} => NamesOf(x)' # {}
  BY DEF NamesOf
<1> QED BY <1>1 DEF Handled, Directly

LEMMA ToBeFoundStays ==
  ASSUME UNCHANGED <<linkTo, options, rejected>>
  PROVE  ToBeFound' = ToBeFound
BY DEF ToBeFound, ClosedUnderLinks

LEMMA WholeStep ==
  ASSUME WalkTypeOK, ItemsInv, WholeInv, options.recursive,
         UNCHANGED <<linkTo, options, rejected, walking>>,
         NEW e, pending' = pending \ {e}, Handled(e)',
         named \subseteq named', seenPaths \subseteq seenPaths',
         \A i \in DOMAIN walkQueue : i \in DOMAIN walkQueue' /\ walkQueue'[i] = walkQueue[i],
         \A m \in named' : m \in named \/ m.is \in ToBeFound,
         \A i \in DOMAIN walkQueue' : Under(walkQueue'[i].at) \subseteq ToBeFound,
         \A p \in seenPaths' : p \in seenPaths \/ p.entry \in Links \/ NamesOf(p.entry)' # {},
         \A dir \in Folders : Directly(dir) \in seenPaths' =>
            \/ Directly(dir) \in seenPaths \/ dir \in Under(walking.at)
            \/ \E i \in DOMAIN walkQueue' : walkQueue'[i].at = dir
  PROVE  WholeInv'
<1>1. ToBeFound' = ToBeFound
  BY ToBeFoundStays
<1>2. /\ \A m \in named : m.is \in ToBeFound
      /\ Under(walking.at) \subseteq ToBeFound
      /\ \A p \in seenPaths : p.entry \notin Links => NamesOf(p.entry) # {}
      /\ \A x \in Under(walking.at) : Handled(x) \/ x \in pending
      /\ Covered(Under(Start))
      /\ \A dir \in Folders : Directly(dir) \in seenPaths => Covered(Under(dir))
  BY DEF WholeInv
<1>3. \A x : Handled(x) => Handled(x)'
  BY HandledStays
<1>4. ASSUME NEW x, Handled(x) \/ x \in pending PROVE Handled(x)' \/ x \in pending'
  BY <1>3, <1>4
<1>5. ASSUME NEW found, Covered(found) PROVE Covered(found)'
  <2>1. ASSUME NEW x \in found
        PROVE  Handled(x)' \/ x \in pending' \/ \E i \in DOMAIN walkQueue' : x \in Under(walkQueue'[i].at)
    <3>1. CASE Handled(x) \/ x \in pending
      BY <3>1, <1>4
    <3>2. CASE \E i \in DOMAIN walkQueue : x \in Under(walkQueue[i].at)
      BY <3>2
    <3> QED BY <3>1, <3>2, <1>5 DEF Covered
  <2> QED BY <2>1 DEF Covered
<1>6. ASSUME NEW dir \in Folders, Directly(dir) \in seenPaths' PROVE Covered(Under(dir))'
  <2>1. CASE Directly(dir) \in seenPaths
    BY <2>1, <1>2, <1>5
  <2>2. CASE dir \in Under(walking.at)
    <3>1. \A x \in Under(dir) : x \in Under(walking.at)
      <4>1. walking.at \in Entries
        BY LinksAreApart DEF WalkTypeOK, ItemType
      <4> DEFINE at == walking.at
      <4>2. at \in Entries /\ dir \in Under(at)
        BY <4>1, <2>2
      <4> HIDE DEF at
      <4>3. \A x \in Under(dir) : x \in Under(at)
        BY <4>2, UnderUnder
      <4> QED BY <4>3 DEF at
    <3>2. \A x \in Under(dir) : Handled(x)' \/ x \in pending'
      BY <3>1, <1>2, <1>4
    <3> QED BY <3>2 DEF Covered
  <2>3. CASE \E i \in DOMAIN walkQueue' : walkQueue'[i].at = dir
    BY <2>3 DEF Covered
  <2> QED BY <2>1, <2>2, <2>3, <1>6
<1>7. \A p \in seenPaths' : p.entry \notin Links => NamesOf(p.entry)' # {}
  <2>1. \A x : NamesOf(x) # {} => NamesOf(x)' # {}
    BY DEF NamesOf
  <2> QED BY <2>1, <1>2
<1>8. Covered(Under(Start))'
  BY <1>2, <1>5
<1>9. \A m \in named' : m.is \in ToBeFound'
  BY <1>1, <1>2
<1>10. Under(walking'.at) \subseteq ToBeFound'
       /\ \A x \in Under(walking'.at) : Handled(x)' \/ x \in pending'
  BY <1>1, <1>2, <1>4
<1>11. \A i \in DOMAIN walkQueue' : Under(walkQueue'[i].at) \subseteq ToBeFound'
  BY <1>1
<1>12. \A dir \in Folders : (Directly(dir) \in seenPaths)' => Covered(Under(dir))'
  BY <1>6 DEF Directly
<1> QED BY <1>7, <1>8, <1>9, <1>10, <1>11, <1>12 DEF WholeInv

-----------------------------------------------------------------------------
(* The steps of the local walk.                                            *)

LEMMA HandsOver ==
  ASSUME NEW e, NEW what, HandOver(e, what), e \notin rejected
  PROVE  /\ named' = named \cup {[name |-> NameOf(e), is |-> what]}
         /\ repeated' = (repeated \/ IsNamed(NameOf(e)))
BY DEF HandOver, NameOf, IsNamed

LEMMA PassesInv ==
  ASSUME WalkInv, NEW e, Comes(e), UNCHANGED <<walkQueue, seenPaths, named, repeated>>, Handled(e)
  PROVE  WalkInv'
<1>1. WalkTypeOK /\ ItemsInv /\ NamesInv /\ OnceInv /\ WholeInv /\ DoneInv
  BY DEF WalkInv
<1>2. /\ walkEnds = "no" /\ options.recursive /\ pending' = pending \ {e}
      /\ UNCHANGED <<linkTo, options, rejected, walking, walkEnds>>
  BY DEF Comes
<1>3. WalkTypeOK'
  BY <1>1, <1>2 DEF WalkTypeOK
<1>4. ItemsInv'
  BY <1>1, <1>2, ItemsStay
<1>5. NamesInv'
  BY <1>1, <1>2, NamesStay
<1>6. OnceInv'
  BY <1>1, <1>2, OnceStay
<1>7. Handled(e)'
  BY <1>2, HandledStays
<1>8. WholeInv'
  <2>1. \A i \in DOMAIN walkQueue' : Under(walkQueue'[i].at) \subseteq ToBeFound
    BY <1>1, <1>2 DEF WholeInv
  <2>2. \A dir \in Folders : Directly(dir) \in seenPaths' =>
            \/ Directly(dir) \in seenPaths \/ dir \in Under(walking.at)
            \/ \E i \in DOMAIN walkQueue' : walkQueue'[i].at = dir
    OBVIOUS
  <2> QED BY <1>1, <1>2, <1>7, <2>1, <2>2, WholeStep
<1>9. DoneInv'
  BY <1>2 DEF DoneInv
<1> QED BY <1>3, <1>4, <1>5, <1>6, <1>8, <1>9 DEF WalkInv

LEMMA HandedInv ==
  ASSUME WalkInv, NEW e \in pending, Comes(e), e # walking.at \/ walking.base = << >>,
         e \notin rejected, NEW what \in Folders \cup Leaves, HandOver(e, what), what \in ToBeFound,
         UNCHANGED walkQueue, seenPaths \subseteq seenPaths', seenPaths' \subseteq SeenType,
         Handled(e)',
         Plain /\ CountsFor([name |-> NameOf(e), is |-> what]) => NameOf(e) = NameFrom(Start, what),
         ~Plain /\ Other([name |-> NameOf(e), is |-> what]) =>
             Directly(what) \notin seenPaths /\ Directly(what) \in seenPaths',
         \A p \in seenPaths' : p \in seenPaths \/ p.entry = e,
         e \notin Links => what = e
  PROVE  WalkInv'
<1> DEFINE n == [name |-> NameOf(e), is |-> what]
<1>1. WalkTypeOK /\ ItemsInv /\ NamesInv /\ OnceInv /\ WholeInv /\ DoneInv
  BY DEF WalkInv
<1>2. /\ walkEnds = "no" /\ options.recursive /\ pending' = pending \ {e}
      /\ UNCHANGED <<linkTo, options, rejected, walking, walkEnds>>
  BY DEF Comes
<1>3. named' = named \cup {n} /\ repeated' = (repeated \/ IsNamed(NameOf(e)))
  BY HandsOver
<1>4. NameOf(e) \in Seq(Entries) /\ e \in Entries
  BY <1>1, ComesUnderNewName
<1>5. NamesInv'
  BY <1>1, <1>2, <1>3, NamesStep
<1>6. WalkTypeOK'
  <2>1. n \in NamedType
    BY <1>4 DEF NamedType
  <2>2. repeated' \in BOOLEAN
    BY <1>3
  <2> HIDE DEF n
  <2>3. named' \subseteq NamedType
    BY <2>1, <1>1, <1>3 DEF WalkTypeOK
  <2> QED BY <2>2, <2>3, <1>1, <1>2 DEF WalkTypeOK
<1>7. ItemsInv'
  BY <1>1, <1>2, <1>3, ItemsStep
<1>8. OnceInv'
  <2>1. n.name = NameOf(e) /\ n.is = what
    OBVIOUS
  <2>2. Plain /\ CountsFor(n) => n.name = NameFrom(Start, n.is)
    BY <2>1
  <2>3. ~Plain /\ Other(n) => Directly(n.is) \notin seenPaths /\ Directly(n.is) \in seenPaths'
    BY <2>1
  <2> HIDE DEF n
  <2> QED BY <1>1, <1>2, <1>3, <2>2, <2>3, OnceStep
<1>9. WholeInv'
  <2>1. \A i \in DOMAIN walkQueue' : Under(walkQueue'[i].at) \subseteq ToBeFound
    BY <1>1, <1>2 DEF WholeInv
  <2>2. \A m \in named' : m \in named \/ m.is \in ToBeFound
    BY <1>3
  <2>3. \A p \in seenPaths' : p \in seenPaths \/ p.entry \in Links \/ NamesOf(p.entry)' # {}
    <3> SUFFICES ASSUME NEW p \in seenPaths', p.entry = e, e \notin Links PROVE NamesOf(p.entry)' # {}
      OBVIOUS
    <3>1. n \in named' /\ n.is = p.entry
      BY <1>3
    <3> QED BY <3>1 DEF NamesOf
  <2>4. \A dir \in Folders : Directly(dir) \in seenPaths' =>
            \/ Directly(dir) \in seenPaths \/ dir \in Under(walking.at)
            \/ \E i \in DOMAIN walkQueue' : walkQueue'[i].at = dir
    <3>1. e \in Under(walking.at)
      BY <1>1 DEF ItemsInv
    <3>2. \A dir : Directly(dir).entry = dir
      BY DEF Directly
    <3> QED BY <3>1, <3>2
  <2>5. named \subseteq named'
    BY <1>3
  <2> HIDE DEF n
  <2> QED BY <1>1, <1>2, <2>1, <2>2, <2>3, <2>4, <2>5, WholeStep
<1>10. DoneInv'
  BY <1>2 DEF DoneInv
<1> QED BY <1>5, <1>6, <1>7, <1>8, <1>9, <1>10 DEF WalkInv

LEMMA VisitEntryInv ==
  ASSUME WalkInv, NEW e \in pending, VisitEntry(e)
  PROVE  WalkInv'
<1>1. WalkTypeOK /\ ItemsInv /\ NamesInv /\ OnceInv /\ WholeInv /\ DoneInv
  BY DEF WalkInv
<1>2. /\ e \notin Links /\ Comes(e) /\ options.recursive /\ UNCHANGED walkQueue
      /\ pending' = pending \ {e}
      /\ UNCHANGED <<linkTo, options, rejected, walking, walkEnds>>
  BY DEF VisitEntry, Comes
<1>3. e \in Entries /\ e \in Folders \cup Leaves /\ e \in Under(walking.at)
  BY <1>1, <1>2 DEF WalkTypeOK, ItemsInv, Entries
<1>4. CASE PathOfFound(e) \in seenPaths
  <2>1. UNCHANGED <<seenPaths, named, repeated>>
    BY <1>4 DEF VisitEntry
  <2>2. PathOfFound(e).entry = e
    BY DEF PathOfFound
  <2>3. NamesOf(e) # {}
    BY <2>2, <1>1, <1>2, <1>4 DEF WholeInv
  <2>4. Handled(e)
    BY <2>3, <1>2 DEF Handled
  <2> QED BY <2>1, <2>4, <1>2, PassesInv
<1>5. CASE PathOfFound(e) \notin seenPaths /\ e \in rejected
  <2>1. UNCHANGED <<seenPaths, named, repeated>>
    BY <1>5 DEF VisitEntry, HandOver
  <2>2. Handled(e)
    BY <1>5 DEF Handled
  <2> QED BY <2>1, <2>2, <1>2, PassesInv
<1>6. CASE PathOfFound(e) \notin seenPaths /\ e \notin rejected
  <2>1. HandOver(e, e) /\ Record({PathOfFound(e)})
    BY <1>6 DEF VisitEntry
  <2>2. named' = named \cup {[name |-> NameOf(e), is |-> e]}
    BY <2>1, <1>6, HandsOver
  <2>3. e # walking.at \/ walking.base = << >>
    <3> SUFFICES ASSUME e = walking.at, walking.base # << >> PROVE FALSE
      OBVIOUS
    <3>1. walking.direct = TRUE /\ Directly(walking.at) \in seenPaths
      BY <1>1 DEF ItemsInv, ByStart, ByLink
    <3>2. PathOfFound(e) = Directly(walking.at)
      BY <3>1 DEF PathOfFound, Directly
    <3> QED BY <3>1, <3>2, <1>6
  <2>4. PathOfFound(e) \in SeenType /\ PathOfFound(e).entry = e
    <3>1. walking.direct \in BOOLEAN
      BY <1>1 DEF WalkTypeOK, ItemType
    <3> QED BY <3>1, <1>3 DEF PathOfFound, SeenType
  <2>5. /\ seenPaths \subseteq seenPaths' /\ seenPaths' \subseteq SeenType
        /\ \A p \in seenPaths' : p \in seenPaths \/ p.entry = e
        /\ options.followSymlinks => PathOfFound(e) \in seenPaths'
    BY <2>1, <2>4, <1>1 DEF Record, WalkTypeOK
  <2>6. Handled(e)'
    <3>1. [name |-> NameOf(e), is |-> e] \in named' /\ [name |-> NameOf(e), is |-> e].is = e
      BY <2>2
    <3>2. NamesOf(e)' # {}
      BY <3>1 DEF NamesOf
    <3> QED BY <3>2, <1>2 DEF Handled
  <2>7. ASSUME ByStart(walking) PROVE NameOf(e) = NameFrom(Start, e)
    <3>1. walking.base = << >> /\ walking.at = Start
      BY <2>7 DEF ByStart
    <3>2. NameFrom(Start, e) \in Seq(Entries)
      BY <3>1, <1>3, NameFromFacts, LocalWalkAssumption, LinksAreApart
    <3> QED BY <3>1, <3>2, ConcatEmptySeq DEF NameOf
  <2>8. Plain => NameOf(e) = NameFrom(Start, e)
    BY <2>7, <1>1 DEF ItemsInv
  <2>9. ASSUME ~Plain, Other([name |-> NameOf(e), is |-> e])
        PROVE  Directly(e) \notin seenPaths /\ Directly(e) \in seenPaths'
    <3>1. options.followSymlinks
      BY <2>9 DEF Plain
    <3>2. options.direct \/ NameOf(e) # NameFrom(Start, e)
      BY <2>9 DEF Other
    <3>3. walking.direct = TRUE
      <4>1. CASE ByStart(walking)
        <5>1. options.direct /\ walking.direct = options.direct /\ options.direct \in BOOLEAN
          BY <4>1, <3>2, <2>7, <1>1 DEF ByStart, WalkTypeOK, OptionsType
        <5> QED BY <5>1
      <4>2. CASE ByLink(walking)
        BY <4>2 DEF ByLink
      <4> QED BY <4>1, <4>2, <1>1 DEF ItemsInv
    <3>4. PathOfFound(e) = Directly(e)
      BY <3>3 DEF PathOfFound, Directly
    <3> QED BY <3>1, <3>4, <2>5, <1>6
  <2>10. e \in ToBeFound
    BY <1>1, <1>2, <1>3 DEF WholeInv
  <2> QED BY <2>1, <2>3, <2>5, <2>6, <2>8, <2>9, <2>10, <1>2, <1>3, <1>6, HandedInv
<1> QED BY <1>4, <1>5, <1>6

LEMMA PassOverInv ==
  ASSUME WalkInv, NEW l \in Links, PassOver(l)
  PROVE  WalkInv'
<1>1. Comes(l) /\ UNCHANGED <<walkQueue, seenPaths, named, repeated>>
      /\ (~options.followSymlinks \/ linkTo[l] = Nowhere)
  BY DEF PassOver
<1>2. Handled(l)
  BY <1>1, LinksAreApart DEF Handled
<1> QED BY <1>1, <1>2, PassesInv

LEMMA FollowToFileInv ==
  ASSUME WalkInv, NEW l \in Links, FollowToFile(l)
  PROVE  WalkInv'
<1>1. WalkTypeOK /\ ItemsInv /\ NamesInv /\ OnceInv /\ WholeInv /\ DoneInv
  BY DEF WalkInv
<1>2. /\ linkTo[l] \in Leaves /\ Comes(l) /\ options.followSymlinks /\ linkTo[l] # Nowhere
      /\ HandOver(l, linkTo[l]) /\ UNCHANGED <<walkQueue, seenPaths>>
      /\ options.recursive /\ pending' = pending \ {l} /\ l \in pending
      /\ UNCHANGED <<linkTo, options, rejected, walking, walkEnds>>
  BY DEF FollowToFile, Follows, Comes
<1>3. l \in Under(walking.at) /\ l \in Entries /\ l # walking.at /\ linkTo[l] \in Entries
  BY <1>1, <1>2, LinksAreApart DEF ItemsInv, WalkTypeOK, ItemType
<1>4. CASE l \in rejected
  <2>1. UNCHANGED <<named, repeated>> /\ Handled(l)
    BY <1>2, <1>4 DEF HandOver, Handled
  <2> QED BY <2>1, <1>2, PassesInv
<1>5. CASE l \notin rejected
  <2>1. named' = named \cup {[name |-> NameOf(l), is |-> linkTo[l]]}
    BY <1>2, <1>5, HandsOver
  <2>2. Handled(l)'
    <3>1. [name |-> NameOf(l), is |-> linkTo[l]] \in named'
      BY <2>1
    <3>2. NamesOf(linkTo[l])' # {}
      BY <3>1, <1>2 DEF NamesOf
    <3>3. linkTo[l] \notin Folders
      BY <1>2, LinksAreApart
    <3> QED BY <3>2, <3>3, <1>2 DEF Handled
  <2>3. linkTo[l] \in ToBeFound
    <3>1. l \in ToBeFound
      BY <1>1, <1>2, <1>3 DEF WholeInv
    <3>2. Under(linkTo[l]) \subseteq ToBeFound
      BY <3>1, <1>2, <1>5, LinksAreToBeFollowed
    <3>3. linkTo[l] \in Under(linkTo[l])
      BY <1>3, UnderItself
    <3> QED BY <3>2, <3>3
  <2>4. ~CountsFor([name |-> NameOf(l), is |-> linkTo[l]])
    <3>1. NameOf(l) # << >> /\ Last(NameOf(l)) = l
      BY <1>1, <1>2, <1>3, ComesUnderNewName
    <3>2. linkTo[l] \notin Folders /\ linkTo[l] # l
      BY <1>2, LinksAreApart
    <3> QED BY <3>1, <3>2 DEF CountsFor, ByItself
  <2>5. ~Other([name |-> NameOf(l), is |-> linkTo[l]])
    BY <2>4 DEF Other
  <2>6. seenPaths' \subseteq SeenType
    BY <1>1, <1>2 DEF WalkTypeOK
  <2> DEFINE what == linkTo[l]
  <2>7. /\ what \in Folders \cup Leaves /\ HandOver(l, what) /\ what \in ToBeFound
        /\ (Plain /\ CountsFor([name |-> NameOf(l), is |-> what]) => NameOf(l) = NameFrom(Start, what))
        /\ (~Plain /\ Other([name |-> NameOf(l), is |-> what]) =>
                Directly(what) \notin seenPaths /\ Directly(what) \in seenPaths')
    BY <1>2, <2>3, <2>4, <2>5
  <2>8. \A p \in seenPaths' : p \in seenPaths \/ p.entry = l
    BY <1>2
  <2> HIDE DEF what
  <2> QED BY <2>2, <2>6, <2>7, <2>8, <1>2, <1>3, <1>5, HandedInv
<1> QED BY <1>4, <1>5

(* The folder is queued under the name that it was handed over with, a     *)
(* name that nothing was called before.                                    *)
LEMMA FollowToFolderItems ==
  ASSUME WalkTypeOK, ItemsInv, NamesInv, NEW l \in pending, l \in Links, linkTo[l] \in Folders,
         ~Plain, named' = named \cup {[name |-> NameOf(l), is |-> linkTo[l]]},
         walkQueue' = Append(walkQueue, Item(linkTo[l], NameOf(l), TRUE)),
         UNCHANGED <<linkTo, options, walking>>,
         seenPaths \subseteq seenPaths', Directly(linkTo[l]) \in seenPaths', pending' = pending \ {l}
  PROVE  ItemsInv'
<1> DEFINE item == Item(linkTo[l], NameOf(l), TRUE)
<1>0. l # walking.at
  BY LinksAreApart DEF WalkTypeOK, ItemType
<1>1. /\ NameOf(l) \in Seq(Entries) /\ ~IsNamed(NameOf(l)) /\ BaseOf(walking.base, NameOf(l))
      /\ Last(NameOf(l)) = l /\ NameOf(l) # << >> /\ NameOf(l) # walking.base
  BY <1>0, ComesUnderNewName
<1>2. walkQueue \in Seq(ItemType) /\ item \in ItemType /\ walking.base \in Seq(Entries)
  BY <1>1 DEF WalkTypeOK, Item, ItemType
<1>3. item.base = NameOf(l) /\ item.at = linkTo[l] /\ item.direct = TRUE
  BY DEF Item
<1> HIDE DEF item
<1>4. /\ Len(walkQueue) \in Nat /\ DOMAIN walkQueue = 1..Len(walkQueue)
      /\ DOMAIN walkQueue' = 1..(Len(walkQueue) + 1)
      /\ \A i \in 1..Len(walkQueue) : walkQueue'[i] = walkQueue[i]
      /\ walkQueue'[Len(walkQueue) + 1] = item
  <2>1. walkQueue' = Append(walkQueue, item)
    BY DEF item
  <2>2. /\ walkQueue' \in Seq(ItemType) /\ Len(walkQueue') = Len(walkQueue) + 1
        /\ \A i \in 1..Len(walkQueue) : walkQueue'[i] = walkQueue[i]
        /\ walkQueue'[Len(walkQueue) + 1] = item
    <3>1. /\ Append(walkQueue, item) \in Seq(ItemType)
          /\ Len(Append(walkQueue, item)) = Len(walkQueue) + 1
          /\ \A i \in 1..Len(walkQueue) : Append(walkQueue, item)[i] = walkQueue[i]
          /\ Append(walkQueue, item)[Len(walkQueue) + 1] = item
      BY <1>2, AppendProperties
    <3> QED BY <2>1, <3>1
  <2> QED BY <2>2, <1>2, LenProperties
<1>5. \A i \in 1..Len(walkQueue) :
         /\ ByLink(walkQueue[i]) /\ walkQueue[i].base # walking.base
         /\ \A m \in named : ~BaseOf(walkQueue[i].base, m.name)
         /\ \A j \in 1..Len(walkQueue) : walkQueue[j].base = walkQueue[i].base => j = i
  BY <1>4 DEF ItemsInv
<1>6. \A i \in 1..Len(walkQueue) : walkQueue[i].base \in Seq(Entries) /\ walkQueue[i].base # NameOf(l)
  <2> SUFFICES ASSUME NEW i \in 1..Len(walkQueue)
               PROVE  walkQueue[i].base \in Seq(Entries) /\ walkQueue[i].base # NameOf(l)
    OBVIOUS
  <2>1. walkQueue[i] \in ItemType
    BY <1>2, ElementOfSeq
  <2>2. IsNamed(walkQueue[i].base)
    BY <1>5 DEF ByLink
  <2>3. walkQueue[i].base # NameOf(l)
    BY <2>2, <1>1
  <2> QED BY <2>1, <2>3 DEF ItemType
<1>7. \A m \in named : ~BaseOf(NameOf(l), m.name)
  <2> SUFFICES ASSUME NEW m \in named, BaseOf(NameOf(l), m.name) PROVE FALSE
    OBVIOUS
  <2> DEFINE name == NameOf(l)
  <2>1. name \in Seq(Entries) /\ name # << >> /\ ~IsNamed(name) /\ BaseOf(name, m.name)
    BY <1>1
  <2> HIDE DEF name
  <2>2. m.name \in Seq(Entries)
    BY DEF WalkTypeOK, NamedType
  <2>3. Len(name) \in Nat \ {0} /\ Len(m.name) \in Nat
    BY <2>1, <2>2, EmptySeq, LenProperties
  <2>4. Splits(m.name, Len(name)) /\ SubSeq(m.name, 1, Len(name)) = name
    BY <2>1 DEF BaseOf
  <2>5. Len(name) \in Nat /\ Len(name) # 0 /\ Len(name) \in 0..(Len(m.name) - 1)
    BY <2>3, <2>4 DEF Splits
  <2>6. Len(name) \in 1..Len(m.name)
    BY <2>3, <2>5
  <2>7. IsNamed(SubSeq(m.name, 1, Len(name)))
    BY <2>4, <2>6 DEF NamesInv
  <2> QED BY <2>1, <2>4, <2>7
<1>8. \A m \in named' : m \in named \/ m.name = NameOf(l)
  OBVIOUS
<1>9. ByLink(item)'
  <2>1. [name |-> NameOf(l), is |-> linkTo[l]] \in named'
    OBVIOUS
  <2>2. item' = item
    <3>1. walkQueue' = Append(walkQueue, item)
      BY DEF item
    <3> QED BY DEF item, Item, NameOf
  <2>3. \E m \in named' : m.name = NameOf(l)
    BY <2>1
  <2> QED BY <2>2, <2>3, <1>1, <1>3 DEF ByLink, IsNamed, Directly
<1>10. ASSUME NEW i \in 1..Len(walkQueue)
       PROVE  /\ ByLink(walkQueue[i])' /\ walkQueue'[i].base # walking'.base
              /\ \A m \in named' : ~BaseOf(walkQueue'[i].base, m.name)
              /\ \A j \in DOMAIN walkQueue' : walkQueue'[j].base = walkQueue'[i].base => j = i
  <2>1. walkQueue'[i] = walkQueue[i] /\ ByLink(walkQueue[i])
    BY <1>4, <1>5
  <2>2. ByLink(walkQueue[i])'
    BY <2>1 DEF ByLink, IsNamed
  <2>3. ~BaseOf(walkQueue[i].base, NameOf(l))
    BY <1>1, <1>2, <1>5, <1>6, BaseIsUnique
  <2>4. \A m \in named' : ~BaseOf(walkQueue'[i].base, m.name)
    BY <2>1, <2>3, <1>5, <1>8
  <2>5. ASSUME NEW j \in DOMAIN walkQueue', walkQueue'[j].base = walkQueue'[i].base PROVE j = i
    <3>1. CASE j = Len(walkQueue) + 1
      BY <3>1, <2>1, <2>5, <1>3, <1>4, <1>6
    <3>2. CASE j \in 1..Len(walkQueue)
      BY <3>2, <2>1, <2>5, <1>4, <1>5
    <3> QED BY <3>1, <3>2, <1>4
  <2> QED BY <2>1, <2>2, <2>4, <2>5, <1>5
<1>11. LET i == Len(walkQueue) + 1
       IN  /\ walkQueue'[i].base # walking'.base
           /\ \A m \in named' : ~BaseOf(walkQueue'[i].base, m.name)
           /\ \A j \in DOMAIN walkQueue' : walkQueue'[j].base = walkQueue'[i].base => j = i
  <2>1. walkQueue'[Len(walkQueue) + 1].base = NameOf(l)
    BY <1>3, <1>4
  <2>2. \A m \in named' : ~BaseOf(NameOf(l), m.name)
    BY <1>1, <1>7, <1>8, NotItsOwnBase
  <2>3. ASSUME NEW j \in DOMAIN walkQueue', walkQueue'[j].base = NameOf(l)
        PROVE  j = Len(walkQueue) + 1
    <3>1. j \notin 1..Len(walkQueue)
      BY <2>3, <1>4, <1>6
    <3> QED BY <3>1, <1>4
  <2> QED BY <2>1, <2>2, <2>3, <1>1
<1>12. ByStart(walking) => ByStart(walking)'
  BY DEF ByStart
<1>13. ByLink(walking) => ByLink(walking)'
  BY DEF ByLink, IsNamed
<1>14. ASSUME NEW i \in DOMAIN walkQueue'
       PROVE  /\ ByLink(walkQueue[i])' /\ walkQueue'[i].base # walking'.base
              /\ \A m \in named' : ~BaseOf(walkQueue'[i].base, m.name)
              /\ \A j \in DOMAIN walkQueue' : walkQueue'[j].base = walkQueue'[i].base => j = i
  <2>1. CASE i \in 1..Len(walkQueue)
    BY <2>1, <1>10
  <2>2. CASE i = Len(walkQueue) + 1
    <3>1. walkQueue'[i] = item
      BY <2>2, <1>4
    <3>2. item' = item
      BY DEF item, Item, NameOf
    <3>3. ByLink(walkQueue[i])'
      BY <3>1, <3>2, <1>9 DEF ByLink
    <3> QED BY <2>2, <3>3, <1>11
  <2>3. i \in 1..Len(walkQueue) \/ i = Len(walkQueue) + 1
    <3>1. i \in 1..(Len(walkQueue) + 1) /\ Len(walkQueue) \in Nat
      BY <1>4
    <3> QED BY <3>1
  <2> QED BY <2>1, <2>2, <2>3
<1>15. ~Plain' /\ (~options.recursive => Start \notin pending)'
       /\ (ByStart(walking) \/ ByLink(walking))' /\ (pending \subseteq Under(walking.at))'
  BY <1>12, <1>13 DEF ItemsInv, Plain
<1> QED BY <1>14, <1>15 DEF ItemsInv

LEMMA FollowToFolderInv ==
  ASSUME WalkInv, NEW l \in Links, FollowToFolder(l)
  PROVE  WalkInv'
<1> DEFINE dir == linkTo[l]
           n == [name |-> NameOf(l), is |-> dir]
           item == Item(dir, NameOf(l), TRUE)
<1>1. WalkTypeOK /\ ItemsInv /\ NamesInv /\ OnceInv /\ WholeInv /\ DoneInv
  BY DEF WalkInv
<1>2. /\ dir \in Folders /\ Comes(l) /\ options.followSymlinks /\ dir # Nowhere
      /\ options.recursive /\ pending' = pending \ {l} /\ l \in pending /\ walkEnds = "no"
      /\ UNCHANGED <<linkTo, options, rejected, walking, walkEnds>>
  BY DEF FollowToFolder, Follows, Comes
<1>3. l \in Under(walking.at) /\ l \in Entries /\ l # walking.at /\ dir \in Entries
      /\ dir \notin Leaves /\ dir \notin Links
  BY <1>1, <1>2, LinksAreApart DEF ItemsInv, WalkTypeOK, ItemType
<1>4. TargetPath(l) = Directly(dir) /\ Directly(dir) \in SeenType /\ Directly(dir).entry = dir
  BY <1>3 DEF TargetPath, Directly, SeenType
<1>5. CASE Directly(dir) \in seenPaths \/ l \in rejected
  <2>1. UNCHANGED <<walkQueue, seenPaths, named, repeated>>
    BY <1>4, <1>5 DEF FollowToFolder
  <2>2. Handled(l)
    BY <1>3, <1>5 DEF Handled
  <2> QED BY <2>1, <2>2, <1>2, PassesInv
<1>6. CASE ~(Directly(dir) \in seenPaths \/ l \in rejected)
  <2>1. /\ HandOver(l, dir) /\ Record({Directly(dir), PathOfFound(l)})
        /\ walkQueue' = Append(walkQueue, item)
    BY <1>4, <1>6 DEF FollowToFolder, NameOf
  <2>2. named' = named \cup {n} /\ repeated' = (repeated \/ IsNamed(NameOf(l)))
    BY <2>1, <1>6, HandsOver
  <2>3. PathOfFound(l) \in SeenType /\ PathOfFound(l).entry = l
    <3>1. walking.direct \in BOOLEAN
      BY <1>1 DEF WalkTypeOK, ItemType
    <3> QED BY <3>1, <1>3 DEF PathOfFound, SeenType
  <2>4. seenPaths' = seenPaths \cup {Directly(dir), PathOfFound(l)}
    BY <2>1, <1>2 DEF Record
  <2>5. ~Plain
    BY <1>2 DEF Plain
  <2>6. NameOf(l) \in Seq(Entries)
    BY <1>1, <1>2, <1>3, ComesUnderNewName
  <2>7. n.name = NameOf(l) /\ n.is = dir /\ n \in NamedType
    BY <2>6, <1>2 DEF NamedType
  <2>8. NamesInv'
    BY <1>1, <1>2, <1>3, <2>2, NamesStep
  <2>9. ItemsInv'
    <3>1. seenPaths \subseteq seenPaths' /\ Directly(dir) \in seenPaths'
      BY <2>4
    <3> QED BY <1>1, <1>2, <2>1, <2>2, <2>5, <3>1, FollowToFolderItems
  <2>10. item \in ItemType /\ item.at = dir
    BY <2>6, <1>2 DEF Item, ItemType
  <2> HIDE DEF item, n
  <2>11. /\ walkQueue' \in Seq(ItemType)
         /\ DOMAIN walkQueue' = 1..(Len(walkQueue) + 1) /\ DOMAIN walkQueue = 1..Len(walkQueue)
         /\ \A i \in 1..Len(walkQueue) : walkQueue'[i] = walkQueue[i]
         /\ walkQueue'[Len(walkQueue) + 1] = item /\ Len(walkQueue) \in Nat
    <3>1. walkQueue \in Seq(ItemType)
      BY <1>1 DEF WalkTypeOK
    <3>2. /\ Append(walkQueue, item) \in Seq(ItemType)
          /\ Len(Append(walkQueue, item)) = Len(walkQueue) + 1
          /\ \A i \in 1..Len(walkQueue) : Append(walkQueue, item)[i] = walkQueue[i]
          /\ Append(walkQueue, item)[Len(walkQueue) + 1] = item
      BY <3>1, <2>10, AppendProperties
    <3>3. DOMAIN Append(walkQueue, item) = 1..(Len(walkQueue) + 1)
      BY <3>2, LenProperties
    <3>4. Len(walkQueue) \in Nat /\ DOMAIN walkQueue = 1..Len(walkQueue)
      BY <3>1, LenProperties
    <3> QED BY <2>1, <3>2, <3>3, <3>4
  <2>12. WalkTypeOK'
    <3>1. repeated' \in BOOLEAN
      BY <2>2
    <3>2. named' \subseteq NamedType
      BY <2>2, <2>7, <1>1 DEF WalkTypeOK
    <3>3. seenPaths' \subseteq SeenType
      BY <2>3, <2>4, <1>1, <1>4 DEF WalkTypeOK
    <3>4. /\ linkTo' \in [Links -> LinkTargets] /\ options' \in OptionsType
          /\ walking' \in ItemType /\ pending' \subseteq Entries
          /\ walkEnds' \in {"no", "done", "failed"}
      BY <1>1, <1>2 DEF WalkTypeOK
    <3> QED BY <3>1, <3>2, <3>3, <3>4, <2>11 DEF WalkTypeOK
  <2>13. OnceInv'
    <3>1. Directly(n.is) \notin seenPaths /\ Directly(n.is) \in seenPaths'
          /\ seenPaths \subseteq seenPaths'
      BY <2>4, <2>7, <1>6
    <3> QED BY <3>1, <1>1, <1>2, <2>2, <2>5, OnceStep
  <2>14. WholeInv'
    <3>1. Handled(l)'
      <4>1. Directly(dir) \in seenPaths'
        BY <2>4
      <4> QED BY <4>1, <1>2, <1>3 DEF Handled, Directly
    <3>2. l \in ToBeFound
      BY <1>1, <1>2, <1>3 DEF WholeInv
    <3>3. Under(dir) \subseteq ToBeFound /\ dir \in ToBeFound
      BY <3>2, <1>2, <1>3, <1>6, LinksAreToBeFollowed, UnderItself
    <3>4. \A i \in DOMAIN walkQueue : i \in DOMAIN walkQueue' /\ walkQueue'[i] = walkQueue[i]
      BY <2>11
    <3>5. \A m \in named' : m \in named \/ m.is \in ToBeFound
      BY <2>2, <2>7, <3>3
    <3>6. \A i \in DOMAIN walkQueue' : Under(walkQueue'[i].at) \subseteq ToBeFound
      <4> SUFFICES ASSUME NEW i \in DOMAIN walkQueue' PROVE Under(walkQueue'[i].at) \subseteq ToBeFound
        OBVIOUS
      <4>1. CASE i = Len(walkQueue) + 1
        BY <4>1, <2>10, <2>11, <3>3
      <4>2. CASE i \in DOMAIN walkQueue
        BY <4>2, <2>11, <1>1, <1>2 DEF WholeInv
      <4>3. i \in 1..(Len(walkQueue) + 1) /\ Len(walkQueue) \in Nat
        BY <2>11
      <4>4. i \in 1..Len(walkQueue) \/ i = Len(walkQueue) + 1
        BY <4>3
      <4> QED BY <4>1, <4>2, <4>4, <2>11
    <3>7. \A p \in seenPaths' : p \in seenPaths \/ p.entry \in Links \/ NamesOf(p.entry)' # {}
      <4>1. n \in named' /\ n.is = dir
        BY <2>2, <2>7
      <4>2. n \in NamesOf(dir)'
        BY <4>1, <1>2 DEF NamesOf
      <4> SUFFICES ASSUME NEW p \in seenPaths', p \notin seenPaths, p.entry \notin Links
                   PROVE  NamesOf(p.entry)' # {}
        OBVIOUS
      <4>3. p.entry = dir
        BY <2>3, <2>4, <1>4
      <4>4. n \in {m \in named' : m.is = p.entry}
        BY <4>1, <4>3
      <4> QED BY <4>4 DEF NamesOf
    <3>8. \A x \in Folders : Directly(x) \in seenPaths' =>
             \/ Directly(x) \in seenPaths \/ x \in Under(walking.at)
             \/ \E i \in DOMAIN walkQueue' : walkQueue'[i].at = x
      <4> SUFFICES ASSUME NEW x \in Folders, Directly(x) \in seenPaths', Directly(x) \notin seenPaths
                   PROVE  \E i \in DOMAIN walkQueue' : walkQueue'[i].at = x
        OBVIOUS
      <4>1. Directly(x).entry = x
        BY DEF Directly
      <4>2. x \notin Links
        BY LinksAreApart
      <4>3. x = dir
        BY <4>1, <4>2, <2>3, <2>4, <1>4
      <4>4. Len(walkQueue) + 1 \in DOMAIN walkQueue'
        BY <2>11
      <4> QED BY <4>3, <4>4, <2>10, <2>11
    <3>9. named \subseteq named' /\ seenPaths \subseteq seenPaths'
      BY <2>2, <2>4
    <3> QED BY <1>1, <1>2, <3>1, <3>4, <3>5, <3>6, <3>7, <3>8, <3>9, WholeStep
  <2>15. DoneInv'
    BY <1>2 DEF DoneInv
  <2> QED BY <2>8, <2>9, <2>12, <2>13, <2>14, <2>15 DEF WalkInv
<1> QED BY <1>5, <1>6

LEMMA NextItemInv ==
  ASSUME WalkInv, NextItem
  PROVE  WalkInv'
<1>1. WalkTypeOK /\ ItemsInv /\ NamesInv /\ OnceInv /\ WholeInv /\ DoneInv
  BY DEF WalkInv
<1>2. /\ walkEnds = "no" /\ options.recursive /\ pending = {} /\ walkQueue # << >>
      /\ walking' = Head(walkQueue) /\ walkQueue' = Tail(walkQueue)
      /\ pending' = Under(walking'.at)
      /\ UNCHANGED <<linkTo, options, rejected, seenPaths, named, walkEnds, repeated>>
  BY DEF NextItem
<1>3. walkQueue \in Seq(ItemType)
  BY <1>1 DEF WalkTypeOK
<1>4. /\ walking' \in ItemType /\ walking' = walkQueue[1] /\ 1 \in DOMAIN walkQueue
      /\ walkQueue' \in Seq(ItemType) /\ Len(walkQueue) \in Nat
      /\ DOMAIN walkQueue = 1..Len(walkQueue) /\ DOMAIN walkQueue' = 1..(Len(walkQueue) - 1)
      /\ \A i \in 1..(Len(walkQueue) - 1) : walkQueue'[i] = walkQueue[i + 1]
  <2>1. Len(walkQueue) \in Nat \ {0}
    BY <1>2, <1>3, EmptySeq
  <2>2. Head(walkQueue) \in ItemType /\ Tail(walkQueue) \in Seq(ItemType)
        /\ Len(Tail(walkQueue)) = Len(walkQueue) - 1
        /\ \A i \in 1..Len(Tail(walkQueue)) : Tail(walkQueue)[i] = walkQueue[i + 1]
    BY <1>2, <1>3, HeadTailProperties
  <2>3. Head(walkQueue) = walkQueue[1]
    BY <1>2, <1>3
  <2>4. DOMAIN Tail(walkQueue) = 1..Len(Tail(walkQueue)) /\ DOMAIN walkQueue = 1..Len(walkQueue)
    BY <2>2, <1>3, LenProperties
  <2>5. 1 \in 1..Len(walkQueue) /\ Len(walkQueue) \in Nat
    <3>1. Len(walkQueue) \in Nat /\ Len(walkQueue) # 0
      BY <2>1
    <3> QED BY <3>1
  <2>6. walking' \in ItemType /\ walking' = walkQueue[1] /\ 1 \in DOMAIN walkQueue
        /\ walkQueue' \in Seq(ItemType)
    BY <1>2, <2>2, <2>3, <2>4, <2>5
  <2>7. DOMAIN walkQueue' = 1..(Len(walkQueue) - 1)
        /\ \A i \in 1..(Len(walkQueue) - 1) : walkQueue'[i] = walkQueue[i + 1]
    BY <1>2, <2>2, <2>4
  <2> QED BY <2>4, <2>5, <2>6, <2>7
<1>5. \A i \in DOMAIN walkQueue :
         /\ ByLink(walkQueue[i]) /\ walkQueue[i].base # walking.base
         /\ \A m \in named : ~BaseOf(walkQueue[i].base, m.name)
         /\ \A j \in DOMAIN walkQueue : walkQueue[j].base = walkQueue[i].base => j = i
  BY <1>1 DEF ItemsInv
<1>6. ByLink(walking)' /\ walking'.base # << >>
      /\ \A m \in named : ~BaseOf(walking'.base, m.name)
  <2>1. ByLink(walkQueue[1]) /\ \A m \in named : ~BaseOf(walkQueue[1].base, m.name)
    BY <1>4, <1>5
  <2>2. ByLink(walking)' /\ walking'.base # << >>
    BY <2>1, <1>2, <1>4 DEF ByLink, IsNamed
  <2> QED BY <2>1, <2>2, <1>4
<1>7. WalkTypeOK'
  BY <1>1, <1>2, <1>4 DEF WalkTypeOK, Under
<1>8. ASSUME NEW i \in DOMAIN walkQueue'
      PROVE  /\ ByLink(walkQueue[i])' /\ walkQueue'[i].base # walking'.base
             /\ \A m \in named' : ~BaseOf(walkQueue'[i].base, m.name)
             /\ \A j \in DOMAIN walkQueue' : walkQueue'[j].base = walkQueue'[i].base => j = i
  <2>1. /\ i \in Int /\ i + 1 \in DOMAIN walkQueue /\ i + 1 # 1 /\ walkQueue'[i] = walkQueue[i + 1]
    BY <1>4
  <2>2. ByLink(walkQueue[i + 1])
    BY <2>1, <1>5
  <2>3. ByLink(walkQueue[i])'
    BY <2>1, <2>2, <1>2 DEF ByLink, IsNamed
  <2>4. walkQueue'[i].base # walking'.base
    <3>1. walkQueue[i + 1].base # walkQueue[1].base
      BY <2>1, <1>4, <1>5
    <3> QED BY <3>1, <2>1, <1>4
  <2>5. \A m \in named' : ~BaseOf(walkQueue'[i].base, m.name)
    BY <2>1, <1>2, <1>5
  <2>6. ASSUME NEW j \in DOMAIN walkQueue', walkQueue'[j].base = walkQueue'[i].base PROVE j = i
    <3>1. j \in Int /\ j + 1 \in DOMAIN walkQueue /\ walkQueue'[j] = walkQueue[j + 1]
      BY <1>4
    <3>2. j + 1 = i + 1
      BY <3>1, <2>1, <2>6, <1>5
    <3> QED BY <3>1, <3>2, <2>1
  <2> QED BY <2>3, <2>4, <2>5, <2>6
<1>9. ItemsInv'
  <2>1. ~Plain'
    BY <1>1, <1>2 DEF ItemsInv, Plain
  <2> QED BY <2>1, <1>2, <1>6, <1>8 DEF ItemsInv
<1>10. NamesInv'
  <2>1. \A name : IsNamed(name)' <=> IsNamed(name)
    BY <1>2 DEF IsNamed
  <2> QED BY <2>1, <1>1, <1>2, <1>6 DEF NamesInv
<1>11. OnceInv'
  BY <1>1, <1>2, OnceStay
<1>12. WholeInv'
  <2>1. /\ \A m \in named : m.is \in ToBeFound
        /\ \A i \in DOMAIN walkQueue : Under(walkQueue[i].at) \subseteq ToBeFound
        /\ \A p \in seenPaths : p.entry \notin Links => NamesOf(p.entry) # {}
        /\ Covered(Under(Start))
        /\ \A dir \in Folders : Directly(dir) \in seenPaths => Covered(Under(dir))
    BY <1>1, <1>2 DEF WholeInv
  <2>2. ToBeFound' = ToBeFound
    BY <1>2, ToBeFoundStays
  <2>3. \A x : Handled(x) => Handled(x)'
    BY <1>2, HandledStays
  <2>4. ASSUME NEW found, Covered(found) PROVE Covered(found)'
    <3>1. ASSUME NEW x \in found
          PROVE  Handled(x)' \/ x \in pending' \/ \E i \in DOMAIN walkQueue' : x \in Under(walkQueue'[i].at)
      <4>1. CASE Handled(x)
        BY <4>1, <2>3
      <4>2. CASE \E i \in DOMAIN walkQueue : x \in Under(walkQueue[i].at)
        <5>1. PICK i \in DOMAIN walkQueue : x \in Under(walkQueue[i].at)
          BY <4>2
        <5>2. CASE i = 1
          BY <5>1, <5>2, <1>2, <1>4
        <5>3. CASE i # 1
          <6>1. i - 1 \in DOMAIN walkQueue' /\ i - 1 \in 1..(Len(walkQueue) - 1) /\ (i - 1) + 1 = i
            BY <5>3, <1>4
          <6>2. walkQueue'[i - 1] = walkQueue[i]
            BY <6>1, <1>4
          <6> QED BY <5>1, <6>1, <6>2
        <5> QED BY <5>2, <5>3
      <4> QED BY <4>1, <4>2, <2>4, <1>2 DEF Covered
    <3> QED BY <3>1 DEF Covered
  <2>5. \A p \in seenPaths' : p.entry \notin Links => NamesOf(p.entry)' # {}
    BY <2>1, <1>2 DEF NamesOf
  <2>6. \A i \in DOMAIN walkQueue' : Under(walkQueue'[i].at) \subseteq ToBeFound
    <3> SUFFICES ASSUME NEW i \in DOMAIN walkQueue' PROVE Under(walkQueue'[i].at) \subseteq ToBeFound
      OBVIOUS
    <3>1. i + 1 \in DOMAIN walkQueue /\ walkQueue'[i] = walkQueue[i + 1]
      BY <1>4
    <3> QED BY <3>1, <2>1
  <2>7. Under(walking'.at) \subseteq ToBeFound
    BY <2>1, <1>4
  <2>8. Covered(Under(Start))'
    BY <2>1, <2>4
  <2>9. \A dir \in Folders : (Directly(dir) \in seenPaths)' => Covered(Under(dir))'
    BY <2>1, <2>4, <1>2 DEF Directly
  <2> QED BY <2>1, <2>2, <2>5, <2>6, <2>7, <2>8, <2>9, <1>2 DEF WholeInv
<1>13. DoneInv'
  BY <1>2 DEF DoneInv
<1> QED BY <1>7, <1>9, <1>10, <1>11, <1>12, <1>13 DEF WalkInv

LEMMA ListOneInv ==
  ASSUME WalkInv, NEW e \in pending, ListOne(e)
  PROVE  WalkInv'
<1> DEFINE followed == e \in Links /\ options.followSymlinks
           what == IF followed THEN linkTo[e] ELSE e
           n == [name |-> NameOf(e), is |-> what]
<1>1. WalkTypeOK /\ ItemsInv /\ NamesInv /\ OnceInv /\ WholeInv /\ DoneInv
  BY DEF WalkInv
<1>2. /\ walkEnds = "no" /\ ~options.recursive /\ pending' = pending \ {e}
      /\ walkEnds' \in {"no", "failed"}
      /\ IF what \in Leaves THEN HandOver(e, what) ELSE UNCHANGED <<named, repeated>>
      /\ UNCHANGED <<linkTo, options, rejected, walkQueue, walking, seenPaths>>
  BY DEF ListOne
<1>3. Plain /\ ByStart(walking) /\ walking.base = << >> /\ walking.at = Start /\ e # Start
  BY <1>1, <1>2 DEF Plain, ItemsInv, ByStart
<1>4. WholeInv' /\ DoneInv'
  BY <1>2 DEF WholeInv, DoneInv
<1>5. CASE named' = named /\ repeated' = repeated
  <2>1. WalkTypeOK'
    BY <1>1, <1>2, <1>5 DEF WalkTypeOK
  <2>2. ItemsInv'
    BY <1>1, <1>2, <1>5, ItemsStay
  <2>3. NamesInv'
    BY <1>1, <1>2, <1>5, NamesStay
  <2>4. OnceInv'
    BY <1>1, <1>2, <1>5, OnceStay
  <2> QED BY <1>4, <2>1, <2>2, <2>3, <2>4 DEF WalkInv
<1>6. CASE what \in Leaves /\ e \notin rejected
  <2>1. named' = named \cup {n} /\ repeated' = (repeated \/ IsNamed(NameOf(e)))
    BY <1>2, <1>6, HandsOver
  <2>2. NameOf(e) \in Seq(Entries) /\ NameOf(e) # << >> /\ Last(NameOf(e)) = e
    BY <1>1, <1>3, ComesUnderNewName
  <2>3. NamesInv'
    BY <1>1, <1>2, <1>3, <2>1, NamesStep
  <2>4. ItemsInv'
    BY <1>1, <1>2, <1>3, <2>1, ItemsStep
  <2>5. n \in NamedType /\ n.name = NameOf(e) /\ n.is = what
    BY <1>6, <2>2 DEF NamedType
  <2>6. CountsFor(n) => n.name = NameFrom(Start, n.is)
    <3>1. CASE followed
      <4>1. e \in Links
        BY <3>1
      <4> HIDE DEF followed
      <4>2. what = linkTo[e]
        BY <3>1
      <4> HIDE DEF what
      <4>3. what \notin Folders /\ what # e
        BY <4>1, <1>6, LinksAreApart
      <4> HIDE DEF n
      <4>4. ~CountsFor(n)
        BY <4>3, <2>2, <2>5 DEF CountsFor, ByItself
      <4> QED BY <4>4
    <3>2. CASE ~followed
      <4>1. what = e /\ e \in Under(Start)
        BY <3>2, <1>1, <1>3 DEF ItemsInv
      <4>2. NameFrom(Start, e) \in Seq(Entries)
        BY <4>1, NameFromFacts, LocalWalkAssumption, LinksAreApart
      <4>3. NameOf(e) = NameFrom(Start, e)
        BY <4>2, <1>3, ConcatEmptySeq DEF NameOf
      <4> HIDE DEF what, n
      <4> QED BY <4>1, <4>3, <2>5
    <3> QED BY <3>1, <3>2
  <2> HIDE DEF n, what
  <2>7. OnceInv'
    BY <1>1, <1>2, <1>3, <2>1, <2>6, OnceStep
  <2>8. WalkTypeOK'
    <3>1. named' \subseteq NamedType /\ repeated' \in BOOLEAN
      BY <2>1, <2>5, <1>1 DEF WalkTypeOK
    <3> QED BY <3>1, <1>1, <1>2 DEF WalkTypeOK
  <2> QED BY <1>4, <2>3, <2>4, <2>7, <2>8 DEF WalkInv
<1>7. CASE ~(what \in Leaves /\ e \notin rejected)
  <2>1. named' = named /\ repeated' = repeated
    BY <1>2, <1>7 DEF HandOver
  <2> QED BY <2>1, <1>5
<1> QED BY <1>6, <1>7

LEMMA WalkReturnsInv ==
  ASSUME WalkInv, WalkReturns
  PROVE  WalkInv'
<1>1. WalkTypeOK /\ ItemsInv /\ NamesInv /\ OnceInv /\ WholeInv
  BY DEF WalkInv
<1>2. /\ pending = {} /\ walkQueue = << >> /\ walkEnds' = "done"
      /\ UNCHANGED <<linkTo, options, rejected, walkQueue, walking, pending, seenPaths, named,
                     repeated>>
  BY DEF WalkReturns
<1>3. WalkTypeOK' /\ ItemsInv' /\ NamesInv' /\ OnceInv' /\ DoneInv'
  <2>1. WalkTypeOK'
    BY <1>1, <1>2 DEF WalkTypeOK
  <2>2. ItemsInv' /\ NamesInv' /\ OnceInv'
    BY <1>1, <1>2, ItemsStay, NamesStay, OnceStay
  <2>3. DoneInv'
    BY <1>2 DEF DoneInv
  <2> QED BY <2>1, <2>2, <2>3
<1>4. WholeInv'
  <2>1. ToBeFound' = ToBeFound
    BY <1>2, ToBeFoundStays
  <2>2. \A x : Handled(x)' <=> Handled(x)
    BY <1>2 DEF Handled, NamesOf, Directly
  <2>3. \A found : Covered(found)' <=> Covered(found)
    BY <1>2, <2>2 DEF Covered
  <2> QED BY <1>1, <1>2, <2>1, <2>2, <2>3 DEF WholeInv, NamesOf, Directly
<1> QED BY <1>3, <1>4 DEF WalkInv

LEMMA WalkStutters ==
  ASSUME WalkInv, UNCHANGED walkVars
  PROVE  WalkInv'
<1>1. WalkTypeOK /\ ItemsInv /\ NamesInv /\ OnceInv /\ WholeInv /\ DoneInv
  BY DEF WalkInv
<1>2. UNCHANGED <<linkTo, options, rejected, walkQueue, walking, pending, seenPaths, named,
                  walkEnds, repeated>>
  BY DEF walkVars
<1>3. WalkTypeOK' /\ DoneInv'
  BY <1>1, <1>2 DEF WalkTypeOK, DoneInv
<1>4. ItemsInv' /\ NamesInv' /\ OnceInv'
  BY <1>1, <1>2, ItemsStay, NamesStay, OnceStay
<1>5. WholeInv'
  <2>1. ToBeFound' = ToBeFound
    BY <1>2, ToBeFoundStays
  <2>2. \A x : Handled(x)' <=> Handled(x)
    BY <1>2 DEF Handled, NamesOf, Directly
  <2>3. \A found : Covered(found)' <=> Covered(found)
    BY <1>2, <2>2 DEF Covered
  <2> QED BY <1>1, <1>2, <2>1, <2>2, <2>3 DEF WholeInv, NamesOf, Directly
<1> QED BY <1>3, <1>4, <1>5 DEF WalkInv

(* At the end what was handled is closed under links, so everything that   *)
(* is to be found was handled.                                             *)
LEMMA AllIsHandled ==
  ASSUME WalkInv, walkEnds = "done", options.recursive, NEW e \in ToBeFound
  PROVE  Handled(e)
<1> DEFINE found == {x \in Entries : Handled(x)}
<1>1. pending = {} /\ DOMAIN walkQueue = {}
  BY DEF WalkInv, DoneInv
<1>2. \A some : Covered(some) => \A x \in some : Handled(x)
  BY <1>1 DEF Covered
<1>3. Under(Start) \subseteq found
  <2>1. \A x \in Under(Start) : Handled(x) /\ x \in Entries
    BY <1>2 DEF WalkInv, WholeInv, Under
  <2> QED BY <2>1
<1>4. ASSUME NEW l \in (found \cap Links) \ rejected, options.followSymlinks, linkTo[l] # Nowhere
      PROVE  Under(linkTo[l]) \subseteq found
  <2>1. linkTo[l] \in Folders \/ linkTo[l] \in Leaves
    BY <1>4, LocalWalkAssumption DEF WalkInv, WalkTypeOK
  <2>2. /\ linkTo[l] \in Folders => Directly(linkTo[l]) \in seenPaths
        /\ linkTo[l] \in Leaves => NamesOf(linkTo[l]) # {}
    BY <1>4 DEF Handled
  <2>3. CASE linkTo[l] \in Folders
    <3>1. \A x \in Under(linkTo[l]) : Handled(x) /\ x \in Entries
      BY <1>2, <2>2, <2>3 DEF WalkInv, WholeInv, Under
    <3> QED BY <3>1
  <2>4. CASE linkTo[l] \in Leaves
    <3>1. Handled(linkTo[l]) /\ linkTo[l] \in Entries
      BY <2>2, <2>4, LinksAreApart DEF Handled
    <3>2. \A x \in Under(linkTo[l]) : x = linkTo[l]
      BY <2>4, UnderLeaf
    <3> QED BY <3>1, <3>2
  <2> QED BY <2>1, <2>3, <2>4
<1>5. ClosedUnderLinks(found)
  <2> HIDE DEF found
  <2> QED BY <1>4 DEF ClosedUnderLinks
<1>6. e \in found
  <2>1. found \in SUBSET Entries
    OBVIOUS
  <2> HIDE DEF found
  <2> QED BY <1>3, <1>5, <2>1 DEF ToBeFound
<1> QED BY <1>6

(* One at most, or two of which one is as it is found from the start.      *)
OneBut(S, first) == \A x, y \in S : x # first /\ y # first => x = y

LEMMA OneOrTwo ==
  ASSUME NEW S, NEW first, OneBut(S, first)
  PROVE  Cardinality(S) \in Nat /\ Cardinality(S) <= 2 /\ (first \notin S => Cardinality(S) <= 1)
<1> USE DEF OneBut
<1>0. IsFiniteSet({}) /\ Cardinality({}) = 0
  BY FS_EmptySet
<1>1. \A x : IsFiniteSet({x}) /\ Cardinality({x}) = 1
  BY FS_Singleton
<1>2. CASE \E x \in S : x # first
  <2>1. PICK x \in S : x # first
    BY <1>2
  <2>2. CASE first \in S
    <3>1. S = {x} \cup {first}
      BY <2>1, <2>2
    <3>2. Cardinality({x} \cup {first}) = 2
      <4>1. first \notin {x} /\ IsFiniteSet({x}) /\ Cardinality({x}) = 1
        BY <1>1, <2>1
      <4> DEFINE one == {x}
      <4>2. first \notin one /\ IsFiniteSet(one) /\ Cardinality(one) = 1
        BY <4>1
      <4> HIDE DEF one
      <4>3. Cardinality(one \cup {first}) = 1 + 1
        BY <4>2, FS_AddElement
      <4> QED BY <4>3 DEF one
    <3> QED BY <3>1, <3>2, <2>2
  <2>3. CASE first \notin S
    <3>1. S = {x}
      BY <2>1, <2>3
    <3> QED BY <3>1, <1>1
  <2> QED BY <2>2, <2>3
<1>3. CASE ~ \E x \in S : x # first
  <2>1. S = {} \/ S = {first}
    BY <1>3
  <2> QED BY <2>1, <1>0, <1>1
<1> QED BY <1>2, <1>3

LEMMA HandedOverOnce ==
  ASSUME WalkInv, NEW e \in Folders \cup Leaves, NEW some \in SUBSET NamesOf(e),
         \A m \in some : CountsFor(m)
  PROVE  Cardinality(some) <= IF options.direct THEN 1 ELSE 2
<1> DEFINE first == [name |-> NameFrom(Start, e), is |-> e]
<1>1. \A m \in some : m \in named /\ m.is = e /\ m \in NamedType
  BY DEF NamesOf, WalkInv, WalkTypeOK
<1>2. \A m \in some : m.name = NameFrom(Start, e) => m = first
  BY <1>1 DEF NamedType
<1>3. CASE Plain
  <2>1. \A m \in some : m = first
    BY <1>1, <1>2, <1>3 DEF WalkInv, OnceInv
  <2> HIDE DEF first
  <2>2. some = {} \/ some = {first}
    BY <2>1
  <2>3. Cardinality(some) = 0 \/ Cardinality(some) = 1
    <3>1. Cardinality({}) = 0 /\ Cardinality({first}) = 1
      BY FS_EmptySet, FS_Singleton
    <3> QED BY <2>2, <3>1
  <2> QED BY <2>3
<1>4. CASE ~Plain
  <2>1. \A m, k \in some : Other(m) /\ Other(k) => m = k
    BY <1>1, <1>4 DEF WalkInv, OnceInv
  <2>2. CASE options.direct
    <3>1. \A m, k \in some : m = k
      BY <2>1, <2>2 DEF Other
    <3>2. some = {} \/ \E m : some = {m}
      BY <3>1
    <3>3. Cardinality(some) <= 1
      BY <3>2, FS_EmptySet, FS_Singleton
    <3> QED BY <3>3, <2>2
  <2>3. CASE ~options.direct
    <3>1. \A m \in some : m # first => Other(m)
      BY <1>1, <1>2 DEF Other
    <3> HIDE DEF first
    <3>2. OneBut(some, first)
      BY <2>1, <3>1 DEF OneBut
    <3>3. Cardinality(some) <= 2
      BY <3>2, OneOrTwo
    <3> QED BY <3>3, <2>3
  <2> QED BY <2>2, <2>3
<1> QED BY <1>3, <1>4

LEMMA WalkInvIsWhole == WalkInv => WalkIsWhole
<1> SUFFICES ASSUME WalkInv PROVE WalkIsWhole
  OBVIOUS
<1> DEFINE most == IF options.direct THEN 1 ELSE 2
<1>1. ~repeated
  BY DEF WalkInv, NamesInv
<1>2. ASSUME NEW e \in Folders PROVE Cardinality(NamesOf(e)) <= most
  <2>1. \A m \in NamesOf(e) : CountsFor(m)
    BY DEF NamesOf, CountsFor
  <2> QED BY <2>1, HandedOverOnce
<1>3. ASSUME NEW e \in Leaves PROVE Cardinality({n \in NamesOf(e) : ByItself(n)}) <= most
  <2> DEFINE some == {n \in NamesOf(e) : ByItself(n)}
  <2>1. some \in SUBSET NamesOf(e) /\ \A m \in some : CountsFor(m)
    BY DEF CountsFor
  <2> HIDE DEF some
  <2>2. Cardinality(some) <= most
    BY <2>1, HandedOverOnce
  <2> QED BY <2>2 DEF some
<1>4. ASSUME walkEnds = "done", options.recursive, NEW e \in (Folders \cup Leaves) \ rejected
      PROVE  e \in ToBeFound <=> NamesOf(e) # {}
  <2>1. ASSUME e \in ToBeFound PROVE NamesOf(e) # {}
    <3>1. Handled(e)
      BY <1>4, <2>1, AllIsHandled
    <3>2. e \notin Links
      BY LinksAreApart
    <3> QED BY <3>1, <3>2 DEF Handled
  <2>2. ASSUME NamesOf(e) # {} PROVE e \in ToBeFound
    BY <1>4, <2>2 DEF NamesOf, WalkInv, WholeInv
  <2> QED BY <2>1, <2>2
<1> QED BY <1>1, <1>2, <1>3, <1>4 DEF WalkIsWhole

(***************************************************************************)
(* cmd/zc_traverser_local.go: whatever the file system holds and wherever  *)
(* its links lead, no name is used twice, nothing is handed over more      *)
(* often than it should be, and a walk that is done has handed over        *)
(* exactly what can be reached and the filters let pass.                   *)
(***************************************************************************)
THEOREM LocalWalkIsWhole == WalkSpec => []WalkIsWhole
<1>1. WalkInv /\ [WalkNext]_walkVars => WalkInv'
  <2> SUFFICES ASSUME WalkInv, [WalkNext]_walkVars PROVE WalkInv'
    OBVIOUS
  <2>1. CASE NextItem
    BY <2>1, NextItemInv
  <2>2. CASE WalkReturns
    BY <2>2, WalkReturnsInv
  <2>3. CASE \E e \in pending : VisitEntry(e) \/ ListOne(e)
    BY <2>3, VisitEntryInv, ListOneInv
  <2>4. CASE \E l \in pending \cap Links : PassOver(l) \/ FollowToFolder(l) \/ FollowToFile(l)
    BY <2>4, PassOverInv, FollowToFolderInv, FollowToFileInv
  <2>5. CASE UNCHANGED walkVars
    BY <2>5, WalkStutters
  <2> QED BY <2>1, <2>2, <2>3, <2>4, <2>5 DEF WalkNext
<1>2. WalkInit => WalkInv
  BY WalkInitInv
<1> QED BY <1>1, <1>2, WalkInvIsWhole, PTL DEF WalkSpec

=============================================================================
