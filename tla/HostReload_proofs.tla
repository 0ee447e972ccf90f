-------------------------- MODULE HostReload_proofs --------------------------
(* Proofs about HostReload, for every number of host registers: the shuffle
   delivers every value, its assertion holds, and it ends. *)
EXTENDS HostReload, TLAPS, FiniteSetTheorems

(***************************** Basic facts ******************************)

(* The registers are finitely many, and differ from the other values. *)
LEMMA HostFacts ==
  /\ IsFiniteSet(Hosts) /\ Cardinality(Hosts) = NumHosts
  /\ Hosts \subseteq Nat /\ Hosts \subseteq Values /\ Unset \notin Hosts
  /\ Spilled \notin Hosts /\ Storage \notin Hosts
  /\ Spilled \in Values /\ Storage \in Values /\ Reloaded \in Values
  /\ NumHosts \in Nat
<1>1. IsFiniteSet(0..(NumHosts - 1)) /\ Cardinality(0..(NumHosts - 1)) = NumHosts
  BY FS_Interval, ReloadAssumption
<1> QED BY <1>1, ReloadAssumption DEF Hosts, Values, Unset, Spilled, Storage, Reloaded

(* A role is of one of its kinds, and merges what a register or memory holds. *)
LEMMA RoleFacts ==
  ASSUME NEW r \in Roles
  PROVE  /\ r.is \in RoleKinds
         /\ r.is = "merge" => r.from \in Hosts \cup {Spilled, Storage}
BY DEF Roles, RoleKinds

(* ctz32() finds the lowest register of a set. *)
LEMMA LowestIn ==
  ASSUME NEW S, S \subseteq Hosts, S # {}
  PROVE  Lowest(S) \in S
<1> DEFINE R == OpToRel(<, Nat)
<1>1. S \subseteq Nat
  BY HostFacts
<1>2. PICK h \in S : \A g \in S : ~(<<g, h>> \in R)
  BY <1>1, WFMin, NatLessThanWellFounded
<1>3. \A g \in S : <<g, h>> \in R <=> g < h
  BY <1>1 DEF OpToRel
<1> HIDE DEF R
<1>4. ASSUME NEW g \in S PROVE h <= g
  <2>1. ~(g < h) /\ g \in Nat /\ h \in Nat
    BY <1>1, <1>2, <1>3
  <2> QED BY <2>1
<1> QED BY <1>4 DEF Lowest

(* What the shuffle works on are registers. *)
LEMMA MovesFacts ==
  ASSUME NEW e \in [Hosts -> Roles]
  PROVE  /\ Moves(e) \subseteq Hosts
         /\ \A h \in Hosts : e[h] \in Roles /\ e[h].is \in RoleKinds
         /\ \A h \in Hosts : h \in Moves(e) <=> \/ e[h].is = "live"
                                                \/ e[h].is = "merge" /\ e[h].from \in Hosts
<1>1. \A h \in Hosts : e[h] \in Roles /\ e[h].is \in RoleKinds
  BY RoleFacts
<1> QED BY <1>1 DEF Moves, Of, RoleKinds

(* What is moved comes from a register. *)
LEMMA SourceFacts ==
  ASSUME edge \in [Hosts -> Roles]
  PROVE  \A h \in Moves(edge) : h \in Hosts /\ MoveSource(h) \in Hosts
BY MovesFacts DEF MoveSource

(* Sets of registers can be counted. *)
LEMMA Counts ==
  ASSUME NEW S, S \subseteq Hosts
  PROVE  /\ IsFiniteSet(S) /\ Cardinality(S) \in 0..NumHosts /\ Cardinality(S) \in Nat
         /\ Cardinality(S) = 0 <=> S = {}
<1>1. IsFiniteSet(S) /\ Cardinality(S) <= NumHosts
  BY HostFacts, FS_Subset
<1>2. Cardinality(S) \in Nat
  BY <1>1, FS_CardinalityType
<1>3. Cardinality(S) = 0 <=> S = {}
  BY <1>1, FS_EmptySet
<1> QED BY <1>1, <1>2, <1>3, HostFacts

(* The set-up of the maps for edge e, from the registers that hold its sources. *)
LEMMA SetupMaps ==
  ASSUME ReloadTypeOK, NEW e \in {taken, next}, Setup(e), UNCHANGED <<ends, regs>>,
         \A h \in Moves(e) : regs[IF e[h].is = "live" THEN h ELSE e[h].from]
                               = IF e[h].is = "live" THEN h ELSE e[h].from,
         \A h \in (IF at' = "shuffle_next" THEN Untouched ELSE Hosts) \ Moves(e) : regs[h] = h
  PROVE  /\ ShuffleInv'
         /\ edge' = e /\ pass' \subseteq targets' /\ targets' \subseteq Hosts
         /\ srcMap' \in [Hosts -> Hosts \cup {Unset}] /\ valueMap' \in [Hosts -> Hosts \cup {Unset}]
         /\ srcCount' \in [Hosts -> 0..NumHosts]
<1> DEFINE from(h) == IF e[h].is = "live" THEN h ELSE e[h].from
           used    == {from(h) : h \in Moves(e)}
<1>1. e \in [Hosts -> Roles]
  BY DEF ReloadTypeOK
<1>2. Moves(e) \subseteq Hosts /\ \A h \in Moves(e) : from(h) \in Hosts /\ from(h) \in used
  BY <1>1, MovesFacts
<1>3. edge' = e /\ targets' = Moves(e) /\ pass' = Moves(e) /\ resolved' = FALSE
  BY DEF Setup
<1>4. \A h : MoveSource(h)' = from(h)
  BY <1>3 DEF MoveSource
<1>5. \A h \in used : srcMap'[h] = h /\ valueMap'[h] = h
  BY <1>2 DEF Setup
<1>6. \A h \in Moves(e) : valueMap'[h] = h
  <2> SUFFICES ASSUME NEW h \in Moves(e) PROVE h \in used \cup Of(e, "merge")
    BY <1>2 DEF Setup
  <2>1. CASE e[h].is = "live"
    BY <1>2, <2>1
  <2>2. CASE e[h].is # "live"
    BY <1>1, <1>2, <2>2, MovesFacts DEF Of
  <2> QED BY <2>1, <2>2
<1>7. \A v \in Hosts : srcCount'[v] = Cardinality(WantedBy(v)')
  <2> SUFFICES ASSUME NEW v \in Hosts
               PROVE  WantedBy(v)' = {t \in Moves(e) : from(t) = v}
    BY DEF Setup
  <2> QED BY <1>3, <1>4 DEF WantedBy
<1>8. /\ srcMap' \in [Hosts -> Hosts \cup {Unset}] /\ valueMap' \in [Hosts -> Hosts \cup {Unset}]
      /\ srcCount' \in [Hosts -> 0..NumHosts]
  <2>1. \A v \in Hosts : Cardinality({t \in Moves(e) : from(t) = v}) \in 0..NumHosts
    <3> SUFFICES ASSUME NEW v \in Hosts
                 PROVE  Cardinality({t \in Moves(e) : from(t) = v}) \in 0..NumHosts
      OBVIOUS
    <3>1. {t \in Moves(e) : from(t) = v} \subseteq Hosts
      BY <1>2
    <3> QED BY <3>1, Counts
  <2> QED BY <2>1 DEF Setup
<1>9. MapsTrackValues'
  <2> SUFFICES ASSUME NEW h \in Moves(e)
               PROVE  /\ Source(h)' \in Hosts /\ valueMap'[h] \in Hosts
                      /\ regs'[Source(h)'] = MoveSource(h)'
    BY <1>3 DEF MapsTrackValues
  <2> QED BY <1>2, <1>4, <1>5, <1>6 DEF Source
<1>10. \A h \in targets' : Source(h)' \in targets' => valueMap'[Source(h)'] = MoveSource(h)'
  BY <1>2, <1>3, <1>4, <1>5, <1>6 DEF Source
<1>11. \A h \in targets' : WantedBy(valueMap[h])' # {} => srcMap'[valueMap'[h]] = h
  BY <1>2, <1>3, <1>4, <1>5, <1>6 DEF WantedBy
<1>12. \A v : Cardinality(WantedBy(v)') \in Nat
  <2>1. \A v : WantedBy(v)' \subseteq Hosts
    BY <1>2, <1>3 DEF WantedBy
  <2> QED BY <2>1, Counts
<1>13. (Untouched)' = Untouched
  BY DEF Untouched, EndLive, SourcesOf, Of, ends
<1>14. (\A h \in targets : srcCount[valueMap[h]] = Cardinality(WantedBy(valueMap[h])))'
  BY <1>2, <1>3, <1>6, <1>7
<1>15. (\A v \in Hosts : srcCount[v] >= Cardinality(WantedBy(v)))'
  BY <1>7, <1>12
<1>16. (\A h \in Moves(edge) \ targets : regs[h] = MoveSource(h))'
  BY <1>3
<1>17. (\A h \in (IF at = "shuffle_next" THEN Untouched ELSE Hosts) \ Moves(edge) : regs[h] = h)'
  BY <1>3, <1>13
<1>18. (~resolved => \A h \in targets \ pass : Source(h) # h /\ StillNeeded(h))'
  BY <1>3
<1>19. (targets \subseteq Moves(edge))'
  BY <1>3
<1>20. ShuffleInv'
  BY <1>9, <1>10, <1>11, <1>14, <1>15, <1>16, <1>17, <1>18, <1>19 DEF ShuffleInv
<1> QED BY <1>2, <1>3, <1>8, <1>20

(******************************* The shuffle ******************************)

(* The two ends of the edge do not change. *)
LEMMA EndsKept ==
  ASSUME UNCHANGED ends
  PROVE  /\ EndsMeetAllocation' = EndsMeetAllocation
         /\ Untouched' = Untouched /\ EndLive' = EndLive /\ NotInverted' = NotInverted
<1>1. EndsMeetAllocation' = EndsMeetAllocation
  BY DEF EndsMeetAllocation, ends, Of
<1>2. Untouched' = Untouched /\ EndLive' = EndLive
  BY DEF Untouched, EndLive, SourcesOf, ends, Of
<1>3. NotInverted' = NotInverted
  BY <1>2 DEF NotInverted, Conflict, ReloadConflict, ConflictRegs, MoveRequired, SourceHost, Of, ends
<1> QED BY <1>1, <1>2, <1>3

(* In the middle of a shuffle, its types and its invariant are all there is. *)
LEMMA ShuffleStep ==
  ASSUME ReloadIInv, Shuffling, UNCHANGED <<ends, at, edge>>, ReloadTypeOK', ShuffleInv'
  PROVE  ReloadIInv'
<1>1. UNCHANGED ends
  BY DEF ends
<1>2. EndsMeetAllocation'
  BY <1>1, EndsKept DEF ReloadIInv
<1>3. PlacesOK'
  BY <1>1, EndsKept DEF ReloadIInv, PlacesOK, Shuffling, ends
<1>4. PathsDelivered'
  BY DEF PathsDelivered, Shuffling
<1> QED BY <1>2, <1>3, <1>4 DEF ReloadIInv

(* What the lemmas about the steps need of the invariant. *)
LEMMA ShuffleFacts ==
  ASSUME ReloadIInv, Shuffling
  PROVE  /\ ReloadTypeOK /\ ShuffleInv
         /\ edge \in [Hosts -> Roles] /\ targets \subseteq Hosts
         /\ \A h \in Moves(edge) : h \in Hosts /\ MoveSource(h) \in Hosts
         /\ \A h \in targets : /\ h \in Moves(edge) /\ MoveSource(h) \in Hosts
                               /\ Source(h) \in Hosts /\ valueMap[h] \in Hosts
                               /\ regs[Source(h)] = MoveSource(h)
         /\ pass # {} => Dest \in pass /\ Dest \in targets
         /\ targets # {} => Lowest(targets) \in targets
<1>1. ReloadTypeOK /\ ShuffleInv
  BY DEF ReloadIInv
<1>2. edge \in [Hosts -> Roles] /\ targets \subseteq Hosts /\ pass \subseteq targets
  BY <1>1 DEF ReloadTypeOK
<1>3. \A h \in Moves(edge) : h \in Hosts /\ MoveSource(h) \in Hosts
  BY <1>2, SourceFacts
<1>4. pass # {} => Dest \in pass
  BY <1>2, LowestIn DEF Dest
<1>5. targets # {} => Lowest(targets) \in targets
  BY <1>2, LowestIn
<1> QED BY <1>1, <1>2, <1>3, <1>4, <1>5 DEF ShuffleInv, MapsTrackValues

(* A target whose value is needed is left for a later pass. *)
LEMMA SkipInv ==
  ASSUME ReloadIInv, Skip
  PROVE  ReloadIInv'
<1>1. Shuffling /\ pass # {} /\ Source(Dest) # Dest /\ StillNeeded(Dest)
  BY DEF Skip
<1>2. UNCHANGED <<ends, at, edge, regs, targets, resolved, srcMap, valueMap, srcCount>>
      /\ pass' = pass \ {Dest}
  BY DEF Skip, maps
<1>3. ReloadTypeOK'
  BY <1>1, <1>2, ShuffleFacts DEF ReloadTypeOK, ends
<1>4. \A h : (MoveSource(h))' = MoveSource(h) /\ (Source(h))' = Source(h)
             /\ (StillNeeded(h))' = StillNeeded(h) /\ (WantedBy(h))' = WantedBy(h)
  BY <1>2 DEF MoveSource, Source, StillNeeded, WantedBy
<1>5. ShuffleInv'
  <2>1. (Untouched)' = Untouched
    BY <1>2, EndsKept DEF ends
  <2>2. MapsTrackValues'
    BY <1>1, <1>2, <1>4, ShuffleFacts DEF MapsTrackValues
  <2>3. (~resolved => \A h \in targets \ pass : Source(h) # h /\ StillNeeded(h))'
    BY <1>1, <1>2, <1>4, ShuffleFacts DEF ShuffleInv
  <2> QED BY <1>1, <1>2, <1>4, <2>1, <2>2, <2>3, ShuffleFacts DEF ShuffleInv
<1> QED BY <1>1, <1>2, <1>3, <1>5, ShuffleStep

(* A new pass takes the targets that are left. *)
LEMMA NewPassInv ==
  ASSUME ReloadIInv, NewPass
  PROVE  ReloadIInv'
<1>1. Shuffling
  BY DEF NewPass
<1>2. UNCHANGED <<ends, at, edge, regs, targets, srcMap, valueMap, srcCount>> /\ pass' = targets
  BY DEF NewPass, maps
<1>3. ReloadTypeOK'
  BY <1>1, <1>2, ShuffleFacts DEF ReloadTypeOK, ends
<1>4. \A h : (MoveSource(h))' = MoveSource(h) /\ (Source(h))' = Source(h)
             /\ (WantedBy(h))' = WantedBy(h)
  BY <1>2 DEF MoveSource, Source, WantedBy
<1>5. ShuffleInv'
  <2>1. (Untouched)' = Untouched
    BY <1>2, EndsKept DEF ends
  <2>2. MapsTrackValues'
    BY <1>1, <1>2, <1>4, ShuffleFacts DEF MapsTrackValues
  <2>3. (targets \ pass)' = {}
    BY <1>2
  <2> QED BY <1>1, <1>2, <1>4, <2>1, <2>2, <2>3, ShuffleFacts DEF ShuffleInv
<1> QED BY <1>1, <1>2, <1>3, <1>5, ShuffleStep

(* A move frees its source for one target less. *)
LEMMA MoveInv ==
  ASSUME ReloadIInv, Move
  PROVE  ReloadIInv'
<1> DEFINE d == Dest
           s == Source(Dest)
           v == MoveSource(Dest)
<1>1. Shuffling /\ pass # {} /\ (s # d => ~StillNeeded(d))
  BY DEF Move
<1>2. UNCHANGED <<ends, at, edge, srcMap, valueMap>>
      /\ regs' = [regs EXCEPT ![d] = regs[s]]
      /\ targets' = targets \ {d} /\ pass' = pass \ {d} /\ resolved' = TRUE
      /\ srcCount' = [srcCount EXCEPT ![v] = @ - 1]
  BY DEF Move, Uncounted
<1>3. /\ d \in targets /\ d \in Hosts /\ d \in Moves(edge) /\ v \in Hosts /\ s \in Hosts
      /\ valueMap[d] \in Hosts /\ regs[s] = v
  BY <1>1, ShuffleFacts
<1>4. \A h : (MoveSource(h))' = MoveSource(h) /\ (Source(h))' = Source(h)
             /\ (WantedBy(h))' = WantedBy(h) \ {d}
  BY <1>2 DEF MoveSource, Source, WantedBy
<1> HIDE DEF d, s, v
<1>5. ReloadTypeOK /\ ShuffleInv /\ srcCount \in [Hosts -> 0..NumHosts] /\ regs \in [Hosts -> Values]
  BY <1>1, ShuffleFacts DEF ReloadTypeOK
<1>6. \A u \in Hosts : /\ Cardinality(WantedBy(u)) \in Nat
                       /\ Cardinality(WantedBy(u) \ {d}) =
                            IF u = v THEN Cardinality(WantedBy(u)) - 1 ELSE Cardinality(WantedBy(u))
                       /\ u = v => Cardinality(WantedBy(u)) > 0
  <2> SUFFICES ASSUME NEW u \in Hosts
               PROVE  /\ Cardinality(WantedBy(u)) \in Nat
                      /\ Cardinality(WantedBy(u) \ {d}) =
                           IF u = v THEN Cardinality(WantedBy(u)) - 1 ELSE Cardinality(WantedBy(u))
                      /\ u = v => Cardinality(WantedBy(u)) > 0
    OBVIOUS
  <2>1. WantedBy(u) \subseteq Hosts /\ (d \in WantedBy(u) <=> u = v)
    BY <1>1, <1>3, ShuffleFacts DEF WantedBy, d, v
  <2>2. IsFiniteSet(WantedBy(u)) /\ Cardinality(WantedBy(u)) \in Nat
        /\ (Cardinality(WantedBy(u)) = 0 <=> WantedBy(u) = {})
    BY <2>1, Counts
  <2>3. Cardinality(WantedBy(u) \ {d}) =
          IF d \in WantedBy(u) THEN Cardinality(WantedBy(u)) - 1 ELSE Cardinality(WantedBy(u))
    BY <2>2, FS_RemoveElement
  <2> QED BY <2>1, <2>2, <2>3
<1>7. \A u \in Hosts : srcCount'[u] = IF u = v THEN srcCount[u] - 1 ELSE srcCount[u]
  BY <1>2, <1>5
<1>8. srcCount[v] >= 1
  <2>1. srcCount[v] >= Cardinality(WantedBy(v))
    BY <1>3, <1>5 DEF ShuffleInv
  <2>2. Cardinality(WantedBy(v)) \in Nat /\ Cardinality(WantedBy(v)) > 0
    BY <1>3, <1>6
  <2>3. srcCount[v] \in Int
    BY <1>3, <1>5, HostFacts
  <2> QED BY <2>1, <2>2, <2>3
<1>9. ReloadTypeOK'
  <2>1. srcCount' \in [Hosts -> 0..NumHosts]
    <3>1. srcCount[v] - 1 \in 0..NumHosts
      BY <1>3, <1>5, <1>8, HostFacts
    <3> QED BY <1>2, <1>5, <3>1
  <2>2. regs' \in [Hosts -> Values]
    BY <1>2, <1>3, <1>5
  <2>3. pass' \subseteq targets' /\ targets' \subseteq Hosts
    BY <1>2, <1>5 DEF ReloadTypeOK
  <2> QED BY <1>2, <1>5, <2>1, <2>2, <2>3 DEF ReloadTypeOK, ends
<1>10. MapsTrackValues'
  <2> SUFFICES ASSUME NEW h \in targets \ {d}
               PROVE  /\ Source(h) \in Hosts /\ valueMap[h] \in Hosts
                      /\ regs'[Source(h)] = MoveSource(h)
    BY <1>2, <1>4 DEF MapsTrackValues
  <2>1. Source(h) \in Hosts /\ valueMap[h] \in Hosts /\ regs[Source(h)] = MoveSource(h)
    BY <1>1, ShuffleFacts
  <2>2. CASE Source(h) = d /\ s # d
    <3>1. valueMap[d] = MoveSource(h)
      BY <1>3, <1>5, <2>2 DEF ShuffleInv
    <3>2. WantedBy(valueMap[d]) # {}
      BY <3>1 DEF WantedBy
    <3>3. srcCount[valueMap[d]] = Cardinality(WantedBy(valueMap[d]))
      BY <1>3, <1>5 DEF ShuffleInv
    <3>4. Cardinality(WantedBy(valueMap[d])) \in Nat /\ Cardinality(WantedBy(valueMap[d])) # 0
      <4>1. WantedBy(valueMap[d]) \subseteq Hosts
        BY <1>1, ShuffleFacts DEF WantedBy
      <4> QED BY <3>2, <4>1, Counts
    <3> QED BY <1>1, <2>2, <3>3, <3>4 DEF StillNeeded
  <2>3. CASE Source(h) = d /\ s = d
    BY <1>2, <1>3, <1>5, <2>1, <2>3
  <2>4. CASE Source(h) # d
    BY <1>2, <1>5, <2>1, <2>4
  <2> QED BY <2>1, <2>2, <2>3, <2>4
<1>11. ShuffleInv'
  <2>1. (Untouched)' = Untouched
    BY <1>2, EndsKept DEF ends
  <2>2. (\A h \in targets : Source(h) \in targets => valueMap[Source(h)] = MoveSource(h))'
    BY <1>2, <1>4, <1>5 DEF ShuffleInv
  <2>3. (\A h \in targets : WantedBy(valueMap[h]) # {} => srcMap[valueMap[h]] = h)'
    BY <1>2, <1>4, <1>5 DEF ShuffleInv
  <2>4. (\A h \in targets : srcCount[valueMap[h]] = Cardinality(WantedBy(valueMap[h])))'
    <3>1. \A h \in targets : /\ valueMap[h] \in Hosts
                             /\ srcCount[valueMap[h]] = Cardinality(WantedBy(valueMap[h]))
      BY <1>1, <1>5, ShuffleFacts DEF ShuffleInv
    <3> QED BY <1>2, <1>4, <1>6, <1>7, <3>1
  <2>5. (\A u \in Hosts : srcCount[u] >= Cardinality(WantedBy(u)))'
    <3>1. \A u \in Hosts : srcCount[u] >= Cardinality(WantedBy(u)) /\ srcCount[u] \in Int
      BY <1>5, HostFacts DEF ShuffleInv
    <3> QED BY <1>4, <1>6, <1>7, <3>1
  <2>6. (\A h \in Moves(edge) \ targets : regs[h] = MoveSource(h))'
    <3>1. \A h \in Moves(edge) : h \in Hosts
      BY <1>1, ShuffleFacts
    <3>2. regs'[d] = MoveSource(d)
      BY <1>2, <1>3, <1>5 DEF d, v
    <3>3. \A h \in Moves(edge) \ targets : regs'[h] = MoveSource(h)
      BY <1>2, <1>3, <1>5, <3>1 DEF ShuffleInv
    <3>4. (Moves(edge))' = Moves(edge)
      BY <1>2
    <3> QED BY <1>2, <1>4, <3>2, <3>3, <3>4
  <2>7. (\A h \in (IF at = "shuffle_next" THEN Untouched ELSE Hosts) \ Moves(edge) : regs[h] = h)'
    BY <1>2, <1>3, <1>5, <2>1 DEF ShuffleInv
  <2>8. (targets \subseteq Moves(edge))'
    BY <1>2, <1>5 DEF ShuffleInv
  <2> QED BY <1>2, <1>10, <2>2, <2>3, <2>4, <2>5, <2>6, <2>7, <2>8 DEF ShuffleInv
<1> QED BY <1>1, <1>2, <1>9, <1>11, ShuffleStep

(* When all targets of a pass are wanted elsewhere, the targets are as many as the
   values they want: what is left is a permutation.  So the source of a
   target is a target, and neither is done with. *)
LEMMA OnlyCycles ==
  ASSUME ReloadIInv, Shuffling, pass = {}, ~resolved, NEW d \in targets
  PROVE  /\ Source(d) \in targets /\ Source(d) # d
         /\ valueMap[Source(d)] = MoveSource(d)
         /\ \A t \in targets : /\ WantedBy(valueMap[t]) # {} /\ srcMap[valueMap[t]] = t
                               /\ valueMap[t] = MoveSource(d) => t = Source(d)
<1>1. ReloadTypeOK /\ ShuffleInv /\ targets \subseteq Hosts
  BY ShuffleFacts
<1>2. \A t \in targets : WantedBy(valueMap[t]) # {} /\ Source(t) # t
  <2> SUFFICES ASSUME NEW t \in targets
               PROVE  WantedBy(valueMap[t]) # {} /\ Source(t) # t
    OBVIOUS
  <2>1. Source(t) # t /\ srcCount[valueMap[t]] > 0
    BY <1>1 DEF ShuffleInv, StillNeeded
  <2>2. srcCount[valueMap[t]] = Cardinality(WantedBy(valueMap[t]))
    BY <1>1 DEF ShuffleInv
  <2>3. Cardinality(WantedBy(valueMap[t])) = 0 <=> WantedBy(valueMap[t]) = {}
    <3>1. WantedBy(valueMap[t]) \subseteq Hosts
      BY <1>1 DEF WantedBy
    <3> QED BY <3>1, Counts
  <2> QED BY <2>1, <2>2, <2>3
<1>3. \A t \in targets : srcMap[valueMap[t]] = t
  BY <1>1, <1>2 DEF ShuffleInv
<1> DEFINE wants == [t \in targets |-> CHOOSE u \in targets : MoveSource(u) = valueMap[t]]
<1>4. \A t \in targets : wants[t] \in targets /\ MoveSource(wants[t]) = valueMap[t]
  BY <1>2 DEF WantedBy
<1> HIDE DEF wants
<1>5. wants \in [targets -> targets]
  BY <1>4 DEF wants
<1>6. wants \in Injection(targets, targets)
  <2>1. \A t, u \in targets : wants[t] = wants[u] => t = u
    BY <1>3, <1>4
  <2> QED BY <1>5, <2>1 DEF Injection, IsInjective
<1>7. wants \in Surjection(targets, targets)
  <2>1. IsFiniteSet(targets)
    BY <1>1, Counts
  <2> QED BY <1>6, <2>1, FS_Injection
<1>8. PICK t \in targets : wants[t] = d
  BY <1>7 DEF Surjection
<1>9. valueMap[t] = MoveSource(d) /\ Source(d) = t
  BY <1>3, <1>4, <1>8 DEF Source
<1> QED BY <1>2, <1>3, <1>9

(* The value that a target holds and the one it wants change places. *)
LEMMA SwapInv ==
  ASSUME ReloadIInv, Swap
  PROVE  ReloadIInv'
<1> DEFINE d == Lowest(targets)
           s == Source(d)
           v == MoveSource(d)
           w == valueMap[d]
<1>1. Shuffling /\ pass = {} /\ targets # {} /\ ~resolved
  BY DEF Swap
<1>2. d \in targets /\ d \in Hosts /\ d \in Moves(edge) /\ v \in Hosts /\ w \in Hosts
  BY <1>1, ShuffleFacts
<1>3. /\ s \in targets /\ s \in Hosts /\ s # d /\ valueMap[s] = v /\ regs[s] = v
      /\ \A t \in targets : /\ WantedBy(valueMap[t]) # {} /\ srcMap[valueMap[t]] = t
                            /\ valueMap[t] = v => t = s
  BY <1>1, <1>2, OnlyCycles, ShuffleFacts
<1>4. /\ UNCHANGED <<ends, at, edge, resolved, srcCount>>
      /\ regs' = [regs EXCEPT ![d] = regs[s], ![s] = regs[d]]
      /\ targets' = targets \ {d} /\ pass' = targets \ {d}
      /\ srcMap' = [srcMap EXCEPT ![w] = s, ![v] = d]
      /\ valueMap' = [valueMap EXCEPT ![s] = w, ![d] = v]
  BY DEF Swap, SrcMapSwapped
<1>5. \A h : (MoveSource(h))' = MoveSource(h) /\ (WantedBy(h))' = WantedBy(h) \ {d}
  BY <1>4 DEF MoveSource, WantedBy
<1>6. /\ ReloadTypeOK /\ ShuffleInv /\ targets \subseteq Hosts
      /\ regs \in [Hosts -> Values]
      /\ srcMap \in [Hosts -> Hosts \cup {Unset}] /\ valueMap \in [Hosts -> Hosts \cup {Unset}]
  BY <1>1, ShuffleFacts DEF ReloadTypeOK
<1>7. v # w
  BY <1>2, <1>3
<1>8. \A u \in targets : (Source(u))' = IF MoveSource(u) = v THEN d
                                       ELSE IF MoveSource(u) = w THEN s ELSE Source(u)
  <2>1. \A u \in targets : MoveSource(u) \in Hosts
    BY <1>1, ShuffleFacts
  <2>2. \A x \in Hosts : srcMap'[x] = IF x = v THEN d ELSE IF x = w THEN s ELSE srcMap[x]
    BY <1>2, <1>4, <1>6, <1>7
  <2> QED BY <1>5, <2>1, <2>2 DEF Source
<1>9. \A t \in targets \ {d} : /\ valueMap'[t] = IF t = s THEN w ELSE valueMap[t]
                               /\ valueMap'[t] # v /\ valueMap'[t] \in Hosts
  BY <1>1, <1>2, <1>3, <1>4, <1>6, <1>7, ShuffleFacts
<1>10. \A h \in Hosts : regs'[h] = IF h = d THEN v ELSE IF h = s THEN regs[d] ELSE regs[h]
  BY <1>2, <1>3, <1>4, <1>6
<1> HIDE DEF d, s, v, w
<1>11. ReloadTypeOK'
  <2>1. regs' \in [Hosts -> Values] /\ srcMap' \in [Hosts -> Hosts \cup {Unset}]
        /\ valueMap' \in [Hosts -> Hosts \cup {Unset}]
    BY <1>2, <1>3, <1>4, <1>6
  <2>2. pass' \subseteq targets' /\ targets' \subseteq Hosts
    BY <1>4, <1>6
  <2> QED BY <1>4, <1>6, <2>1, <2>2 DEF ReloadTypeOK, ends
<1>12. \A u \in targets : MoveSource(u) # v /\ MoveSource(u) # w => Source(u) # d /\ Source(u) # s
  <2>1. \A u \in targets : Source(u) \in targets => valueMap[Source(u)] = MoveSource(u)
    BY <1>6 DEF ShuffleInv
  <2> QED BY <1>2, <1>3, <2>1 DEF w
<1>13. MapsTrackValues'
  <2> SUFFICES ASSUME NEW h \in targets \ {d}
               PROVE  (Source(h))' \in Hosts /\ valueMap'[h] \in Hosts
                      /\ regs'[(Source(h))'] = MoveSource(h)
    BY <1>4, <1>5 DEF MapsTrackValues
  <2>1. Source(h) \in Hosts /\ regs[Source(h)] = MoveSource(h)
    BY <1>1, ShuffleFacts
  <2>2. CASE MoveSource(h) = v
    BY <1>2, <1>8, <1>9, <1>10, <2>2
  <2>3. CASE MoveSource(h) = w
    <3>1. Source(h) = d
      BY <1>2, <1>3, <2>3 DEF Source, w
    <3> QED BY <1>2, <1>3, <1>7, <1>8, <1>9, <1>10, <2>1, <2>3, <3>1
  <2>4. CASE MoveSource(h) # v /\ MoveSource(h) # w
    BY <1>8, <1>9, <1>10, <1>12, <2>1, <2>4
  <2> QED BY <2>2, <2>3, <2>4
<1>14. ShuffleInv'
  <2>1. (Untouched)' = Untouched
    BY <1>4, EndsKept DEF ends
  <2>2. (\A h \in targets : Source(h) \in targets => valueMap[Source(h)] = MoveSource(h))'
    <3> SUFFICES ASSUME NEW h \in targets \ {d}, (Source(h))' \in targets \ {d}
                 PROVE  valueMap'[(Source(h))'] = MoveSource(h)
      BY <1>4, <1>5
    <3>1. MoveSource(h) # v
      BY <1>8
    <3>2. CASE MoveSource(h) = w
      BY <1>3, <1>7, <1>8, <1>9, <3>2
    <3>3. CASE MoveSource(h) # w
      <4>1. (Source(h))' = Source(h) /\ Source(h) # s
        BY <1>8, <1>12, <3>1, <3>3
      <4>2. valueMap[Source(h)] = MoveSource(h)
        BY <1>6, <4>1 DEF ShuffleInv
      <4> QED BY <1>9, <4>1, <4>2
    <3> QED BY <3>2, <3>3
  <2>3. (\A h \in targets : WantedBy(valueMap[h]) # {} => srcMap[valueMap[h]] = h)'
    <3> SUFFICES ASSUME NEW h \in targets \ {d}
                 PROVE  srcMap'[valueMap'[h]] = h
      BY <1>4
    <3>1. \A x \in Hosts : x # v => srcMap'[x] = IF x = w THEN s ELSE srcMap[x]
      BY <1>2, <1>4, <1>6
    <3>2. CASE h = s
      BY <1>7, <1>9, <3>1, <3>2
    <3>3. CASE h # s
      <4>1. valueMap'[h] = valueMap[h] /\ valueMap[h] # v /\ valueMap[h] \in Hosts
        BY <1>9, <3>3
      <4>2. valueMap[h] # w
        BY <1>2, <1>3 DEF w
      <4> QED BY <1>3, <3>1, <4>1, <4>2
    <3> QED BY <3>2, <3>3
  <2>4. (\A h \in targets : srcCount[valueMap[h]] = Cardinality(WantedBy(valueMap[h])))'
    <3> SUFFICES ASSUME NEW h \in targets \ {d}
                 PROVE  srcCount[valueMap'[h]] = Cardinality(WantedBy(valueMap'[h]) \ {d})
      BY <1>4, <1>5
    <3>1. \A t \in targets : srcCount[valueMap[t]] = Cardinality(WantedBy(valueMap[t]))
      BY <1>6 DEF ShuffleInv
    <3>2. srcCount[valueMap'[h]] = Cardinality(WantedBy(valueMap'[h]))
      BY <1>2, <1>9, <3>1 DEF w
    <3>3. d \notin WantedBy(valueMap'[h])
      BY <1>9 DEF WantedBy, v
    <3> QED BY <3>2, <3>3
  <2>5. (\A u \in Hosts : srcCount[u] >= Cardinality(WantedBy(u)))'
    <3> SUFFICES ASSUME NEW u \in Hosts
                 PROVE  srcCount[u] >= Cardinality(WantedBy(u) \ {d})
      BY <1>4, <1>5
    <3>1. srcCount[u] >= Cardinality(WantedBy(u)) /\ srcCount[u] \in Int
      BY <1>6, HostFacts DEF ShuffleInv, ReloadTypeOK
    <3>2. WantedBy(u) \subseteq Hosts /\ WantedBy(u) \ {d} \subseteq WantedBy(u)
      BY <1>6 DEF WantedBy
    <3>3. IsFiniteSet(WantedBy(u)) /\ Cardinality(WantedBy(u)) \in Nat
          /\ Cardinality(WantedBy(u) \ {d}) \in Nat
      BY <3>2, Counts
    <3>4. Cardinality(WantedBy(u) \ {d}) <= Cardinality(WantedBy(u))
      BY <3>2, <3>3, FS_Subset
    <3> QED BY <3>1, <3>3, <3>4
  <2>6. (\A h \in Moves(edge) \ targets : regs[h] = MoveSource(h))'
    <3>1. \A h \in Moves(edge) : h \in Hosts
      BY <1>1, ShuffleFacts
    <3>2. \A h \in Moves(edge) \ targets : regs[h] = MoveSource(h)
      BY <1>6 DEF ShuffleInv
    <3>3. (Moves(edge))' = Moves(edge)
      BY <1>4
    <3>4. regs'[d] = MoveSource(d)
      BY <1>2, <1>10 DEF v
    <3>5. \A h \in Moves(edge) \ targets : regs'[h] = MoveSource(h)
      BY <1>2, <1>3, <1>10, <3>1, <3>2
    <3> QED BY <1>4, <1>5, <3>3, <3>4, <3>5
  <2>7. (\A h \in (IF at = "shuffle_next" THEN Untouched ELSE Hosts) \ Moves(edge) : regs[h] = h)'
    <3>1. d \in Moves(edge) /\ s \in Moves(edge)
      BY <1>2, <1>3, <1>6 DEF ShuffleInv
    <3>2. \A h \in (IF at = "shuffle_next" THEN Untouched ELSE Hosts) \ Moves(edge) : regs[h] = h
      BY <1>6 DEF ShuffleInv
    <3>3. \A h \in Hosts : h # d /\ h # s => regs'[h] = regs[h]
      BY <1>10
    <3>4. Untouched \subseteq Hosts
      BY <1>6, RoleFacts DEF Untouched, EndLive, SourcesOf, Of, ReloadTypeOK
    <3> QED BY <1>4, <2>1, <3>1, <3>2, <3>3, <3>4
  <2>8. (targets \subseteq Moves(edge))'
    BY <1>4, <1>6 DEF ShuffleInv
  <2>9. (targets \ pass)' = {}
    BY <1>4
  <2> QED BY <1>13, <2>2, <2>3, <2>4, <2>5, <2>6, <2>7, <2>8, <2>9 DEF ShuffleInv
<1> QED BY <1>1, <1>4, <1>11, <1>14, ShuffleStep

(************************* Before and after it ***************************)

(* The reload code of a branch starts with all values where the block left them. *)
LEMMA ForTakenInv ==
  ASSUME ReloadIInv, ReloadForTaken
  PROVE  ReloadIInv'
<1>1. /\ at = "branch" /\ UNCHANGED <<ends, regs>> /\ Setup(taken)
      /\ at' \in {"shuffle_both", "shuffle_taken"}
      /\ at' = "shuffle_both" => NotInverted
  BY DEF ReloadForTaken
<1>2. ReloadTypeOK /\ EndsMeetAllocation /\ \A h \in Hosts : regs[h] = h
  BY <1>1 DEF ReloadIInv, PlacesOK
<1>3. \A h \in Moves(taken) : h \in Hosts /\ (taken[h].is # "live" => taken[h].from \in Hosts)
  BY <1>2, MovesFacts DEF ReloadTypeOK
<1>4. /\ ShuffleInv' /\ edge' = taken
      /\ pass' \subseteq targets' /\ targets' \subseteq Hosts
      /\ srcMap' \in [Hosts -> Hosts \cup {Unset}] /\ valueMap' \in [Hosts -> Hosts \cup {Unset}]
      /\ srcCount' \in [Hosts -> 0..NumHosts]
  BY <1>1, <1>2, <1>3, SetupMaps
<1>5. ReloadTypeOK'
  BY <1>1, <1>2, <1>4 DEF ReloadTypeOK, ends
<1>6. EndsMeetAllocation' /\ NotInverted' = NotInverted
  BY <1>1, <1>2, EndsKept DEF ends
<1>7. PlacesOK' /\ PathsDelivered'
  BY <1>1, <1>4, <1>6 DEF PlacesOK, PathsDelivered, ends
<1> QED BY <1>4, <1>5, <1>6, <1>7 DEF ReloadIInv

(* That of the fall-through path starts with those it is about where they were. *)
LEMMA ForNextInv ==
  ASSUME ReloadIInv, ReloadForNext
  PROVE  ReloadIInv'
<1>1. /\ (at = "branch" /\ conditional) \/ at = "not_taken"
      /\ UNCHANGED <<ends, regs>> /\ Setup(next) /\ at' = "shuffle_next"
  BY DEF ReloadForNext, Inverted
<1>2. ReloadTypeOK /\ EndsMeetAllocation /\ conditional
  BY <1>1 DEF ReloadIInv, PlacesOK
<1>3. next \in [Hosts -> Roles] /\ Of(next, "live") \subseteq liveOut /\ EndLive \subseteq Hosts
  BY <1>2, RoleFacts DEF ReloadTypeOK, EndsMeetAllocation, EndLive, SourcesOf, Of
<1>4. \A h \in Untouched : regs[h] = h
  <2>1. Untouched \subseteq Hosts
    BY <1>3 DEF Untouched, Of
  <2> QED BY <1>1, <2>1 DEF ReloadIInv, PlacesOK
<1>5. \A h \in Moves(next) : IF next[h].is = "live" THEN h \in Untouched
                             ELSE next[h].from \in Untouched
  <2> SUFFICES ASSUME NEW h \in Moves(next)
               PROVE  IF next[h].is = "live" THEN h \in EndLive ELSE next[h].from \in EndLive
    BY DEF Untouched
  <2>1. \/ h \in Of(next, "live")
        \/ h \in Of(next, "merge") /\ next[h].from \in Hosts
    BY DEF Moves
  <2>2. h \in Hosts /\ (next[h].is = "live" \/ (next[h].is = "merge" /\ next[h].from \in Hosts))
    <3>1. \A g : (g \in Of(next, "live") => g \in Hosts /\ next[g].is = "live")
             /\ (g \in Of(next, "merge") => g \in Hosts /\ next[g].is = "merge")
      BY DEF Of
    <3> QED BY <2>1, <3>1
  <2> QED BY <1>3, <2>1, <2>2 DEF EndLive, SourcesOf, Of
<1>6. /\ ShuffleInv' /\ edge' = next
      /\ pass' \subseteq targets' /\ targets' \subseteq Hosts
      /\ srcMap' \in [Hosts -> Hosts \cup {Unset}] /\ valueMap' \in [Hosts -> Hosts \cup {Unset}]
      /\ srcCount' \in [Hosts -> 0..NumHosts]
  BY <1>1, <1>2, <1>4, <1>5, SetupMaps
<1>7. ReloadTypeOK'
  BY <1>1, <1>2, <1>6 DEF ReloadTypeOK, ends
<1>8. EndsMeetAllocation'
  BY <1>1, <1>2, EndsKept DEF ends
<1>9. PlacesOK' /\ PathsDelivered'
  BY <1>1, <1>2, <1>6 DEF PlacesOK, PathsDelivered, ends
<1> QED BY <1>6, <1>7, <1>8, <1>9 DEF ReloadIInv

(* What the shuffle and the loads after it leave in the registers. *)
LEMMA LoadedFacts ==
  ASSUME ReloadIInv, Load
  PROVE  /\ \A h \in Hosts : regs'[h] \in Values
         /\ \A h \in Hosts : h \in (IF at = "shuffle_next" THEN Untouched ELSE Hosts)
                               \/ edge[h].is # "free"
                             => regs'[h] = Expected(edge, h)
<1>1. Shuffling /\ targets = {} /\ regs' = Loaded
  BY DEF Load
<1>2. ReloadTypeOK /\ ShuffleInv /\ edge \in [Hosts -> Roles] /\ regs \in [Hosts -> Values]
  BY <1>1, ShuffleFacts DEF ReloadTypeOK
<1>3. \A h \in Hosts : regs'[h] = IF edge[h].is = "merge" /\ edge[h].from \notin Hosts
                                  THEN edge[h].from
                                  ELSE IF edge[h].is = "reload" THEN Reloaded ELSE regs[h]
  BY <1>1 DEF Loaded
<1>4. \A h \in Hosts : edge[h].is = "merge" => edge[h].from \in Hosts \cup {Spilled, Storage}
  BY <1>2, RoleFacts
<1>5. \A h \in Moves(edge) : regs[h] = IF edge[h].is = "live" THEN h ELSE edge[h].from
  BY <1>1, <1>2 DEF ShuffleInv, MoveSource
<1>6. \A h \in (IF at = "shuffle_next" THEN Untouched ELSE Hosts) \ Moves(edge) : regs[h] = h
  BY <1>2 DEF ShuffleInv
<1>7. ASSUME NEW h \in Hosts PROVE regs'[h] \in Values
  BY <1>2, <1>3, <1>4, HostFacts
<1>8. ASSUME NEW h \in Hosts,
             h \in (IF at = "shuffle_next" THEN Untouched ELSE Hosts) \/ edge[h].is # "free"
      PROVE  regs'[h] = Expected(edge, h)
  <2>1. edge[h].is \in {"merge", "live", "reload", "free"}
    BY <1>2, MovesFacts DEF RoleKinds
  <2>2. h \in Moves(edge) <=> \/ edge[h].is = "live"
                              \/ edge[h].is = "merge" /\ edge[h].from \in Hosts
    BY <1>2, MovesFacts
  <2>3. CASE edge[h].is = "merge"
    BY <1>3, <1>5, <2>2, <2>3 DEF Expected
  <2>4. CASE edge[h].is = "reload"
    BY <1>3, <2>4 DEF Expected
  <2>5. CASE edge[h].is = "live"
    BY <1>3, <1>5, <2>2, <2>5 DEF Expected
  <2>6. CASE edge[h].is = "free"
    BY <1>3, <1>6, <1>8, <2>2, <2>6 DEF Expected
  <2> QED BY <2>1, <2>3, <2>4, <2>5, <2>6
<1> QED BY <1>7, <1>8

(* Without a conflict, the reload code for the taken block keeps what is live. *)
LEMMA NoConflict ==
  ASSUME ReloadTypeOK, EndsMeetAllocation, NotInverted
  PROVE  \A h \in Untouched : h \in Hosts /\ Expected(taken, h) = h
<1> SUFFICES ASSUME NEW h \in Untouched PROVE h \in Hosts /\ Expected(taken, h) = h
  OBVIOUS
<1>1. taken \in [Hosts -> Roles] /\ next \in [Hosts -> Roles] /\ liveOut \subseteq Hosts
  BY DEF ReloadTypeOK
<1>2. (h \in EndLive /\ h \in Hosts) \/ h \in Of(taken, "free")
  BY <1>1 DEF Untouched, EndLive, SourcesOf
<1>3. CASE h \in Of(taken, "free")
  BY <1>3 DEF Of, Expected
<1>4. CASE h \in EndLive /\ h \in Hosts
  <2>1. taken[h].is = "merge" => taken[h].from = h
    BY <1>4 DEF NotInverted, Conflict, MoveRequired, ConflictRegs, Of
  <2>2. taken[h].is # "reload"
    BY <1>4 DEF NotInverted, Conflict, ReloadConflict, EndsMeetAllocation, Of
  <2> QED BY <1>4, <2>1, <2>2 DEF Expected
<1> QED BY <1>2, <1>3, <1>4

(* The loads end the path: the block entered finds what it expects, and the code of
   a branch that is not taken has kept what the next block needs. *)
LEMMA LoadInv ==
  ASSUME ReloadIInv, Load
  PROVE  ReloadIInv'
<1>1. /\ Shuffling /\ UNCHANGED <<ends, edge, targets, pass, resolved, srcMap, valueMap, srcCount>>
      /\ at = "shuffle_both" => at' \in {"at_taken", "not_taken"}
      /\ at = "shuffle_taken" => at' = "at_taken"
      /\ at = "shuffle_next" => at' = "at_next"
      /\ at \in {"shuffle_both", "shuffle_taken", "shuffle_next"}
  BY DEF Load, Shuffling, maps
<1>2. ReloadTypeOK /\ EndsMeetAllocation /\ PlacesOK
  BY DEF ReloadIInv
<1>3. regs' \in [Hosts -> Values]
  <2>1. regs' = Loaded
    BY DEF Load
  <2>2. regs' = [h \in Hosts |-> regs'[h]]
    BY <2>1 DEF Loaded
  <2> QED BY <2>2, LoadedFacts
<1>4. ReloadTypeOK'
  BY <1>1, <1>2, <1>3 DEF ReloadTypeOK, ends
<1>5. EndsMeetAllocation' /\ Untouched' = Untouched
  BY <1>1, <1>2, EndsKept DEF ends
<1>6. ASSUME at' = "at_taken" PROVE \A h \in Hosts : regs'[h] = Expected(taken', h)
  <2>1. at # "shuffle_next" /\ edge = taken /\ taken' = taken
    BY <1>1, <1>2, <1>6 DEF PlacesOK, ends
  <2> QED BY <2>1, LoadedFacts
<1>7. ASSUME at' = "not_taken" PROVE conditional' /\ \A h \in Untouched : regs'[h] = h
  <2>1. at = "shuffle_both" /\ edge = taken /\ NotInverted
    BY <1>1, <1>2, <1>7 DEF PlacesOK
  <2>2. \A h \in Hosts : regs'[h] = Expected(taken, h)
    BY <2>1, LoadedFacts
  <2>3. conditional' = conditional /\ conditional
    BY <1>1, <2>1 DEF ends, NotInverted
  <2> QED BY <1>2, <2>1, <2>2, <2>3, NoConflict
<1>8. ASSUME at' = "at_next"
      PROVE  \A h \in (Hosts \ Of(next, "free")) \cup liveOut \cup Of(taken, "free") :
               regs'[h] = Expected(next, h)
  <2>1. at = "shuffle_next" /\ edge = next
    BY <1>1, <1>2, <1>8 DEF PlacesOK
  <2>2. liveOut \subseteq Hosts /\ liveOut \cup Of(taken, "free") \subseteq Untouched
    BY <1>2 DEF ReloadTypeOK, Untouched, EndLive
  <2>3. \A h \in Hosts \ Of(next, "free") : next[h].is # "free"
    BY DEF Of
  <2>4. \A h \in (Hosts \ Of(next, "free")) \cup liveOut \cup Of(taken, "free") :
          h \in Hosts /\ (h \in Untouched \/ next[h].is # "free")
    BY <2>2, <2>3 DEF Of
  <2> QED BY <2>1, <2>4, LoadedFacts
<1>9. PathsDelivered'
  <2>1. taken' = taken /\ next' = next /\ liveOut' = liveOut
    BY <1>1 DEF ends
  <2> QED BY <1>6, <1>8, <2>1 DEF PathsDelivered, Of, Expected
<1>10. PlacesOK'
  BY <1>1, <1>5, <1>7 DEF PlacesOK
<1>11. ~Shuffling'
  BY <1>1 DEF Shuffling
<1> QED BY <1>4, <1>5, <1>9, <1>10, <1>11 DEF ReloadIInv

(* The invariant holds at the branch. *)
LEMMA ReloadInitInv == ReloadInit => ReloadIInv
<1> SUFFICES ASSUME ReloadInit PROVE ReloadIInv
  OBVIOUS
<1>1. /\ EndsMeetAllocation /\ at = "branch" /\ edge = taken /\ regs = [h \in Hosts |-> h]
      /\ targets = {} /\ pass = {} /\ resolved = FALSE
      /\ srcMap = [h \in Hosts |-> Unset] /\ valueMap = [h \in Hosts |-> Unset]
      /\ srcCount = [h \in Hosts |-> 0]
  BY DEF ReloadInit
<1>2. taken \in [Hosts -> Roles] /\ next \in [Hosts -> Roles] /\ liveOut \subseteq Hosts
  <2>1. Free \in Roles
    BY DEF Free, Roles
  <2> QED BY <1>1, <2>1 DEF EndsMeetAllocation
<1>3. ReloadTypeOK
  BY <1>1, <1>2, HostFacts DEF ReloadTypeOK
<1>4. PlacesOK /\ ~Shuffling /\ PathsDelivered
  BY <1>1 DEF PlacesOK, Shuffling, PathsDelivered
<1> QED BY <1>1, <1>3, <1>4 DEF ReloadIInv

(******************************* Theorems *********************************)

(* The invariant of the reload code, for every number of host registers and every
   edge that the register allocator may leave. *)
THEOREM ReloadInvariance == ReloadSpec => []ReloadIInv
<1>1. ReloadIInv /\ [ReloadNext]_reloadVars => ReloadIInv'
  <2> SUFFICES ASSUME ReloadIInv, [ReloadNext]_reloadVars PROVE ReloadIInv'
    OBVIOUS
  <2>1. CASE UNCHANGED reloadVars
    <3>1. UNCHANGED <<taken, next, conditional, backward, liveOut, at, edge, regs, targets, pass,
                      resolved, srcMap, valueMap, srcCount>>
      BY <2>1 DEF reloadVars, ends, maps
    <3>2. ReloadTypeOK' = ReloadTypeOK
      BY <3>1 DEF ReloadTypeOK
    <3>3. EndsMeetAllocation' = EndsMeetAllocation /\ Untouched' = Untouched
          /\ NotInverted' = NotInverted
      BY <3>1, EndsKept DEF ends
    <3>4. PlacesOK' = PlacesOK /\ PathsDelivered' = PathsDelivered /\ Shuffling' = Shuffling
      BY <3>1, <3>3 DEF PlacesOK, PathsDelivered, Shuffling
    <3>5. ShuffleInv' = ShuffleInv
      BY <3>1, <3>3 DEF ShuffleInv, MapsTrackValues, Source, MoveSource, WantedBy, StillNeeded,
                        Shuffling
    <3> QED BY <3>2, <3>3, <3>4, <3>5 DEF ReloadIInv
  <2>2. CASE ReloadNext
    BY <2>2, ForTakenInv, ForNextInv, SkipInv, MoveInv, NewPassInv, SwapInv, LoadInv DEF ReloadNext
  <2> QED BY <2>1, <2>2
<1> QED BY <1>1, ReloadInitInv, PTL DEF ReloadSpec

(* src_map and value_map tell where the values are, and the assertion of the swap
   cannot fail: what it exchanges are two registers. *)
THEOREM ShuffleIsSound == ReloadSpec => []ReloadInv
<1>1. ReloadIInv => ReloadInv
  <2> SUFFICES ASSUME ReloadIInv PROVE ReloadInv
    OBVIOUS
  <2>1. ReloadTypeOK /\ (Shuffling => ShuffleInv)
    BY DEF ReloadIInv
  <2>2. MapsTrackValues
    BY <2>1 DEF ShuffleInv, MapsTrackValues
  <2>3. SwapAssertHolds
    <3> SUFFICES ASSUME Shuffling, pass = {}, targets # {}, ~resolved
                 PROVE  Source(Lowest(targets)) # Lowest(targets)
      BY DEF SwapAssertHolds
    <3> QED BY ShuffleFacts DEF ShuffleInv
  <2> QED BY <2>1, <2>2, <2>3 DEF ReloadInv
<1> QED BY <1>1, ReloadInvariance, PTL

(* Either successor is entered with every value where it expects it. *)
THEOREM ValuesArrive == ReloadSpec => []PathsDelivered
<1>1. ReloadIInv => PathsDelivered
  BY DEF ReloadIInv
<1> QED BY <1>1, ReloadInvariance, PTL

(* The measure of the shuffle is lexicographic: a pass has at most n registers. *)
LEMMA Descends ==
  ASSUME NEW n \in Nat, NEW x \in Nat, NEW y \in Nat, NEW p \in 0..n, NEW q \in 0..n,
         y < x \/ (y = x /\ q < p)
  PROVE  (n + 1) * y + q < (n + 1) * x + p
<1>1. CASE y = x /\ q < p
  <2>1. (n + 1) * x \in Nat
    OBVIOUS
  <2>2. \A z \in Nat : z + q < z + p
    BY <1>1
  <2> QED BY <1>1, <2>1, <2>2
<1>2. CASE y < x
  <2>1. PICK k \in Nat : x = y + 1 + k
    <3>1. x - y - 1 \in Nat /\ x = y + 1 + (x - y - 1)
      BY <1>2
    <3> QED BY <3>1
  <2>2. (n + 1) * x = (n + 1) * y + (n + 1) + (n + 1) * k
    BY <2>1
  <2>3. (n + 1) * y \in Nat /\ (n + 1) * k \in Nat
    OBVIOUS
  <2>4. \A a, b \in Nat : a + q < a + (n + 1) + b + p
    OBVIOUS
  <2> QED BY <2>2, <2>3, <2>4
<1> QED BY <1>1, <1>2

(* Every step within a shuffle, from a state of the invariant, lowers its measure. *)
LEMMA ShuffleLowers ==
  ASSUME ReloadIInv, ReloadNext, Shuffling, Shuffling'
  PROVE  Remaining' < Remaining
<1> DEFINE rank == 2 * Cardinality(targets) + IF resolved THEN 1 ELSE 0
<1>1. targets \subseteq Hosts /\ pass \subseteq targets /\ NumHosts \in Nat
  BY HostFacts DEF ReloadIInv, ReloadTypeOK
<1>2. Skip \/ Move \/ NewPass \/ Swap
  BY DEF ReloadNext, ReloadForTaken, ReloadForNext, Load, Shuffling
<1>3. /\ Cardinality(targets) \in 0..NumHosts /\ Cardinality(pass) \in 0..NumHosts
      /\ IsFiniteSet(targets) /\ IsFiniteSet(pass)
      /\ targets # {} => Cardinality(targets) > 0
      /\ Cardinality({}) = 0
  <2>1. pass \subseteq Hosts /\ {} \subseteq Hosts
    BY <1>1
  <2> QED BY <1>1, <2>1, Counts
<1>4. targets' \subseteq targets /\ pass' \subseteq targets
  BY <1>1, <1>2 DEF Skip, Move, NewPass, Swap
<1>5. Cardinality(targets') \in 0..NumHosts /\ Cardinality(pass') \in 0..NumHosts
  <2>1. targets' \subseteq Hosts /\ pass' \subseteq Hosts
    BY <1>1, <1>4
  <2> QED BY <2>1, Counts
<1>6. \/ rank' < rank
      \/ rank' = rank /\ Cardinality(pass') < Cardinality(pass)
  <2>1. CASE Skip
    <3>1. Dest \in pass /\ pass' = pass \ {Dest} /\ targets' = targets /\ resolved' = resolved
      BY <2>1, ShuffleFacts DEF Skip
    <3>2. Cardinality(pass') = Cardinality(pass) - 1
      BY <1>3, <3>1, FS_RemoveElement
    <3> QED BY <1>3, <3>1, <3>2
  <2>2. CASE Move
    <3>1. Dest \in targets /\ targets' = targets \ {Dest} /\ resolved' = TRUE
      BY <2>2, ShuffleFacts DEF Move
    <3>2. Cardinality(targets') = Cardinality(targets) - 1
      BY <1>3, <3>1, FS_RemoveElement
    <3> QED BY <1>3, <1>5, <3>1, <3>2
  <2>3. CASE NewPass
    BY <1>3, <2>3 DEF NewPass, Cleared
  <2>4. CASE Swap
    <3>1. Lowest(targets) \in targets /\ targets' = targets \ {Lowest(targets)}
          /\ resolved' = resolved
      BY <2>4, ShuffleFacts DEF Swap
    <3>2. Cardinality(targets') = Cardinality(targets) - 1
      BY <1>3, <3>1, FS_RemoveElement
    <3> QED BY <1>3, <1>5, <3>1, <3>2
  <2> QED BY <1>2, <2>1, <2>2, <2>3, <2>4
<1>7. rank \in Nat /\ rank' \in Nat
  BY <1>3, <1>5
<1>8. Remaining = (NumHosts + 1) * rank + Cardinality(pass)
      /\ Remaining' = (NumHosts + 1) * rank' + Cardinality(pass')
  BY DEF Remaining
<1> HIDE DEF rank
<1> QED BY <1>1, <1>3, <1>5, <1>6, <1>7, <1>8, Descends

(* The while (move_targets) loop ends, for every number of host registers: each of its
   steps lowers a measure that is bounded from below. *)
THEOREM ShuffleEnds == ReloadSpec => ShuffleProgresses
<1>1. ReloadIInv /\ [ReloadNext]_reloadVars
        => [Shuffling /\ Shuffling' => Remaining' < Remaining]_reloadVars
  BY ShuffleLowers
<1> QED BY <1>1, ReloadInvariance, PTL DEF ReloadSpec, ShuffleProgresses
==============================================================================
