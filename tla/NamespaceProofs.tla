-------------------------- MODULE NamespaceProofs --------------------------
(***************************************************************************)
(* The state of a namespace is well-formed and its names are unique,       *)
(* whatever callbacks and the code of modules do: what is under way nests, *)
(* and the slot each operation will store into keeps the name that was     *)
(* looked for.                                                             *)
(***************************************************************************)
EXTENDS Namespace, WellFoundedInduction, FiniteSetTheorems, TLAPS

(* Slots, modules that can be stored into them, and operations under way.  *)
SlotSet == {s \in [name : Names \cup {Meta}, type : {"host", "wasm", Null},
                   val : Hosts \cup States \cup {Meta}] :
              /\ s.type = "host" => s.val \in Hosts \cup {Meta}
              /\ s.type = "wasm" => s.val \in States}

Modules == {s \in SlotSet : s.type # Null /\ s.val # Meta}

Ops == {"remove", "delete", "on_attached", "on_detached", "running", "starting"}

Frames == {f \in [op : Ops, slot : Nat, stale : BOOLEAN, mod : Modules \cup {NoModule},
                  code : States \cup {"none"}] :
             f.op \in {"running", "starting"} <=> f.code # "none"}

Typed ==
  /\ slots \in Seq(SlotSet)
  /\ status \in [States -> {"unused", "loaded", "freed"}]
  /\ attached \subseteq Hosts /\ lasting \subseteq States
  /\ deleted \in BOOLEAN

(* The operations under way, where sl are the slots.                       *)
Nested(cs, sl) ==
  /\ cs \in Seq(Frames)
  /\ \A k \in DOMAIN cs :
       /\ cs[k].op = "delete" => k = 1 /\ cs[k].slot # 0
       /\ cs[k].op = "on_detached" => k > 1 /\ cs[k - 1].op \in {"remove", "delete"}
       /\ cs[k].op = "remove" => cs[k].slot \in DOMAIN sl
       /\ cs[k].mod # NoModule => cs[k].op = "remove" /\ cs[k].mod.name = sl[cs[k].slot].name

Inv == Typed /\ Nested(calls, slots) /\ NamesUnique

-----------------------------------------------------------------------------
(* Sequences.                                                              *)

LEMMA Pushed ==
  ASSUME NEW S, NEW s \in Seq(S), NEW e \in S
  PROVE  /\ Append(s, e) \in Seq(S) /\ Append(s, e) # <<>>
         /\ DOMAIN s = 1 .. Len(s) /\ Len(s) \in Nat
         /\ DOMAIN Append(s, e) = 1 .. Len(s) + 1
         /\ Len(Append(s, e)) = Len(s) + 1
         /\ Append(s, e)[Len(s) + 1] = e
         /\ \A k \in DOMAIN s : Append(s, e)[k] = s[k]
OBVIOUS

LEMMA Popped ==
  ASSUME NEW S, NEW s \in Seq(S), s # <<>>
  PROVE  /\ Front(s) \in Seq(S) /\ Last(s) \in S
         /\ DOMAIN s = 1 .. Len(s) /\ Len(s) \in Nat \ {0}
         /\ DOMAIN Front(s) = 1 .. Len(s) - 1
         /\ Len(Front(s)) = Len(s) - 1
         /\ Last(s) = s[Len(s)]
         /\ \A k \in DOMAIN Front(s) : Front(s)[k] = s[k]
<1>1. Len(s) \in Nat /\ Len(s) >= 1 /\ DOMAIN s = 1 .. Len(s)  OBVIOUS
<1>2. /\ SubSeq(s, 1, Len(s) - 1) \in Seq(S)
      /\ Len(SubSeq(s, 1, Len(s) - 1)) = Len(s) - 1
      /\ \A k \in 1 .. Len(s) - 1 : SubSeq(s, 1, Len(s) - 1)[k] = s[k]
  BY <1>1
<1>3. s[Len(s)] \in S  BY <1>1
<1> QED  BY <1>1, <1>2, <1>3 DEF Front, Last

Less == {ss \in Nat \X Nat : ss[1] < ss[2]}

LEMMA LessWellFounded == IsWellFoundedOn(Less, Nat)
BY NatLessThanWellFounded, Zenon DEF OpToRel, Less

LEMMA Least ==
  ASSUME NEW I, I \subseteq Nat, I # {}
  PROVE  \E m \in I : \A k \in I : m <= k
<1>1. PICK m \in I : \A k \in I : ~ (<<k, m>> \in Less)
  BY WFMin, LessWellFounded
<1>2. \A k \in I : ~ (k < m)  BY <1>1 DEF Less
<1> QED  BY <1>2

LEMMA FindFinds ==
  ASSUME NEW n, slots \in Seq(SlotSet)
  PROVE  /\ Find(n) = 0 => \A i \in DOMAIN slots : slots[i].name # n
         /\ Find(n) # 0 => Find(n) \in DOMAIN slots /\ slots[Find(n)].name = n
<1> DEFINE I == {i \in 1 .. Len(slots) : slots[i].name = n}
<1>1. Find(n) = IF I # {} THEN Min(I) ELSE 0  BY DEF Find, SelectInSeq
<1>2. DOMAIN slots = 1 .. Len(slots) /\ Len(slots) \in Nat  OBVIOUS
<1>3. ASSUME I # {} PROVE Min(I) \in I
  <2>1. I \subseteq Nat /\ I # {}  BY <1>2, <1>3
  <2> HIDE DEF I
  <2>2. \E m \in I : \A k \in I : m <= k  BY <2>1, Least
  <2> QED  BY <2>2 DEF Min
<1> QED  BY <1>1, <1>2, <1>3

-----------------------------------------------------------------------------
(* Operations and callbacks that begin and end.                            *)

LEMMA FrameParts ==
  /\ \A i \in Nat, mod \in Modules \cup {NoModule} : Removing(i, mod) \in Frames
  /\ \A i \in Nat : Deleting(i) \in Frames
  /\ \A op \in {"on_attached", "on_detached"} : Callback(op) \in Frames
  /\ \A s \in States : Running(s) \in Frames /\ Starting(s) \in Frames
<1>1. "none" \notin States  BY NamespaceAssumption
<1> QED  BY <1>1 DEF Removing, Deleting, Callback, Running, Starting, Frame, Frames, Ops

LEMMA FrameFields ==
  /\ \A i, mod : /\ Removing(i, mod).op = "remove" /\ Removing(i, mod).slot = i
                 /\ Removing(i, mod).mod = mod /\ Removing(i, mod).stale = FALSE
                 /\ Removing(i, mod).code = "none"
  /\ \A op : /\ Callback(op).op = op /\ Callback(op).mod = NoModule
             /\ Callback(op).code = "none"
  /\ \A i : /\ Deleting(i).op = "delete" /\ Deleting(i).slot = i
            /\ Deleting(i).mod = NoModule /\ Deleting(i).code = "none"
  /\ \A s : /\ Running(s).op = "running" /\ Running(s).mod = NoModule /\ Running(s).code = s
            /\ Starting(s).op = "starting" /\ Starting(s).mod = NoModule /\ Starting(s).code = s
BY DEF Removing, Callback, Deleting, Running, Starting, Frame

(* A callback of define_module, or the code of a module, begins.           *)
LEMMA PushedNested ==
  ASSUME NEW cs, NEW sl, Nested(cs, sl), NEW e \in Frames,
         e.op \in {"on_attached", "running", "starting"}, e.mod = NoModule
  PROVE  Nested(Append(cs, e), sl)
<1> DEFINE new == Append(cs, e)
<1>1. e \in Frames  OBVIOUS
<1>2. e.op \in {"on_attached", "running", "starting"} /\ e.mod = NoModule  OBVIOUS
<1>3. cs \in Seq(Frames)  BY DEF Nested
<1>4. /\ new \in Seq(Frames) /\ DOMAIN new = 1 .. Len(cs) + 1
      /\ DOMAIN cs = 1 .. Len(cs) /\ Len(cs) \in Nat
      /\ new[Len(cs) + 1] = e /\ \A k \in DOMAIN cs : new[k] = cs[k]
  BY <1>1, <1>3, Pushed
<1> HIDE DEF new
<1>5. \A k \in DOMAIN new : k \in DOMAIN cs \/ (k = Len(cs) + 1 /\ new[k] = e)  BY <1>4
<1>6. \A k \in DOMAIN cs : k > 1 => k - 1 \in DOMAIN cs  BY <1>4
<1>7. SUFFICES ASSUME NEW k \in DOMAIN new
               PROVE  /\ new[k].op = "delete" => k = 1 /\ new[k].slot # 0
                      /\ new[k].op = "on_detached" => k > 1 /\ new[k - 1].op \in {"remove", "delete"}
                      /\ new[k].op = "remove" => new[k].slot \in DOMAIN sl
                      /\ new[k].mod # NoModule => new[k].op = "remove" /\ new[k].mod.name = sl[new[k].slot].name
  BY <1>4 DEF Nested, new
<1>8. CASE new[k] = e  BY <1>2, <1>8
<1>9. CASE k \in DOMAIN cs  BY <1>4, <1>6, <1>9 DEF Nested
<1> QED  BY <1>5, <1>8, <1>9

LEMMA RemovingNested ==
  ASSUME NEW cs, NEW sl, Nested(cs, sl), DOMAIN sl \subseteq Nat, NEW i \in DOMAIN sl,
         NEW mod \in Modules \cup {NoModule}, mod # NoModule => mod.name = sl[i].name
  PROVE  Nested(Append(Append(cs, Removing(i, mod)), Callback("on_detached")), sl)
<1> DEFINE r == Removing(i, mod)
           e == Callback("on_detached")
           one == Append(cs, r)
           new == Append(one, e)
<1>1. r \in Frames /\ e \in Frames  BY FrameParts
<1>2. /\ e.op = "on_detached" /\ e.mod = NoModule
      /\ r.op = "remove" /\ r.slot = i /\ r.mod = mod
  BY FrameFields
<1>3. cs \in Seq(Frames)  BY DEF Nested
<1> HIDE DEF r, e
<1>4. /\ one \in Seq(Frames) /\ DOMAIN one = 1 .. Len(cs) + 1 /\ Len(one) = Len(cs) + 1
      /\ DOMAIN cs = 1 .. Len(cs) /\ Len(cs) \in Nat
      /\ one[Len(cs) + 1] = r /\ \A k \in DOMAIN cs : one[k] = cs[k]
  BY <1>1, <1>3, Pushed
<1> HIDE DEF one
<1>5. /\ new \in Seq(Frames) /\ DOMAIN new = 1 .. Len(one) + 1
      /\ new[Len(one) + 1] = e /\ \A k \in DOMAIN one : new[k] = one[k]
  BY <1>1, <1>4, Pushed
<1> HIDE DEF new
<1>6. /\ new[Len(cs) + 1] = r /\ new[Len(cs) + 2] = e /\ DOMAIN new = 1 .. Len(cs) + 2
      /\ \A k \in DOMAIN cs : new[k] = cs[k]
  <2>1. Len(one) + 1 = Len(cs) + 2 /\ Len(cs) + 1 \in DOMAIN one  BY <1>4
  <2>2. \A k \in DOMAIN cs : k \in DOMAIN one  BY <1>4
  <2> QED  BY <2>1, <2>2, <1>4, <1>5
<1>7. \A k \in DOMAIN new : k \in DOMAIN cs \/ k = Len(cs) + 1 \/ k = Len(cs) + 2  BY <1>4, <1>6
<1>8. \A k \in DOMAIN cs : k > 1 => k - 1 \in DOMAIN cs  BY <1>4
<1>9. SUFFICES ASSUME NEW k \in DOMAIN new
               PROVE  /\ new[k].op = "delete" => k = 1 /\ new[k].slot # 0
                      /\ new[k].op = "on_detached" => k > 1 /\ new[k - 1].op \in {"remove", "delete"}
                      /\ new[k].op = "remove" => new[k].slot \in DOMAIN sl
                      /\ new[k].mod # NoModule => new[k].op = "remove" /\ new[k].mod.name = sl[new[k].slot].name
  BY <1>5 DEF Nested, new, one, e, r
<1>10. CASE k = Len(cs) + 1  BY <1>2, <1>6, <1>10
<1>11. CASE k = Len(cs) + 2
  <2>1. k > 1 /\ k - 1 = Len(cs) + 1  BY <1>4, <1>11
  <2> QED  BY <1>2, <1>6, <1>11, <2>1
<1>12. CASE k \in DOMAIN cs  BY <1>6, <1>8, <1>12 DEF Nested
<1> QED  BY <1>7, <1>10, <1>11, <1>12

(* A callback of a deletion, which goes on with slot i.                    *)
LEMMA DeletingNested ==
  ASSUME NEW sl, NEW d \in Frames, d.op = "delete", d.slot # 0, d.mod = NoModule
  PROVE  /\ Nested(<<d>>, sl)
         /\ Nested(Append(<<d>>, Callback("on_detached")), sl)
<1> DEFINE e == Callback("on_detached")
           new == Append(<<d>>, e)
<1>1. e \in Frames /\ e.op = "on_detached" /\ e.mod = NoModule  BY FrameParts, FrameFields
<1> HIDE DEF e
<1>2. <<d>> \in Seq(Frames) /\ DOMAIN <<d>> = {1} /\ <<d>>[1] = d  OBVIOUS
<1>3. Nested(<<d>>, sl)  BY <1>2 DEF Nested
<1>4. /\ new \in Seq(Frames) /\ DOMAIN new = {1, 2} /\ new[1] = d /\ new[2] = e
  BY <1>1
<1> HIDE DEF new
<1>5. \A k \in DOMAIN new :
        /\ new[k].op = "delete" => k = 1 /\ new[k].slot # 0
        /\ new[k].op = "on_detached" => k > 1 /\ new[k - 1].op \in {"remove", "delete"}
        /\ new[k].op = "remove" => new[k].slot \in DOMAIN sl
        /\ new[k].mod # NoModule => new[k].op = "remove" /\ new[k].mod.name = sl[new[k].slot].name
  BY <1>1, <1>4
<1> QED  BY <1>3, <1>4, <1>5 DEF Nested, new, e

LEMMA StaleNested ==
  ASSUME NEW cs, NEW sl, Nested(cs, sl)
  PROVE  /\ Nested(Stale(cs), sl)
         /\ DOMAIN Stale(cs) = DOMAIN cs
         /\ \A k \in DOMAIN cs : /\ Stale(cs)[k].op = cs[k].op
                                 /\ Stale(cs)[k].slot = cs[k].slot
                                 /\ Stale(cs)[k].mod = cs[k].mod
                                 /\ Stale(cs)[k].code = cs[k].code
<1> DEFINE new == Stale(cs)
<1>1. cs \in Seq(Frames) /\ DOMAIN cs = 1 .. Len(cs) /\ Len(cs) \in Nat  BY DEF Nested
<1>2. \A k \in DOMAIN cs : cs[k] \in Frames  BY <1>1
<1>3. \A f \in Frames : /\ [f EXCEPT !.stale = TRUE] \in Frames
                        /\ [f EXCEPT !.stale = TRUE].op = f.op
                        /\ [f EXCEPT !.stale = TRUE].slot = f.slot
                        /\ [f EXCEPT !.stale = TRUE].mod = f.mod
                        /\ [f EXCEPT !.stale = TRUE].code = f.code
  BY DEF Frames
<1>4. DOMAIN new = DOMAIN cs /\ \A k \in DOMAIN cs : new[k] = [cs[k] EXCEPT !.stale = TRUE]
  BY DEF Stale
<1> HIDE DEF new
<1>5. \A k \in DOMAIN cs : /\ new[k] \in Frames /\ new[k].op = cs[k].op
                           /\ new[k].slot = cs[k].slot /\ new[k].mod = cs[k].mod
                           /\ new[k].code = cs[k].code
  BY <1>2, <1>3, <1>4
<1>6. new \in Seq(Frames)
  <2>1. new \in [1 .. Len(cs) -> Frames]
    <3>1. new = [k \in DOMAIN cs |-> [cs[k] EXCEPT !.stale = TRUE]]  BY DEF new, Stale
    <3> QED  BY <1>1, <1>4, <1>5, <3>1
  <2> QED  BY <1>1, <2>1
<1>7. \A k \in DOMAIN cs : k > 1 => k - 1 \in DOMAIN cs  BY <1>1
<1>8. ASSUME NEW k \in DOMAIN new
      PROVE  /\ new[k].op = "delete" => k = 1 /\ new[k].slot # 0
             /\ new[k].op = "on_detached" => k > 1 /\ new[k - 1].op \in {"remove", "delete"}
             /\ new[k].op = "remove" => new[k].slot \in DOMAIN sl
             /\ new[k].mod # NoModule => new[k].op = "remove" /\ new[k].mod.name = sl[new[k].slot].name
  BY <1>4, <1>5, <1>7, <1>8 DEF Nested
<1>9. Nested(new, sl)  BY <1>6, <1>8 DEF Nested
<1> QED  BY <1>4, <1>5, <1>9 DEF new

LEMMA FrontNested ==
  ASSUME NEW cs, NEW sl, Nested(cs, sl), cs # <<>>
  PROVE  Nested(Front(cs), sl)
<1> DEFINE new == Front(cs)
<1>1. cs \in Seq(Frames)  BY DEF Nested
<1>2. /\ new \in Seq(Frames) /\ DOMAIN cs = 1 .. Len(cs) /\ Len(cs) \in Nat
      /\ DOMAIN new = 1 .. Len(cs) - 1 /\ \A k \in DOMAIN new : new[k] = cs[k]
  BY <1>1, Popped
<1> HIDE DEF new
<1>3. \A k \in DOMAIN new : k \in DOMAIN cs /\ (k > 1 => k - 1 \in DOMAIN new)  BY <1>2
<1>4. ASSUME NEW k \in DOMAIN new
      PROVE  /\ new[k].op = "delete" => k = 1 /\ new[k].slot # 0
             /\ new[k].op = "on_detached" => k > 1 /\ new[k - 1].op \in {"remove", "delete"}
             /\ new[k].op = "remove" => new[k].slot \in DOMAIN sl
             /\ new[k].mod # NoModule => new[k].op = "remove" /\ new[k].mod.name = sl[new[k].slot].name
  BY <1>2, <1>3, <1>4 DEF Nested
<1> QED  BY <1>2, <1>4 DEF Nested, new

LEMMA SameNamesNested ==
  ASSUME NEW cs, NEW sl, NEW sl2, Nested(cs, sl), DOMAIN sl \subseteq DOMAIN sl2,
         \A i \in DOMAIN sl : sl2[i].name = sl[i].name
  PROVE  Nested(cs, sl2)
BY DEF Nested

-----------------------------------------------------------------------------
(* Slots.                                                                  *)

Unique(sl) == \A i, j \in DOMAIN sl : sl[i].name = sl[j].name => i = j

LEMMA SlotAppended ==
  ASSUME slots \in Seq(SlotSet), NamesUnique, NEW mod \in SlotSet,
         \A i \in DOMAIN slots : slots[i].name # mod.name
  PROVE  LET new == Append(slots, mod)
         IN  /\ new \in Seq(SlotSet) /\ Unique(new)
             /\ DOMAIN slots \subseteq DOMAIN new /\ \A i \in DOMAIN slots : new[i] = slots[i]
             /\ DOMAIN new = DOMAIN slots \cup {Len(slots) + 1} /\ new[Len(slots) + 1] = mod
             /\ Len(slots) + 1 \notin DOMAIN slots
<1> DEFINE new == Append(slots, mod)
<1>1. /\ new \in Seq(SlotSet) /\ DOMAIN slots = 1 .. Len(slots) /\ Len(slots) \in Nat
      /\ DOMAIN new = 1 .. Len(slots) + 1 /\ new[Len(slots) + 1] = mod
      /\ \A i \in DOMAIN slots : new[i] = slots[i]
  BY Pushed
<1> HIDE DEF new
<1>2. DOMAIN new = DOMAIN slots \cup {Len(slots) + 1} /\ Len(slots) + 1 \notin DOMAIN slots  BY <1>1
<1>3. Unique(new)  BY <1>1, <1>2 DEF Unique, NamesUnique
<1> QED  BY <1>1, <1>2, <1>3 DEF new

LEMMA SlotReplaced ==
  ASSUME slots \in Seq(SlotSet), NamesUnique, NEW i \in DOMAIN slots, NEW mod \in SlotSet,
         mod.name = slots[i].name
  PROVE  LET new == [slots EXCEPT ![i] = mod]
         IN  /\ new \in Seq(SlotSet) /\ Unique(new) /\ DOMAIN new = DOMAIN slots
             /\ \A j \in DOMAIN slots : new[j] = IF j = i THEN mod ELSE slots[j]
             /\ \A j \in DOMAIN slots : new[j].name = slots[j].name
<1> DEFINE new == [slots EXCEPT ![i] = mod]
<1>1. /\ new \in Seq(SlotSet) /\ DOMAIN new = DOMAIN slots
      /\ \A j \in DOMAIN slots : new[j] = IF j = i THEN mod ELSE slots[j]
  OBVIOUS
<1> HIDE DEF new
<1>2. \A j \in DOMAIN slots : new[j].name = slots[j].name  BY <1>1
<1>3. Unique(new)  BY <1>1, <1>2 DEF Unique, NamesUnique
<1> QED  BY <1>1, <1>2, <1>3 DEF new

LEMMA SlotParts ==
  /\ \A s \in SlotSet : /\ s.name \in Names \cup {Meta} /\ s.type \in {"host", "wasm", Null}
                        /\ s.type = "host" => s.val \in Hosts \cup {Meta}
                        /\ s.type = "wasm" => s.val \in States
                        /\ s = Slot(s.name, s.type, s.val)
                        /\ Slot(s.name, Null, s.val) \in SlotSet
                        /\ [s EXCEPT !.type = Null] = Slot(s.name, Null, s.val)
  /\ \A n \in Names, h \in Hosts : Slot(n, "host", h) \in Modules
  /\ \A n \in Names, s \in States : Slot(n, "wasm", s) \in Modules
  /\ \A m \in Modules : /\ m \in SlotSet /\ m # NoModule
                        /\ m.type \in {"host", "wasm"}
                        /\ m.type = "host" => m.val \in Hosts
                        /\ m.type = "wasm" => m.val \in States
  /\ \A n, t, v : Slot(n, t, v).name = n /\ Slot(n, t, v).type = t /\ Slot(n, t, v).val = v
<1>1. Meta \notin Hosts \cup States  BY NamespaceAssumption DEF Meta
<1>2. \A n, t, v : Slot(n, t, v).name = n /\ Slot(n, t, v).type = t /\ Slot(n, t, v).val = v
  BY DEF Slot
<1>3. \A s \in SlotSet :
        /\ s.name \in Names \cup {Meta} /\ s.type \in {"host", "wasm", Null}
        /\ s.type = "host" => s.val \in Hosts \cup {Meta}
        /\ s.type = "wasm" => s.val \in States
        /\ s = Slot(s.name, s.type, s.val)
        /\ Slot(s.name, Null, s.val) \in SlotSet
        /\ [s EXCEPT !.type = Null] = Slot(s.name, Null, s.val)
  BY DEF SlotSet, Slot, Null
<1>4. \A n \in Names, h \in Hosts : Slot(n, "host", h) \in Modules
  BY <1>1 DEF Modules, SlotSet, Slot, Null
<1>5. \A n \in Names, s \in States : Slot(n, "wasm", s) \in Modules
  BY <1>1 DEF Modules, SlotSet, Slot, Null
<1>6. ASSUME NEW m \in Modules
      PROVE  /\ m \in SlotSet /\ m # NoModule
             /\ m.type \in {"host", "wasm"}
             /\ m.type = "host" => m.val \in Hosts
             /\ m.type = "wasm" => m.val \in States
  <2>1. m \in SlotSet /\ m.type # Null /\ m.val # Meta  BY DEF Modules
  <2>2. NoModule.type = Null  BY <1>2 DEF NoModule
  <2> QED  BY <2>1, <2>2, <1>3
<1> QED  BY <1>2, <1>3, <1>4, <1>5, <1>6

LEMMA SlotVacated ==
  ASSUME slots \in Seq(SlotSet), NamesUnique, NEW i \in DOMAIN slots
  PROVE  /\ Vacated(i) \in Seq(SlotSet) /\ Unique(Vacated(i)) /\ DOMAIN Vacated(i) = DOMAIN slots
         /\ \A j \in DOMAIN slots : /\ Vacated(i)[j].name = slots[j].name
                                    /\ Vacated(i)[j].val = slots[j].val
                                    /\ Vacated(i)[j].type = IF j = i THEN Null ELSE slots[j].type
<1> DEFINE mod == Slot(slots[i].name, Null, slots[i].val)
<1>1. slots[i] \in SlotSet  OBVIOUS
<1>2. mod \in SlotSet /\ mod.name = slots[i].name /\ mod.type = Null /\ mod.val = slots[i].val
      /\ [slots[i] EXCEPT !.type = Null] = mod
  BY <1>1, SlotParts
<1>3. Vacated(i) = [slots EXCEPT ![i] = mod]  BY <1>2 DEF Vacated
<1> DEFINE new == [slots EXCEPT ![i] = mod]
<1> HIDE DEF mod
<1>4. /\ new \in Seq(SlotSet) /\ Unique(new) /\ DOMAIN new = DOMAIN slots
      /\ \A j \in DOMAIN slots : new[j] = IF j = i THEN mod ELSE slots[j]
  BY <1>2, SlotReplaced
<1> HIDE DEF new
<1>5. \A j \in DOMAIN slots : /\ new[j].name = slots[j].name
                              /\ new[j].val = slots[j].val
                              /\ new[j].type = IF j = i THEN Null ELSE slots[j].type
  BY <1>2, <1>4
<1> QED  BY <1>3, <1>4, <1>5 DEF new

-----------------------------------------------------------------------------
(* The state stays well-formed, and names unique, whatever callbacks do.   *)

Stati == [States -> {"unused", "loaded", "freed"}]

LEMMA LoadedTyped ==
  ASSUME NEW st \in Stati, NEW mod \in Modules \cup {NoModule}
  PROVE  /\ Loaded(mod, st) \in Stati
         /\ mod.type = "wasm" => mod.val \in States
         /\ \A s \in States : Loaded(mod, st)[s] = IF mod.type = "wasm" /\ mod.val = s
                                                   THEN "loaded" ELSE st[s]
<1>1. mod.type = "wasm" => mod.val \in States
  BY SlotParts DEF NoModule, Slot, Null
<1> QED  BY <1>1 DEF Loaded, Stati

LEMMA FreeTyped ==
  ASSUME status \in Stati, NEW s \in States, NEW mod \in Modules \cup {NoModule}, Free(s, mod)
  PROVE  status' \in Stati
<1>1. [status EXCEPT ![s] = "freed"] \in Stati  BY DEF Stati
<1> QED  BY <1>1, LoadedTyped DEF Free

LEMMA AttachNested ==
  ASSUME NEW cs, NEW sl, Nested(cs, sl), attached \subseteq Hosts,
         NEW mod \in Modules, Attach(mod, cs)
  PROVE  Nested(calls', sl) /\ attached' \subseteq Hosts
<1>1. mod.type = "host" => mod.val \in Hosts  BY SlotParts
<1>2. /\ Callback("on_attached") \in Frames /\ Callback("on_attached").op = "on_attached"
      /\ Callback("on_attached").mod = NoModule
  BY FrameParts, FrameFields
<1> QED  BY <1>1, <1>2, PushedNested DEF Attach

LEMMA DetachNested ==
  ASSUME Inv, NEW i \in DOMAIN slots, NEW mod \in Modules \cup {NoModule},
         mod # NoModule => mod.name = slots[i].name, NEW under, Nested(under, slots),
         Detach(i, Append(under, Removing(i, mod)))
  PROVE  Nested(calls', slots) /\ attached' \subseteq Hosts /\ slots' = slots
<1>1. DOMAIN slots \subseteq Nat  BY DEF Inv, Typed
<1> QED  BY <1>1, RemovingNested DEF Detach, Inv, Typed

LEMMA DefineInv ==
  ASSUME Inv, NEW mod \in Modules, NEW under, Nested(under, slots), Define(mod, under)
  PROVE  /\ slots' \in Seq(SlotSet) /\ status' \in Stati /\ attached' \subseteq Hosts
         /\ Nested(calls', slots') /\ Unique(slots')
<1> DEFINE i == Find(mod.name)
<1>1. /\ slots \in Seq(SlotSet) /\ status \in Stati /\ attached \subseteq Hosts
      /\ Nested(calls, slots) /\ NamesUnique /\ Unique(slots)
  BY DEF Inv, Typed, Stati, Unique, NamesUnique
<1>2. /\ i = 0 => \A j \in DOMAIN slots : slots[j].name # mod.name
      /\ i # 0 => i \in DOMAIN slots /\ slots[i].name = mod.name
  BY <1>1, FindFinds
<1>3. mod \in SlotSet /\ mod # NoModule /\ Loaded(mod, status) \in Stati
  BY <1>1, SlotParts, LoadedTyped
<1>4. CASE i = 0
  <2>1. /\ slots' = Append(slots, mod) /\ status' = Loaded(mod, status)
        /\ \E moved \in {FALSE, Grows} : Attach(mod, IF moved THEN Stale(under) ELSE under)
    BY <1>4 DEF Define
  <2>2. PICK cs \in {under, Stale(under)} : Attach(mod, cs)  BY <2>1
  <2>3. Nested(cs, slots)  BY <2>2, StaleNested
  <2>4. /\ slots' \in Seq(SlotSet) /\ Unique(slots')
        /\ DOMAIN slots \subseteq DOMAIN slots' /\ \A j \in DOMAIN slots : slots'[j] = slots[j]
    BY <1>1, <1>2, <1>3, <1>4, <2>1, SlotAppended
  <2>5. Nested(cs, slots')  BY <2>3, <2>4, SameNamesNested
  <2>6. Nested(calls', slots') /\ attached' \subseteq Hosts  BY <1>1, <2>2, <2>5, AttachNested
  <2> QED  BY <1>3, <2>1, <2>4, <2>6
<1>5. CASE i # 0
  <2>1. i \in DOMAIN slots /\ slots[i].name = mod.name  BY <1>2, <1>5
  <2>2. status' \in Stati
    <3>1. CASE slots[i].type = "wasm"
      <4>1. Free(slots[i].val, mod)  BY <1>5, <3>1 DEF Define
      <4> HIDE DEF i
      <4>2. slots[i] \in SlotSet  BY <1>1, <2>1
      <4>3. slots[i].val \in States  BY <3>1, <4>2, SlotParts
      <4> QED  BY <1>1, <4>1, <4>3, FreeTyped
    <3>2. CASE slots[i].type # "wasm"
      BY <1>3, <1>5, <3>2 DEF Define
    <3> QED  BY <3>1, <3>2
  <2>3. CASE slots[i].type = "host"
    <3>1. Detach(i, Append(under, Removing(i, mod)))  BY <1>5, <2>3 DEF Define
    <3> HIDE DEF i
    <3>2. Nested(calls', slots) /\ attached' \subseteq Hosts /\ slots' = slots
      BY <2>1, <3>1, DetachNested
    <3> QED  BY <1>1, <2>2, <3>2
  <2>4. CASE slots[i].type # "host"
    <3>1. slots' = [slots EXCEPT ![i] = mod] /\ Attach(mod, under)  BY <1>5, <2>4 DEF Define
    <3> HIDE DEF i
    <3>2. /\ slots' \in Seq(SlotSet) /\ Unique(slots') /\ DOMAIN slots' = DOMAIN slots
          /\ \A j \in DOMAIN slots : slots'[j].name = slots[j].name
      BY <1>1, <1>3, <2>1, <3>1, SlotReplaced
    <3>3. Nested(under, slots')  BY <3>2, SameNamesNested
    <3>4. Nested(calls', slots') /\ attached' \subseteq Hosts  BY <1>1, <3>1, <3>3, AttachNested
    <3> QED  BY <2>2, <3>2, <3>4
  <2> QED  BY <2>3, <2>4
<1> QED  BY <1>4, <1>5

LEMMA RemoveInv ==
  ASSUME Inv, NEW n, RemoveModule(n)
  PROVE  /\ slots' \in Seq(SlotSet) /\ status' \in Stati /\ attached' \subseteq Hosts
         /\ Nested(calls', slots') /\ Unique(slots')
<1> DEFINE i == Find(n)
<1>1. /\ slots \in Seq(SlotSet) /\ status \in Stati /\ attached \subseteq Hosts
      /\ Nested(calls, slots) /\ NamesUnique /\ Unique(slots)
  BY DEF Inv, Typed, Stati, Unique, NamesUnique
<1>2. i \in DOMAIN slots  BY <1>1, FindFinds DEF RemoveModule
<1>3. CASE slots[i].type = "host"
  <2>1. Detach(i, Append(calls, Removing(i, NoModule))) /\ status' = status
    BY <1>3 DEF RemoveModule, Null
  <2> HIDE DEF i
  <2> QED  BY <1>1, <1>2, <2>1, DetachNested
<1>4. CASE slots[i].type = "wasm"
  <2>1. slots' = Vacated(i) /\ Free(slots[i].val, NoModule) /\ UNCHANGED <<calls, attached>>
    BY <1>4 DEF RemoveModule, Null
  <2> HIDE DEF i
  <2>2. slots[i] \in SlotSet  BY <1>1, <1>2
  <2>3. status' \in Stati  BY <1>1, <1>4, <2>1, <2>2, SlotParts, FreeTyped
  <2>4. /\ slots' \in Seq(SlotSet) /\ Unique(slots') /\ DOMAIN slots' = DOMAIN slots
        /\ \A j \in DOMAIN slots : slots'[j].name = slots[j].name
    BY <1>1, <1>2, <2>1, SlotVacated
  <2> QED  BY <1>1, <2>1, <2>3, <2>4, SameNamesNested
<1>5. CASE slots[i].type = Null
  <2>1. UNCHANGED <<slots, status, calls, attached>>  BY <1>5 DEF RemoveModule, Null
  <2> QED  BY <1>1, <2>1
<1>6. slots[i].type \in {"host", "wasm", Null}
  <2> HIDE DEF i
  <2>1. slots[i] \in SlotSet  BY <1>1, <1>2
  <2> QED  BY <2>1, SlotParts
<1> QED  BY <1>3, <1>4, <1>5, <1>6

(* The operation that a callback returns to.                               *)
Below == Last(Front(calls))

LEMMA DetachedBelow ==
  ASSUME Nested(calls, slots), calls # <<>>, Last(calls).op = "on_detached"
  PROVE  /\ Len(calls) \in Nat /\ Len(calls) > 1 /\ DOMAIN calls = 1 .. Len(calls)
         /\ Below = calls[Len(calls) - 1] /\ Below \in Frames
         /\ Below.op \in {"remove", "delete"} /\ Front(calls) # <<>>
         /\ Below.op = "remove" => Below.slot \in DOMAIN slots
         /\ Below.mod # NoModule => Below.op = "remove" /\ Below.mod.name = slots[Below.slot].name
         /\ Below.mod \in Modules \cup {NoModule}
<1>1. calls \in Seq(Frames)  BY DEF Nested
<1>2. /\ DOMAIN calls = 1 .. Len(calls) /\ Len(calls) \in Nat \ {0}
      /\ Last(calls) = calls[Len(calls)]
      /\ Front(calls) \in Seq(Frames) /\ Len(Front(calls)) = Len(calls) - 1
      /\ DOMAIN Front(calls) = 1 .. Len(calls) - 1
      /\ \A k \in DOMAIN Front(calls) : Front(calls)[k] = calls[k]
  BY <1>1, Popped
<1>3. Len(calls) \in DOMAIN calls  BY <1>2
<1>4. Len(calls) > 1 /\ calls[Len(calls) - 1].op \in {"remove", "delete"}
  BY <1>2, <1>3 DEF Nested
<1>5. Len(calls) - 1 \in DOMAIN Front(calls) /\ Len(calls) - 1 \in DOMAIN calls
  BY <1>2, <1>4
<1>6. Front(calls) # <<>>  BY <1>5, <1>2
<1>7. Below = calls[Len(calls) - 1]  BY <1>2, <1>5 DEF Below, Last
<1>8. Below \in Frames  BY <1>1, <1>5, <1>7
<1>9. Below.mod \in Modules \cup {NoModule}  BY <1>8 DEF Frames
<1> QED  BY <1>2, <1>4, <1>5, <1>6, <1>7, <1>8, <1>9 DEF Nested

LEMMA DetachedReturnsInv ==
  ASSUME Inv, DetachedReturns
  PROVE  /\ slots' \in Seq(SlotSet) /\ status' \in Stati /\ attached' \subseteq Hosts
         /\ Nested(calls', slots') /\ Unique(slots')
<1> DEFINE f == Below
           under == Front(calls)
<1>1. /\ slots \in Seq(SlotSet) /\ status \in Stati /\ attached \subseteq Hosts
      /\ Nested(calls, slots) /\ NamesUnique /\ Unique(slots)
  BY DEF Inv, Typed, Stati, Unique, NamesUnique
<1>2. calls # <<>> /\ Last(calls).op = "on_detached" /\ status' = status  BY DEF DetachedReturns
<1>3. /\ f.op \in {"remove", "delete"} /\ under # <<>>
      /\ f.op = "remove" => f.slot \in DOMAIN slots
      /\ f.mod # NoModule => f.op = "remove" /\ f.mod.name = slots[f.slot].name
      /\ f.mod \in Modules \cup {NoModule}
  BY <1>1, <1>2, DetachedBelow
<1>4. Nested(under, slots) /\ Nested(Front(under), slots)
  <2>1. Nested(under, slots)  BY <1>1, <1>2, FrontNested
  <2> HIDE DEF under
  <2> QED  BY <2>1, <1>3, FrontNested
<1>5. CASE f.op = "delete"
  <2>1. calls' = under /\ slots' = slots /\ attached' = attached  BY <1>5 DEF DetachedReturns, Below
  <2> QED  BY <1>1, <1>2, <1>4, <2>1
<1>6. CASE f.op # "delete" /\ f.stale
  <2>1. calls' = Front(under) /\ slots' = slots /\ attached' = attached
    BY <1>6 DEF DetachedReturns, Below
  <2> QED  BY <1>1, <1>2, <1>4, <2>1
<1>7. CASE f.op # "delete" /\ ~f.stale /\ f.mod = NoModule
  <2>1. slots' = Vacated(f.slot) /\ calls' = Front(under) /\ attached' = attached
    BY <1>7 DEF DetachedReturns, Below
  <2> HIDE DEF f, under
  <2>2. f.slot \in DOMAIN slots  BY <1>3, <1>7
  <2>3. /\ slots' \in Seq(SlotSet) /\ Unique(slots') /\ DOMAIN slots' = DOMAIN slots
        /\ \A j \in DOMAIN slots : slots'[j].name = slots[j].name
    BY <1>1, <2>1, <2>2, SlotVacated
  <2> QED  BY <1>1, <1>2, <1>4, <2>1, <2>3, SameNamesNested
<1>8. CASE f.op # "delete" /\ ~f.stale /\ f.mod # NoModule
  <2>1. slots' = [slots EXCEPT ![f.slot] = f.mod] /\ Attach(f.mod, Front(under))
    BY <1>8 DEF DetachedReturns, Below
  <2> HIDE DEF f, under
  <2>2. f.slot \in DOMAIN slots /\ f.mod \in Modules /\ f.mod.name = slots[f.slot].name
    BY <1>3, <1>8
  <2>3. f.mod \in SlotSet  BY <2>2, SlotParts
  <2>4. /\ slots' \in Seq(SlotSet) /\ Unique(slots') /\ DOMAIN slots' = DOMAIN slots
        /\ \A j \in DOMAIN slots : slots'[j].name = slots[j].name
    BY <1>1, <2>1, <2>2, <2>3, SlotReplaced
  <2>5. Nested(Front(under), slots')  BY <1>4, <2>4, SameNamesNested
  <2>6. Nested(calls', slots') /\ attached' \subseteq Hosts  BY <1>1, <2>1, <2>2, <2>5, AttachNested
  <2> QED  BY <1>1, <1>2, <2>4, <2>6
<1> QED  BY <1>5, <1>6, <1>7, <1>8

(* The frame of a deletion is alone when it is innermost.                  *)
LEMMA DeleteAlone ==
  ASSUME Nested(calls, slots), calls # <<>>, Last(calls).op = "delete"
  PROVE  /\ Len(calls) = 1 /\ DOMAIN calls = {1} /\ Front(calls) = <<>>
         /\ Last(calls) = calls[1] /\ calls = <<Last(calls)>>
         /\ Last(calls) \in Frames /\ Last(calls).slot # 0 /\ Last(calls).mod = NoModule
<1>1. calls \in Seq(Frames)  BY DEF Nested
<1>2. /\ Front(calls) \in Seq(Frames) /\ Last(calls) \in Frames
      /\ DOMAIN calls = 1 .. Len(calls) /\ Len(calls) \in Nat \ {0}
      /\ Len(Front(calls)) = Len(calls) - 1 /\ Last(calls) = calls[Len(calls)]
  BY <1>1, Popped
<1>3. Len(calls) \in DOMAIN calls  BY <1>2
<1>4. Len(calls) = 1 /\ Last(calls).slot # 0  BY <1>2, <1>3 DEF Nested
<1>5. Front(calls) = <<>>  BY <1>2, <1>4
<1>6. Last(calls) = calls[1] /\ DOMAIN calls = {1} /\ 1 \in DOMAIN calls  BY <1>2, <1>4
<1>7. Last(calls).mod = NoModule  BY <1>3, <1>2 DEF Nested
<1>8. calls = <<Last(calls)>>  BY <1>1, <1>4, <1>6
<1> QED  BY <1>2, <1>4, <1>5, <1>6, <1>7, <1>8

LEMMA AdvancedFrame ==
  ASSUME NEW d \in Frames
  PROVE  /\ Advanced(d) \in Frames /\ Advanced(d).slot = d.slot + 1
         /\ Advanced(d).op = d.op /\ Advanced(d).mod = d.mod /\ Advanced(d).stale = d.stale
         /\ Advanced(d).code = d.code
BY DEF Advanced, Frames

LEMMA DeleteOneInv ==
  ASSUME Inv, DeleteOne
  PROVE  /\ slots' \in Seq(SlotSet) /\ status' \in Stati /\ attached' \subseteq Hosts
         /\ Nested(calls', slots') /\ Unique(slots')
<1> DEFINE i == Last(calls).slot
           d == Advanced(Last(calls))
           on == Append(Front(calls), d)
<1>1. /\ slots \in Seq(SlotSet) /\ status \in Stati /\ attached \subseteq Hosts
      /\ Nested(calls, slots) /\ NamesUnique /\ Unique(slots)
  BY DEF Inv, Typed, Stati, Unique, NamesUnique
<1>2. /\ calls # <<>> /\ Last(calls).op = "delete" /\ i \in DOMAIN slots  BY DEF DeleteOne
<1>3. /\ Last(calls) \in Frames /\ Last(calls).mod = NoModule /\ Front(calls) = <<>>
  BY <1>1, <1>2, DeleteAlone
<1>4. d \in Frames /\ d.op = "delete" /\ d.slot = i + 1 /\ d.mod = NoModule /\ i \in Nat
  BY <1>2, <1>3, AdvancedFrame DEF Frames
<1>5. on = <<d>>  BY <1>3
<1>6. d.slot # 0  BY <1>4
<1>7. slots[i] \in SlotSet  BY <1>1, <1>2
<1>8. /\ slots[i].type = "host" => Detach(i, on) /\ status' = status
      /\ slots[i].type = "wasm" =>
           calls' = on /\ Free(slots[i].val, NoModule) /\ UNCHANGED <<slots, attached>>
      /\ slots[i].type = Null => calls' = on /\ UNCHANGED <<slots, attached, status>>
  BY DEF DeleteOne, Null
<1> HIDE DEF i, d, on
<1>9. Nested(on, slots) /\ Nested(Append(on, Callback("on_detached")), slots)
  BY <1>4, <1>5, <1>6, DeletingNested
<1>10. CASE slots[i].type = "host"  BY <1>1, <1>8, <1>9, <1>10 DEF Detach
<1>11. CASE slots[i].type = "wasm"
  <2>1. slots[i].val \in States  BY <1>7, <1>11, SlotParts
  <2>2. status' \in Stati  BY <1>1, <1>8, <1>11, <2>1, FreeTyped
  <2> QED  BY <1>1, <1>8, <1>9, <1>11, <2>2
<1>12. CASE slots[i].type = Null  BY <1>1, <1>8, <1>9, <1>12
<1> QED  BY <1>7, <1>10, <1>11, <1>12, SlotParts

LEMMA InvHolds ==
  ASSUME slots' \in Seq(SlotSet), status' \in Stati, attached' \subseteq Hosts,
         lasting' \subseteq States, deleted' \in BOOLEAN, Nested(calls', slots'), Unique(slots')
  PROVE  Inv'
BY DEF Inv, Typed, Stati, Nested, Unique, NamesUnique

LEMMA DefineWasmInv ==
  ASSUME Inv, NEW n \in Names, NEW s \in States, NEW keeps \in BOOLEAN,
         NEW under, Nested(under, slots), DefineWasm(n, s, keeps, under)
  PROVE  Inv'
<1>1. Slot(n, "wasm", s) \in Modules  BY SlotParts
<1>2. Define(Slot(n, "wasm", s), under) /\ lasting' \subseteq States /\ deleted' \in BOOLEAN
  BY DEF DefineWasm, Inv, Typed
<1> QED  BY <1>1, <1>2, DefineInv, InvHolds

LEMMA RemoveModuleInv ==
  ASSUME Inv, NEW n, RemoveModule(n)
  PROVE  Inv'
<1>1. lasting' \subseteq States /\ deleted' \in BOOLEAN  BY DEF RemoveModule, Inv, Typed
<1> QED  BY <1>1, RemoveInv, InvHolds

LEMMA InitInv == Init => Inv
<1> SUFFICES ASSUME Init PROVE Inv  OBVIOUS
<1> DEFINE meta == Slot(Meta, "host", Meta)
<1>1. meta \in SlotSet /\ meta.name = Meta  BY DEF SlotSet, Slot, Meta, Null
<1>2. slots = <<meta>>  BY DEF Init
<1> HIDE DEF meta
<1>3. slots \in Seq(SlotSet) /\ DOMAIN slots = {1}  BY <1>1, <1>2
<1>4. NamesUnique  BY <1>3 DEF NamesUnique
<1>5. status \in Stati /\ attached \subseteq Hosts /\ lasting \subseteq States /\ deleted \in BOOLEAN
  BY DEF Init, Stati
<1>6. calls = <<>> /\ calls \in Seq(Frames) /\ DOMAIN calls = {}  BY DEF Init
<1>7. Nested(calls, slots)  BY <1>6 DEF Nested
<1> QED  BY <1>3, <1>4, <1>5, <1>7 DEF Inv, Typed, Stati

LEMMA NextInv == Inv /\ [Next]_vars => Inv'
<1> SUFFICES ASSUME Inv, [Next]_vars PROVE Inv'  OBVIOUS
<1>1. /\ slots \in Seq(SlotSet) /\ status \in Stati /\ attached \subseteq Hosts
      /\ lasting \subseteq States /\ deleted \in BOOLEAN
      /\ Nested(calls, slots) /\ Unique(slots)
  BY DEF Inv, Typed, Stati, Unique, NamesUnique
<1>2. ASSUME NEW n \in Names, NEW h \in Hosts, DefineHost(n, h) PROVE Inv'
  <2>1. Slot(n, "host", h) \in Modules  BY SlotParts
  <2>2. Define(Slot(n, "host", h), calls) /\ lasting' \subseteq States /\ deleted' \in BOOLEAN
    BY <1>1, <1>2 DEF DefineHost
  <2> QED  BY <1>1, <2>1, <2>2, DefineInv, InvHolds
<1>3. ASSUME NEW n \in Names, NEW s \in States, NEW keeps \in BOOLEAN,
             DefineWasm(n, s, keeps, calls)
      PROVE  Inv'
  BY <1>1, <1>3, DefineWasmInv
<1>4. ASSUME NEW n \in Names, RemoveModule(n) PROVE Inv'
  BY <1>4, RemoveModuleInv
<1>5. ASSUME NEW s \in States, NEW new \in States, NEW n \in Names, NEW compiles \in BOOLEAN,
             LoadModule(s, n, new, compiles)
      PROVE  Inv'
  <2>1. CASE DefineWasm(n, new, FALSE, Append(calls, Starting(new)))
    <3>1. Nested(Append(calls, Starting(new)), slots)
      BY <1>1, FrameParts, FrameFields, PushedNested
    <3> QED  BY <2>1, <3>1, DefineWasmInv
  <2>2. CASE \E how : Faults(how)  BY <1>1, <2>2, InvHolds DEF Faults
  <2> QED  BY <1>5, <2>1, <2>2 DEF LoadModule, LostStruct
<1>6. ASSUME NEW s \in States, NEW n \in Names, UnloadModule(s, n) PROVE Inv'
  <2>1. CASE RemoveModule(n)  BY <2>1, RemoveModuleInv
  <2>2. CASE \E how : Faults(how)  BY <1>1, <2>2, InvHolds DEF Faults
  <2> QED  BY <1>6, <2>1, <2>2 DEF UnloadModule, LostStruct
<1>7. CASE BeginDelete
  <2>1. calls' = <<Deleting(1)>> /\ UNCHANGED <<slots, status, attached, lasting, deleted>>
    BY <1>7 DEF BeginDelete
  <2>2. /\ Deleting(1) \in Frames /\ Deleting(1).op = "delete" /\ Deleting(1).slot # 0
        /\ Deleting(1).mod = NoModule
    BY FrameParts, FrameFields
  <2> QED  BY <1>1, <2>1, <2>2, DeletingNested, InvHolds
<1>8. CASE AttachedReturns
  <2>1. calls # <<>> /\ calls' = Front(calls)
        /\ UNCHANGED <<slots, status, attached, lasting, deleted>>
    BY <1>8 DEF AttachedReturns
  <2> QED  BY <1>1, <2>1, FrontNested, InvHolds
<1>9. CASE DetachedReturns
  <2>1. UNCHANGED <<lasting, deleted>>  BY <1>9 DEF DetachedReturns
  <2> QED  BY <1>1, <1>9, <2>1, DetachedReturnsInv, InvHolds
<1>10. CASE DeleteOne
  <2>1. UNCHANGED <<lasting, deleted>>  BY <1>10 DEF DeleteOne
  <2> QED  BY <1>1, <1>10, <2>1, DeleteOneInv, InvHolds
<1>11. CASE EndDelete
  <2>1. /\ calls # <<>> /\ calls' = Front(calls) /\ deleted' = TRUE
        /\ UNCHANGED <<slots, status, attached, lasting>>
    BY <1>11 DEF EndDelete
  <2> QED  BY <1>1, <2>1, FrontNested, InvHolds
<1>12. CASE UNCHANGED vars  BY <1>1, <1>12, InvHolds DEF vars
<1>13. ASSUME NEW s \in States, Call(s) PROVE Inv'
  <2>1. calls' = Append(calls, Running(s)) /\ UNCHANGED <<slots, status, attached, lasting, deleted>>
    BY <1>13 DEF Call
  <2>2. Nested(calls', slots)  BY <1>1, <2>1, FrameParts, FrameFields, PushedNested
  <2> QED  BY <1>1, <2>1, <2>2, InvHolds
<1>14. CASE Return
  <2>1. calls # <<>> /\ calls' = Front(calls)
        /\ UNCHANGED <<slots, status, attached, lasting, deleted>>
    BY <1>14 DEF Return
  <2> QED  BY <1>1, <2>1, FrontNested, InvHolds
<1>15. CASE Starts
  <2>1. /\ calls # <<>> /\ calls' \in {Front(calls), Append(Front(calls), Running(Last(calls).code))}
        /\ UNCHANGED <<slots, status, attached, lasting, deleted>>
    BY <1>15 DEF Starts
  <2>2. Last(calls).code \in States
    <3>1. Last(calls) \in Frames  BY <1>1, <2>1, Popped DEF Nested
    <3> QED  BY <1>15, <3>1 DEF Starts, Frames
  <2>3. Nested(Front(calls), slots)  BY <1>1, <2>1, FrontNested
  <2>4. Nested(Append(Front(calls), Running(Last(calls).code)), slots)
    BY <2>2, <2>3, FrameParts, FrameFields, PushedNested
  <2> QED  BY <1>1, <2>1, <2>3, <2>4, InvHolds
<1> QED  BY <1>2, <1>3, <1>4, <1>5, <1>6, <1>7, <1>8, <1>9, <1>10, <1>11, <1>12, <1>13, <1>14, <1>15
         DEF Next, Embedder, Operation

LEMMA InvTypes == Inv => TypeOK /\ NamesUnique
<1> SUFFICES ASSUME Inv PROVE TypeOK  BY DEF Inv
<1>1. ASSUME NEW i \in DOMAIN slots
      PROVE  /\ slots[i].name \in Names \cup {Meta}
             /\ \/ slots[i].type \in {"host", Null} /\ slots[i].val \in Hosts \cup {Meta}
                \/ slots[i].type \in {"wasm", Null} /\ slots[i].val \in States
  <2>1. slots[i] \in SlotSet  BY DEF Inv, Typed
  <2>2. slots[i].val \in Hosts \cup States \cup {Meta}  BY <2>1 DEF SlotSet
  <2> QED  BY <2>1, <2>2, SlotParts
<1>2. ASSUME NEW k \in DOMAIN calls
      PROVE  /\ calls[k].op = "remove" => calls[k].slot \in DOMAIN slots
             /\ calls[k].op \in {"running", "starting"} <=> calls[k].code \in States
  <2>1. calls[k] \in Frames /\ "none" \notin States  BY NamespaceAssumption DEF Inv, Nested
  <2> QED  BY <2>1 DEF Inv, Nested, Frames
<1> QED  BY <1>1, <1>2 DEF TypeOK, Inv, Typed

(* The state of a namespace stays well-formed, whatever callbacks do in    *)
(* the middle of define_module, remove_module and a deletion.              *)
THEOREM NamespaceAlwaysTyped == Spec => []TypeOK
<1>1. Init => Inv  BY InitInv
<1>2. Inv /\ [Next]_vars => Inv'  BY NextInv
<1>3. Inv => TypeOK  BY InvTypes
<1> QED  BY <1>1, <1>2, <1>3, PTL DEF Spec

(* Every name has one slot: also when a callback of define_module or       *)
(* remove_module defines or removes other modules, or the same.            *)
THEOREM NamesAlwaysUnique == Spec => []NamesUnique
<1>1. Init => Inv  BY InitInv
<1>2. Inv /\ [Next]_vars => Inv'  BY NextInv
<1>3. Inv => NamesUnique  BY InvTypes
<1> QED  BY <1>1, <1>2, <1>3, PTL DEF Spec

-----------------------------------------------------------------------------
(***************************************************************************)
(* Who has the modules of a namespace: proofs that no operation uses what  *)
(* is gone and that every module has one owner, if callbacks and modules   *)
(* do only what the code can bear: anything but what Unbearable lists.     *)
(***************************************************************************)

(* What the code cannot bear.                                              *)
Unbearable ==
  {<<"in remove", "define new">>, <<"in remove", "define same">>,
   <<"in delete", "remove">>, <<"in delete", "define over">>,
   <<"in code", "lost struct">>, <<"in code", "bad bytes">>, <<"in code", "free">>}
Bearable == Liberties \cap Unbearable = {}

(* The remove_module under way, and where the deletion under way is.       *)
Removes(cs) == {k \in DOMAIN cs : cs[k].op = "remove"}
Deletes(cs) == {cs[k].slot : k \in {l \in DOMAIN cs : cs[l].op = "delete"}}

(* No two slots, or modules about to be stored, are of the same module.    *)
Apart ==
  /\ \A i, j \in DOMAIN slots :
       slots[i].type # Null /\ slots[j].type # Null /\ slots[i].val = slots[j].val => i = j
  /\ \A k, l \in Removes(calls) :
       /\ calls[k].mod # NoModule /\ calls[l].mod # NoModule
       /\ calls[k].mod.val = calls[l].mod.val
       => k = l
  /\ \A i \in DOMAIN slots, k \in Removes(calls) :
       slots[i].type # Null /\ calls[k].mod # NoModule => slots[i].val # calls[k].mod.val

(* A wasm module is loaded while it has a place, but for those that the    *)
(* deletion under way has passed.                                          *)
Owned ==
  /\ \A i \in DOMAIN slots : slots[i].type = "wasm" =>
       /\ status[slots[i].val] # "unused"
       /\ status[slots[i].val] = "loaded" \/ deleted \/ \E d \in Deletes(calls) : i < d
  /\ \A k \in Removes(calls) : calls[k].mod.type = "wasm" => status[calls[k].mod.val] = "loaded"
  /\ \A s \in States : status[s] = "loaded" =>
       \/ \E i \in DOMAIN slots : slots[i].type = "wasm" /\ slots[i].val = s
       \/ \E k \in Removes(calls) : calls[k].mod.type = "wasm" /\ calls[k].mod.val = s

(* What remove_module comes back to is as it left it, or the same removal  *)
(* was begun again by a callback and is done: only the outermost of the    *)
(* removals of a slot stores a module.                                     *)
Removals ==
  /\ \A k \in Removes(calls) : ~calls[k].stale /\ slots[calls[k].slot].type \in {"host", Null}
  /\ \A k, l \in Removes(calls) :
       k < l /\ calls[k].slot = calls[l].slot => calls[l].mod = NoModule
  /\ Deletes(calls) # {} => Removes(calls) = {}
  /\ deleted => calls = <<>>

Paired ==
  ~deleted /\ Deletes(calls) = {} =>
    \A h \in Hosts : h \in attached <=>
      \E i \in DOMAIN slots : /\ slots[i].type = "host" /\ slots[i].val = h
                              /\ \A k \in Removes(calls) : calls[k].slot # i

(* Whether a slot has a module that is in use.                             *)
Used(i) ==
  \/ slots[i].type = "wasm" /\ status[slots[i].val] = "loaded"
  \/ slots[i].type = "host" /\ slots[i].val \in attached

(* What a deletion has passed is not in use.                               *)
Passed ==
  \A d \in Deletes(calls) :
    /\ d \in Nat
    /\ \A i \in Nat \ {0} : i < d => i \in DOMAIN slots /\ ~Used(i)

Ownership == Apart /\ Owned /\ Removals /\ Paired /\ Passed /\ NoFault

(* The modules whose code runs, or will be started, are loaded.            *)
Codes(cs) == {cs[k].code : k \in DOMAIN cs} \ {"none"}
RunningLoaded == \A s \in Codes(calls) : status[s] = "loaded"

(* A step is one of the registry, or changes nothing that it has.          *)
RegistryStep == Inv' => [Registry!Next]_Registry!vars

-----------------------------------------------------------------------------
(* Removals and deletions under way when operations and callbacks begin    *)
(* and end.                                                                *)

Same(cs, new) ==
  /\ Removes(new) = Removes(cs) /\ Deletes(new) = Deletes(cs)
  /\ \A k \in Removes(cs) : new[k] = cs[k]

LEMMA PushOther ==
  ASSUME NEW cs \in Seq(Frames), NEW e \in Frames, e.op \notin {"remove", "delete"}
  PROVE  Same(cs, Append(cs, e))
<1> DEFINE new == Append(cs, e)
<1>1. /\ DOMAIN cs = 1 .. Len(cs) /\ Len(cs) \in Nat /\ DOMAIN new = 1 .. Len(cs) + 1
      /\ new[Len(cs) + 1] = e /\ \A k \in DOMAIN cs : new[k] = cs[k]
  BY Pushed
<1> HIDE DEF new
<1>2. \A k \in DOMAIN new : k \in DOMAIN cs \/ new[k] = e  BY <1>1
<1>3. \A k \in DOMAIN cs : k \in DOMAIN new  BY <1>1
<1>4. Removes(new) = Removes(cs)  BY <1>1, <1>2, <1>3 DEF Removes
<1>5. Deletes(new) = Deletes(cs)  BY <1>1, <1>2, <1>3 DEF Deletes
<1> QED  BY <1>1, <1>4, <1>5 DEF Same, Removes, new

LEMMA PopOther ==
  ASSUME NEW cs \in Seq(Frames), cs # <<>>, Last(cs).op \notin {"remove", "delete"}
  PROVE  Same(cs, Front(cs))
<1> DEFINE new == Front(cs)
<1>1. /\ DOMAIN cs = 1 .. Len(cs) /\ Len(cs) \in Nat \ {0} /\ DOMAIN new = 1 .. Len(cs) - 1
      /\ Last(cs) = cs[Len(cs)] /\ \A k \in DOMAIN new : new[k] = cs[k]
  BY Popped
<1> HIDE DEF new
<1>2. \A k \in DOMAIN cs : k \in DOMAIN new \/ cs[k].op \notin {"remove", "delete"}
  <2>1. \A k \in DOMAIN cs : k \in DOMAIN new \/ k = Len(cs)  BY <1>1
  <2> QED  BY <1>1, <2>1
<1>3. \A k \in DOMAIN new : k \in DOMAIN cs  BY <1>1
<1>4. Removes(new) = Removes(cs)  BY <1>1, <1>2, <1>3 DEF Removes
<1>5. Deletes(new) = Deletes(cs)  BY <1>1, <1>2, <1>3 DEF Deletes
<1> QED  BY <1>1, <1>2, <1>4, <1>5 DEF Same, Removes, new

LEMMA PushRemove ==
  ASSUME NEW cs \in Seq(Frames), NEW e \in Frames, e.op = "remove"
  PROVE  LET new == Append(cs, e)
             n == Len(cs) + 1
         IN  /\ Removes(new) = Removes(cs) \cup {n} /\ n \notin Removes(cs) /\ new[n] = e
             /\ Deletes(new) = Deletes(cs) /\ \A k \in Removes(cs) : new[k] = cs[k]
<1> DEFINE new == Append(cs, e)
           n == Len(cs) + 1
<1>1. /\ DOMAIN cs = 1 .. Len(cs) /\ Len(cs) \in Nat /\ DOMAIN new = 1 .. n
      /\ new[n] = e /\ \A k \in DOMAIN cs : new[k] = cs[k]
  BY Pushed
<1> HIDE DEF new
<1>2. DOMAIN new = DOMAIN cs \cup {n} /\ n \notin DOMAIN cs  BY <1>1
<1> HIDE DEF n
<1>3. Removes(new) = Removes(cs) \cup {n}  BY <1>1, <1>2 DEF Removes
<1>4. Deletes(new) = Deletes(cs)  BY <1>1, <1>2 DEF Deletes
<1> QED  BY <1>1, <1>2, <1>3, <1>4 DEF Removes, new, n

LEMMA PopRemove ==
  ASSUME NEW cs \in Seq(Frames), cs # <<>>, Last(cs).op = "remove"
  PROVE  LET new == Front(cs)
             n == Len(cs)
         IN  /\ Removes(new) = Removes(cs) \ {n} /\ n \in Removes(cs) /\ cs[n] = Last(cs)
             /\ Deletes(new) = Deletes(cs) /\ \A k \in Removes(new) : new[k] = cs[k]
<1> DEFINE new == Front(cs)
           n == Len(cs)
<1>1. /\ DOMAIN cs = 1 .. n /\ n \in Nat \ {0} /\ DOMAIN new = 1 .. n - 1
      /\ Last(cs) = cs[n] /\ \A k \in DOMAIN new : new[k] = cs[k]
  BY Popped
<1> HIDE DEF new
<1>2. DOMAIN cs = DOMAIN new \cup {n} /\ n \notin DOMAIN new  BY <1>1
<1> HIDE DEF n
<1>3. Removes(new) = Removes(cs) \ {n} /\ n \in Removes(cs)  BY <1>1, <1>2 DEF Removes
<1>4. Deletes(new) = Deletes(cs)  BY <1>1, <1>2 DEF Deletes
<1> QED  BY <1>1, <1>2, <1>3, <1>4 DEF Removes, new, n

LEMMA StaleOthers ==
  ASSUME NEW cs, NEW sl, Nested(cs, sl), Removes(cs) = {}
  PROVE  Same(cs, Stale(cs))
<1> DEFINE new == Stale(cs)
<1>1. DOMAIN new = DOMAIN cs /\ \A k \in DOMAIN cs : new[k].op = cs[k].op /\ new[k].slot = cs[k].slot
  BY StaleNested
<1> HIDE DEF new
<1>2. Removes(new) = Removes(cs)  BY <1>1 DEF Removes
<1>3. Deletes(new) = Deletes(cs)  BY <1>1 DEF Deletes
<1> QED  BY <1>2, <1>3 DEF Same, new

LEMMA DeleteFrames ==
  ASSUME NEW d \in Frames, d.op = "delete"
  PROVE  /\ Removes(<<d>>) = {} /\ Deletes(<<d>>) = {d.slot}
         /\ Removes(Append(<<d>>, Callback("on_detached"))) = {}
         /\ Deletes(Append(<<d>>, Callback("on_detached"))) = {d.slot}
<1>1. DOMAIN <<d>> = {1} /\ <<d>>[1] = d /\ <<d>> \in Seq(Frames)  OBVIOUS
<1>2. Removes(<<d>>) = {} /\ Deletes(<<d>>) = {d.slot}
  <2> DEFINE one == <<d>>
  <2> HIDE DEF one
  <2>1. DOMAIN one = {1} /\ one[1] = d  BY <1>1 DEF one
  <2>2. Removes(one) = {} /\ Deletes(one) = {d.slot}  BY <2>1 DEF Removes, Deletes
  <2> QED  BY <2>2 DEF one
<1>3. /\ Callback("on_detached") \in Frames
      /\ Callback("on_detached").op \notin {"remove", "delete"}
  BY FrameParts, FrameFields
<1>4. Same(<<d>>, Append(<<d>>, Callback("on_detached")))  BY <1>1, <1>3, PushOther
<1> QED  BY <1>2, <1>4 DEF Same

LEMMA AmidNames ==
  /\ InDelete <=> Deletes(calls) # {}
  /\ \A i : Pending(i) <=> \E k \in Removes(calls) : calls[k].slot = i
  /\ Removes(calls) # {} => Amid \in {"in delete", "in remove"}
  /\ Deletes(calls) # {} => Amid = "in delete"
  /\ Amid = "between" => Removes(calls) = {} /\ Deletes(calls) = {}
<1>1. InDelete <=> Deletes(calls) # {}  BY DEF InDelete, Deletes
<1>2. \A i : Pending(i) <=> \E k \in Removes(calls) : calls[k].slot = i  BY DEF Pending, Removes
<1>3. Removes(calls) # {} => \E k \in DOMAIN calls : calls[k].op = "remove"  BY DEF Removes
<1> QED  BY <1>1, <1>2, <1>3 DEF Amid

LEMMA MayUnder ==
  ASSUME Bearable, Ownership, NEW what, May(what)
  PROVE  /\ ~deleted /\ fault = "none"
         /\ what \in {"define new", "define same"} => Removes(calls) = {}
         /\ what \in {"remove", "define over"} => Deletes(calls) = {}
<1>1. ~deleted /\ fault = "none"  BY DEF May
<1>2. CASE Amid = "between"  BY <1>1, <1>2, AmidNames
<1>3. CASE Amid # "between"
  <2>1. <<Amid, what>> \in Liberties  BY <1>3 DEF May
  <2>2. <<Amid, what>> \notin Unbearable  BY <2>1 DEF Bearable
  <2>3. what \in {"define new", "define same"} => Amid # "in remove"  BY <2>2 DEF Unbearable
  <2>4. what \in {"remove", "define over"} => Amid # "in delete"  BY <2>2 DEF Unbearable
  <2>5. Removes(calls) # {} => Amid = "in remove"
    <3>1. Removes(calls) # {} => Deletes(calls) = {}  BY DEF Ownership, Removals
    <3> QED  BY <3>1, AmidNames DEF Amid
  <2> QED  BY <1>1, <2>3, <2>4, <2>5, AmidNames
<1> QED  BY <1>2, <1>3

(* A module that has no place yet.                                         *)
Fresh(mod) ==
  /\ \A i \in DOMAIN slots : slots[i].type # Null => slots[i].val # mod.val
  /\ \A k \in Removes(calls) : calls[k].mod # NoModule => calls[k].mod.val # mod.val
  /\ mod.type = "wasm" => status[mod.val] = "unused"
  /\ mod.type = "host" => mod.val \notin attached

(* The parts of the state that the proofs below rest on.                   *)
LEMMA Parts ==
  ASSUME Inv
  PROVE  /\ status \in Stati /\ calls \in Seq(Frames) /\ slots \in Seq(SlotSet)
         /\ \A i \in DOMAIN slots :
              /\ slots[i].type \in {"host", "wasm", Null}
              /\ slots[i].type = "host" => slots[i].val \in Hosts \cup {Meta}
              /\ slots[i].type = "wasm" => slots[i].val \in States
         /\ \A k \in Removes(calls) :
              /\ calls[k] \in Frames
              /\ calls[k].slot \in DOMAIN slots
              /\ calls[k].mod \in Modules \cup {NoModule}
              /\ calls[k].mod # NoModule => calls[k].mod.type \in {"host", "wasm"}
              /\ calls[k].mod.type = "host" => calls[k].mod.val \in Hosts
              /\ calls[k].mod.type = "wasm" => calls[k].mod.val \in States
<1>1. status \in Stati /\ calls \in Seq(Frames) /\ slots \in Seq(SlotSet) /\ Nested(calls, slots)
  BY DEF Inv, Typed, Nested, Stati
<1>2. \A i \in DOMAIN slots : slots[i] \in SlotSet  BY <1>1
<1>3. \A k \in Removes(calls) : calls[k] \in Frames /\ calls[k].slot \in DOMAIN slots
  BY <1>1 DEF Removes, Nested
<1>4. \A k \in Removes(calls) : calls[k].mod \in Modules \cup {NoModule}
  BY <1>3 DEF Frames
<1>5. NoModule.type = Null /\ Null \notin {"host", "wasm"}  BY DEF NoModule, Slot, Null
<1>6. \A k \in Removes(calls) :
        /\ calls[k].mod # NoModule => calls[k].mod.type \in {"host", "wasm"}
        /\ calls[k].mod.type = "host" => calls[k].mod.val \in Hosts
        /\ calls[k].mod.type = "wasm" => calls[k].mod.val \in States
  BY <1>4, <1>5, SlotParts
<1>7. \A i \in DOMAIN slots :
        /\ slots[i].type \in {"host", "wasm", Null}
        /\ slots[i].type = "host" => slots[i].val \in Hosts \cup {Meta}
        /\ slots[i].type = "wasm" => slots[i].val \in States
  BY <1>2, SlotParts
<1> QED  BY <1>1, <1>3, <1>4, <1>6, <1>7

LEMMA Kinds == Null # "host" /\ Null # "wasm"
BY DEF Null

-----------------------------------------------------------------------------
(* The registry that a namespace is.                                       *)

(* Bound by slots instead of Find.                                         *)
BoundBySlots ==
  /\ Bound = [n \in Names |-> Bound[n]]
  /\ \A n \in Names, i \in DOMAIN slots :
       slots[i].name = n => Bound[n] = IF Used(i) THEN slots[i].val ELSE "nothing"
  /\ \A n \in Names : (\A i \in DOMAIN slots : slots[i].name # n) => Bound[n] = "nothing"

LEMMA BoundFacts == Inv => BoundBySlots
<1> SUFFICES ASSUME Inv PROVE BoundBySlots  OBVIOUS
<1>1. Bound = [n \in Names |-> Bound[n]]  BY DEF Bound
<1>2. /\ slots \in Seq(SlotSet) /\ 0 \notin DOMAIN slots
      /\ \A i, j \in DOMAIN slots : slots[i].name = slots[j].name => i = j
  BY DEF Inv, Typed, NamesUnique
<1>3. \A n : /\ Find(n) = 0 => \A i \in DOMAIN slots : slots[i].name # n
             /\ Find(n) # 0 => Find(n) \in DOMAIN slots /\ slots[Find(n)].name = n
  BY <1>2, FindFinds
<1>4. \A n \in Names : Bound[n] = IF Find(n) = 0 THEN "nothing"
                                  ELSE IF Used(Find(n)) THEN slots[Find(n)].val ELSE "nothing"
  BY DEF Bound, Used
<1>5. ASSUME NEW n \in Names, NEW i \in DOMAIN slots, slots[i].name = n
      PROVE  Bound[n] = IF Used(i) THEN slots[i].val ELSE "nothing"
  <2>1. Find(n) = i /\ i # 0  BY <1>2, <1>3, <1>5
  <2> QED  BY <1>4, <2>1
<1>6. ASSUME NEW n \in Names, \A i \in DOMAIN slots : slots[i].name # n
      PROVE  Bound[n] = "nothing"
  BY <1>3, <1>4, <1>6
<1> QED  BY <1>1, <1>5, <1>6 DEF BoundBySlots

LEMMA BoundFactsNext == Inv' => BoundBySlots'
BY BoundFacts, PTL

(* What is in use in other slots is not changed: one binding changes.      *)
LEMMA OneBinding ==
  ASSUME Inv, ~deleted, deleted' = deleted, NEW i,
         DOMAIN slots' = DOMAIN slots \cup {i}, i \in DOMAIN slots',
         \A j \in DOMAIN slots : slots'[j].name = slots[j].name,
         \A j \in DOMAIN slots : j # i =>
            /\ Used(j)' <=> Used(j)
            /\ slots'[j].val = slots[j].val,
         Used(i)' => \A j \in DOMAIN slots : j # i /\ Used(j) => slots[j].val # slots'[i].val
  PROVE  RegistryStep
<1> SUFFICES ASSUME Inv' PROVE [Registry!Next]_Registry!vars  BY DEF RegistryStep
<1> DEFINE v == IF Used(i)' THEN slots'[i].val ELSE "nothing"
           n == slots'[i].name
<1>1. \A m \in Names : m # n => Bound'[m] = Bound[m]
  <2> SUFFICES ASSUME NEW m \in Names, m # n PROVE Bound'[m] = Bound[m]  OBVIOUS
  <2>1. CASE \E j \in DOMAIN slots : slots[j].name = m
    <3>1. PICK j \in DOMAIN slots : slots[j].name = m  BY <2>1
    <3>2. j # i /\ slots'[j].name = m /\ j \in DOMAIN slots'  BY <3>1
    <3>3. Bound[m] = IF Used(j) THEN slots[j].val ELSE "nothing"  BY <3>1, BoundFacts DEF BoundBySlots
    <3>4. Bound'[m] = IF Used(j)' THEN slots'[j].val ELSE "nothing"  BY <3>2, BoundFactsNext DEF BoundBySlots
    <3> QED  BY <3>2, <3>3, <3>4
  <2>2. CASE \A j \in DOMAIN slots : slots[j].name # m
    <3>1. \A j \in DOMAIN slots' : slots'[j].name # m  BY <2>2
    <3>2. Bound'[m] = "nothing"  BY <3>1, BoundFactsNext DEF BoundBySlots
    <3>3. Bound[m] = "nothing"  BY <2>2, BoundFacts DEF BoundBySlots
    <3> QED  BY <3>2, <3>3
  <2> QED  BY <2>1, <2>2
<1>2. n \in Names => Bound'[n] = v  BY BoundFactsNext DEF BoundBySlots
<1>3. CASE n \notin Names
  <2>1. Bound' = Bound  BY <1>1, <1>3, BoundFacts, BoundFactsNext DEF BoundBySlots
  <2> QED  BY <2>1 DEF Registry!vars
<1>4. CASE n \in Names
  <2>1. Bound' = [Bound EXCEPT ![n] = v]
    <3> HIDE DEF v, n
    <3>1. Bound = [m \in Names |-> Bound[m]] /\ Bound' = [m \in Names |-> Bound'[m]]
      BY BoundFacts, BoundFactsNext DEF BoundBySlots
    <3>2. \A m \in Names : Bound'[m] = IF m = n THEN v ELSE Bound[m]  BY <1>1, <1>2
    <3> QED  BY <1>4, <3>1, <3>2
  <2>2. CASE ~Used(i)'
    <3>1. Registry!Unbind(n)  BY <2>1, <2>2 DEF Registry!Unbind
    <3> QED  BY <1>4, <3>1 DEF Registry!Next
  <2>3. CASE Used(i)' /\ Bound[n] = v
    <3>1. Bound' = Bound
      <4> HIDE DEF v, n
      <4>1. Bound = [m \in Names |-> Bound[m]]  BY BoundFacts DEF BoundBySlots
      <4> QED  BY <1>4, <2>1, <2>3, <4>1
    <3> QED  BY <3>1 DEF Registry!vars
  <2>4. CASE Used(i)' /\ Bound[n] # v
    <3>1. v = slots'[i].val  BY <2>4
    <3>2. v \in Hosts \cup States
      <4>1. slots'[i] \in SlotSet /\ attached' \subseteq Hosts  BY DEF Inv, Typed
      <4>2. slots'[i].type = "wasm" \/ (slots'[i].type = "host" /\ slots'[i].val \in attached')
        BY <2>4 DEF Used
      <4>3. /\ slots'[i].type = "wasm" => slots'[i].val \in States
            /\ slots'[i].type = "host" => slots'[i].val \in Hosts \cup {Meta}
        BY <4>1, SlotParts
      <4> HIDE DEF v, n
      <4> QED  BY <3>1, <4>1, <4>2, <4>3
    <3>3. v \notin Registry!InUse
      <4> SUFFICES ASSUME NEW m \in Names, Bound[m] = v, v # "nothing" PROVE FALSE
        BY DEF Registry!InUse
      <4>1. PICK j \in DOMAIN slots : slots[j].name = m  BY BoundFacts DEF BoundBySlots
      <4>2. Used(j) /\ slots[j].val = v  BY <4>1, BoundFacts DEF BoundBySlots
      <4>3. j = i  BY <2>4, <3>1, <4>2
      <4>4. m = n  BY <4>1, <4>3
      <4> QED  BY <2>4, <4>4
    <3> HIDE DEF v, n
    <3>4. Registry!Bind(n, v)  BY <2>1, <3>3 DEF Registry!Bind
    <3> QED  BY <1>4, <3>2, <3>4 DEF Registry!Next
  <2> QED  BY <2>2, <2>3, <2>4
<1> QED  BY <1>3, <1>4

LEMMA NoBinding ==
  ASSUME Inv, slots' = slots, status' = status, attached' = attached, deleted' = deleted
  PROVE  RegistryStep
<1>1. Bound' = Bound  BY DEF Bound, Find, SelectInSeq
<1> QED  BY <1>1 DEF RegistryStep, Registry!vars

-----------------------------------------------------------------------------
(* What the operations do to the places of modules.                        *)

(* define_module stores its module at once.                                *)
LEMMA PutOwned ==
  ASSUME Inv, Ownership, NEW mod \in Modules, Fresh(mod), NEW i, ~deleted,
         DOMAIN slots' = DOMAIN slots \cup {i}, slots'[i] = mod,
         \A j \in DOMAIN slots : j # i => slots'[j] = slots[j],
         i \in DOMAIN slots => Deletes(calls) = {} /\ slots[i].type # "host",
         \A k \in Removes(calls) : calls[k].slot # i, Same(calls, calls'),
         attached' = (IF mod.type = "host" THEN attached \cup {mod.val} ELSE attached),
         \A s \in States : status'[s] =
            IF mod.type = "wasm" /\ mod.val = s THEN "loaded"
            ELSE IF i \in DOMAIN slots /\ slots[i].type = "wasm" /\ slots[i].val = s THEN "freed"
            ELSE status[s],
         fault' = fault, deleted' = deleted, i \in DOMAIN slots => slots[i].name = mod.name
  PROVE  Ownership' /\ RegistryStep
<1>1. /\ \A j \in DOMAIN slots' : j = i \/ (j # i /\ j \in DOMAIN slots /\ slots'[j] = slots[j])
      /\ \A j \in DOMAIN slots : j # i => j \in DOMAIN slots'
      /\ i \in DOMAIN slots'
  OBVIOUS
<1>2. /\ Removes(calls') = Removes(calls) /\ Deletes(calls') = Deletes(calls)
      /\ \A k \in Removes(calls) : calls'[k] = calls[k]
  BY DEF Same
<1>3. /\ mod.type \in {"host", "wasm"} /\ mod # NoModule
      /\ mod.type = "host" => mod.val \in Hosts
      /\ mod.type = "wasm" => mod.val \in States
  BY SlotParts
<1>4. \A k \in Removes(calls) : calls[k].slot # i /\ calls[k].slot \in DOMAIN slots
  BY Parts
<1>5. Apart'  BY <1>1, <1>2 DEF Ownership, Apart, Fresh
<1>6. Owned'
  <2>1. ASSUME NEW j \in DOMAIN slots', slots'[j].type = "wasm"
        PROVE  /\ status'[slots'[j].val] # "unused"
               /\ status'[slots'[j].val] = "loaded" \/ deleted' \/ \E d \in Deletes(calls') : j < d
    <3>1. CASE j = i  BY <1>3, <2>1, <3>1
    <3>2. CASE j # i
      <4>1. j \in DOMAIN slots /\ slots'[j] = slots[j] /\ slots[j].val \in States
        BY <1>1, <2>1, <3>2, Parts
      <4>2. slots[j].val # mod.val /\ (i \in DOMAIN slots /\ slots[i].type = "wasm" => slots[i].val # slots[j].val)
        BY <2>1, <3>2, <4>1, Kinds DEF Fresh, Ownership, Apart
      <4>3. status'[slots[j].val] = status[slots[j].val]  BY <4>1, <4>2
      <4> QED  BY <1>2, <2>1, <4>1, <4>3 DEF Ownership, Owned
    <3> QED  BY <3>1, <3>2
  <2>2. ASSUME NEW k \in Removes(calls'), calls'[k].mod.type = "wasm"
        PROVE  status'[calls'[k].mod.val] = "loaded"
    <3>1. /\ calls'[k] = calls[k] /\ k \in Removes(calls) /\ calls[k].mod.val \in States
          /\ calls[k].mod # NoModule
      BY <1>2, <2>2, Parts, Kinds DEF NoModule, Slot
    <3>2. calls[k].mod.val # mod.val /\ (i \in DOMAIN slots /\ slots[i].type = "wasm" => slots[i].val # calls[k].mod.val)
      BY <3>1, Kinds DEF Fresh, Ownership, Apart
    <3>3. status[calls[k].mod.val] = "loaded"  BY <2>2, <3>1 DEF Ownership, Owned
    <3> QED  BY <3>1, <3>2, <3>3
  <2>3. ASSUME NEW s \in States, status'[s] = "loaded"
        PROVE  \/ \E j \in DOMAIN slots' : slots'[j].type = "wasm" /\ slots'[j].val = s
               \/ \E k \in Removes(calls') : calls'[k].mod.type = "wasm" /\ calls'[k].mod.val = s
    <3>1. CASE mod.type = "wasm" /\ mod.val = s  BY <1>1, <3>1
    <3>2. CASE ~(mod.type = "wasm" /\ mod.val = s)
      <4>1. status[s] = "loaded" /\ ~(i \in DOMAIN slots /\ slots[i].type = "wasm" /\ slots[i].val = s)
        BY <2>3, <3>2
      <4>2. \/ \E j \in DOMAIN slots : slots[j].type = "wasm" /\ slots[j].val = s
            \/ \E k \in Removes(calls) : calls[k].mod.type = "wasm" /\ calls[k].mod.val = s
        BY <4>1 DEF Ownership, Owned
      <4> QED  BY <1>1, <1>2, <4>1, <4>2
    <3> QED  BY <3>1, <3>2
  <2> QED  BY <2>1, <2>2, <2>3 DEF Owned
<1>7. Removals'  BY <1>2, <1>4 DEF Ownership, Removals
<1>8. Paired'
  <2> SUFFICES ASSUME Deletes(calls) = {}, NEW h \in Hosts
               PROVE  h \in attached' <=>
                        \E j \in DOMAIN slots' : /\ slots'[j].type = "host" /\ slots'[j].val = h
                                                 /\ \A k \in Removes(calls') : calls'[k].slot # j
    BY <1>2 DEF Paired
  <2>1. h \in attached <=>
          \E j \in DOMAIN slots : /\ slots[j].type = "host" /\ slots[j].val = h
                                  /\ \A k \in Removes(calls) : calls[k].slot # j
    BY DEF Ownership, Paired
  <2>2. CASE mod.type = "host" /\ mod.val = h  BY <1>1, <1>2, <1>4, <2>2
  <2>3. CASE ~(mod.type = "host" /\ mod.val = h)
    <3>1. h \in attached' <=> h \in attached  BY <2>3
    <3> QED  BY <1>1, <1>2, <2>1, <2>3, <3>1
  <2> QED  BY <2>2, <2>3
<1>9. ASSUME NEW j \in DOMAIN slots, j # i
      PROVE  (Used(j)' <=> Used(j)) /\ slots'[j] = slots[j]
  <2>1. CASE slots[j].type = "wasm"
    <3>1. slots[j].val \in States /\ slots[j].val # mod.val
      BY <2>1, Parts, Kinds DEF Fresh
    <3>2. i \in DOMAIN slots /\ slots[i].type = "wasm" => slots[i].val # slots[j].val
      BY <1>9, <2>1, Kinds DEF Ownership, Apart
    <3>3. status'[slots[j].val] = status[slots[j].val]  BY <3>1, <3>2
    <3> QED  BY <1>9, <2>1, <3>3 DEF Used
  <2>2. CASE slots[j].type # "wasm"
    <3>1. slots[j].type = "host" => slots[j].val # mod.val  BY Kinds DEF Fresh
    <3> QED  BY <1>9, <2>2, <3>1 DEF Used
  <2> QED  BY <2>1, <2>2
<1>10. Passed'
  <2>1. \A d \in Deletes(calls), j \in Nat \ {0} : j < d => j \in DOMAIN slots /\ j # i
    BY DEF Ownership, Passed
  <2> QED  BY <1>1, <1>2, <1>9, <2>1 DEF Ownership, Passed
<1>11. RegistryStep
  <2>1. \A j \in DOMAIN slots : slots'[j].name = slots[j].name  BY <1>9
  <2>2. \A j \in DOMAIN slots : j # i /\ Used(j) => slots[j].val # slots'[i].val
    BY Kinds DEF Used, Fresh
  <2> QED  BY <1>1, <1>9, <2>1, <2>2, OneBinding
<1> QED  BY <1>5, <1>6, <1>7, <1>8, <1>10, <1>11 DEF Ownership, NoFault

(* remove_module of a wasm module.                                         *)
LEMMA DropOwned ==
  ASSUME Inv, Ownership, NEW i \in DOMAIN slots, slots[i].type = "wasm", Deletes(calls) = {},
         ~deleted, slots' = Vacated(i), calls' = calls, attached' = attached,
         \A s \in States : status'[s] = IF slots[i].val = s THEN "freed" ELSE status[s],
         fault' = fault, deleted' = deleted
  PROVE  Ownership' /\ RegistryStep
<1>1. /\ DOMAIN slots' = DOMAIN slots
      /\ \A j \in DOMAIN slots : /\ slots'[j].val = slots[j].val
                                 /\ slots'[j].type = IF j = i THEN Null ELSE slots[j].type
  BY Parts, SlotVacated DEF Inv
<1>2. Removes(calls') = Removes(calls) /\ Deletes(calls') = Deletes(calls)  OBVIOUS
<1>3. \A k \in Removes(calls) : calls[k].slot # i /\ calls[k].slot \in DOMAIN slots
  BY Parts, Kinds DEF Ownership, Removals
<1>4. Apart'  BY <1>1, <1>2 DEF Ownership, Apart
<1>5. Owned'
  <2>1. ASSUME NEW j \in DOMAIN slots', slots'[j].type = "wasm"
        PROVE  /\ status'[slots'[j].val] # "unused"
               /\ status'[slots'[j].val] = "loaded" \/ deleted' \/ \E d \in Deletes(calls') : j < d
    <3>1. j # i /\ j \in DOMAIN slots /\ slots[j].type = "wasm" /\ slots'[j].val = slots[j].val
      BY <1>1, <2>1, Kinds
    <3>2. slots[j].val \in States /\ slots[j].val # slots[i].val
      BY <3>1, Parts, Kinds DEF Ownership, Apart
    <3>3. status'[slots[j].val] = status[slots[j].val]  BY <3>2
    <3> QED  BY <1>2, <3>1, <3>3 DEF Ownership, Owned
  <2>2. ASSUME NEW k \in Removes(calls'), calls'[k].mod.type = "wasm"
        PROVE  status'[calls'[k].mod.val] = "loaded"
    <3>1. k \in Removes(calls) /\ calls[k].mod.val \in States /\ calls[k].mod # NoModule
      BY <2>2, Parts, Kinds DEF NoModule, Slot
    <3>2. calls[k].mod.val # slots[i].val  BY <3>1, Kinds DEF Ownership, Apart
    <3>3. status[calls[k].mod.val] = "loaded"  BY <2>2, <3>1 DEF Ownership, Owned
    <3> QED  BY <3>1, <3>2, <3>3
  <2>3. ASSUME NEW s \in States, status'[s] = "loaded"
        PROVE  \/ \E j \in DOMAIN slots' : slots'[j].type = "wasm" /\ slots'[j].val = s
               \/ \E k \in Removes(calls') : calls'[k].mod.type = "wasm" /\ calls'[k].mod.val = s
    <3>1. status[s] = "loaded" /\ slots[i].val # s  BY <2>3
    <3>2. \/ \E j \in DOMAIN slots : slots[j].type = "wasm" /\ slots[j].val = s
          \/ \E k \in Removes(calls) : calls[k].mod.type = "wasm" /\ calls[k].mod.val = s
      BY <3>1 DEF Ownership, Owned
    <3> QED  BY <1>1, <3>1, <3>2
  <2> QED  BY <2>1, <2>2, <2>3 DEF Owned
<1>6. Removals'  BY <1>1, <1>3 DEF Ownership, Removals
<1>7. Paired'
  <2> SUFFICES ASSUME NEW h \in Hosts
               PROVE  h \in attached' <=>
                        \E j \in DOMAIN slots' : /\ slots'[j].type = "host" /\ slots'[j].val = h
                                                 /\ \A k \in Removes(calls') : calls'[k].slot # j
    BY DEF Paired
  <2>1. h \in attached <=>
          \E j \in DOMAIN slots : /\ slots[j].type = "host" /\ slots[j].val = h
                                  /\ \A k \in Removes(calls) : calls[k].slot # j
    BY DEF Ownership, Paired
  <2>2. \A j \in DOMAIN slots : slots'[j].type = "host" <=> slots[j].type = "host"
    BY <1>1, Kinds
  <2> QED  BY <1>1, <2>1, <2>2
<1>8. ASSUME NEW j \in DOMAIN slots, j # i
      PROVE  Used(j)' <=> Used(j)
  <2>1. slots'[j].type = slots[j].type /\ slots'[j].val = slots[j].val  BY <1>1, <1>8
  <2>2. slots[j].type = "wasm" => slots[j].val \in States /\ slots[j].val # slots[i].val
    BY <1>8, Parts, Kinds DEF Ownership, Apart
  <2> QED  BY <2>1, <2>2 DEF Used
<1>9. ~Used(i)'  BY <1>1, Kinds DEF Used
<1>10. RegistryStep
  <2>1. DOMAIN slots' = DOMAIN slots \cup {i} /\ i \in DOMAIN slots'  BY <1>1
  <2>2. \A j \in DOMAIN slots : slots'[j].name = slots[j].name
    BY Parts, SlotVacated DEF Inv
  <2> QED  BY <1>1, <1>8, <1>9, <2>1, <2>2, OneBinding
<1>11. Passed'  BY <1>2 DEF Passed
<1> QED  BY <1>4, <1>5, <1>6, <1>7, <1>10, <1>11 DEF Ownership, NoFault

(* remove_module of a host module, and define_module over one, begin: the  *)
(* same may be removed again, but not defined again.                       *)
LEMMA BeginOwned ==
  ASSUME Inv, Ownership, NEW i \in DOMAIN slots, slots[i].type = "host", Deletes(calls) = {},
         NEW mod \in Modules \cup {NoModule}, mod # NoModule => Fresh(mod), ~deleted,
         mod # NoModule => \A k \in Removes(calls) : calls[k].slot # i,
         NEW n \in Nat, \A k \in Removes(calls) : k \in Nat /\ k < n,
         Removes(calls') = Removes(calls) \cup {n}, n \notin Removes(calls),
         calls'[n] = Removing(i, mod), Deletes(calls') = Deletes(calls),
         \A k \in Removes(calls) : calls'[k] = calls[k],
         slots' = slots, attached' = attached \ {slots[i].val}, status' = Loaded(mod, status),
         fault' = fault, deleted' = deleted
  PROVE  Ownership' /\ RegistryStep
<1>1. /\ calls'[n].mod = mod /\ calls'[n].slot = i /\ ~calls'[n].stale
      /\ \A k \in Removes(calls') : k = n \/ (k # n /\ k \in Removes(calls) /\ calls'[k] = calls[k])
      /\ \A k \in Removes(calls) : k # n /\ k \in Removes(calls') /\ calls'[k] = calls[k]
      /\ n \in Removes(calls')
  BY FrameFields
<1>2. /\ mod.type = "wasm" => mod.val \in States
      /\ \A s \in States : status'[s] = IF mod.type = "wasm" /\ mod.val = s THEN "loaded" ELSE status[s]
  BY Parts, LoadedTyped
<1>3. mod.type = "wasm" => mod # NoModule  BY Kinds DEF NoModule, Slot
<1>4. Apart'
  <2>1. (\A j, l \in DOMAIN slots :
           slots[j].type # Null /\ slots[l].type # Null /\ slots[j].val = slots[l].val => j = l)'
    BY DEF Ownership, Apart
  <2>2. ASSUME NEW k \in Removes(calls'), NEW l \in Removes(calls'),
               calls'[k].mod # NoModule, calls'[l].mod # NoModule,
               calls'[k].mod.val = calls'[l].mod.val
        PROVE  k = l
    <3>1. CASE k = n /\ l # n
      <4>1. l \in Removes(calls) /\ calls'[l] = calls[l]  BY <1>1, <3>1
      <4> QED  BY <1>1, <2>2, <3>1, <4>1 DEF Fresh
    <3>2. CASE k # n /\ l = n
      <4>1. k \in Removes(calls) /\ calls'[k] = calls[k]  BY <1>1, <3>2
      <4> QED  BY <1>1, <2>2, <3>2, <4>1 DEF Fresh
    <3>3. CASE k # n /\ l # n
      <4>1. /\ k \in Removes(calls) /\ calls'[k] = calls[k]
            /\ l \in Removes(calls) /\ calls'[l] = calls[l]
        BY <1>1, <3>3
      <4> QED  BY <2>2, <4>1 DEF Ownership, Apart
    <3> QED  BY <3>1, <3>2, <3>3
  <2>3. ASSUME NEW j \in DOMAIN slots', NEW k \in Removes(calls'),
               slots'[j].type # Null, calls'[k].mod # NoModule
        PROVE  slots'[j].val # calls'[k].mod.val
    BY <1>1, <2>3 DEF Ownership, Apart, Fresh
  <2> QED  BY <2>1, <2>2, <2>3 DEF Apart
<1>5. Owned'
  <2>1. ASSUME NEW j \in DOMAIN slots', slots'[j].type = "wasm"
        PROVE  /\ status'[slots'[j].val] # "unused"
               /\ status'[slots'[j].val] = "loaded" \/ deleted' \/ \E d \in Deletes(calls') : j < d
    <3>1. j \in DOMAIN slots /\ slots[j].val \in States  BY <2>1, Parts
    <3>2. ~(mod.type = "wasm" /\ mod.val = slots[j].val)  BY <1>3, <2>1, <3>1, Kinds DEF Fresh
    <3>3. status'[slots[j].val] = status[slots[j].val]  BY <1>2, <3>1, <3>2
    <3> QED  BY <2>1, <3>1, <3>3 DEF Ownership, Owned
  <2>2. ASSUME NEW k \in Removes(calls'), calls'[k].mod.type = "wasm"
        PROVE  status'[calls'[k].mod.val] = "loaded"
    <3>1. CASE k = n  BY <1>1, <1>2, <2>2, <3>1
    <3>2. CASE k # n
      <4>1. k \in Removes(calls) /\ calls'[k] = calls[k] /\ calls[k].mod.val \in States
        BY <1>1, <2>2, <3>2, Parts
      <4>2. status[calls[k].mod.val] = "loaded"  BY <2>2, <4>1 DEF Ownership, Owned
      <4> QED  BY <1>2, <4>1, <4>2
    <3> QED  BY <3>1, <3>2
  <2>3. ASSUME NEW s \in States, status'[s] = "loaded"
        PROVE  \/ \E j \in DOMAIN slots' : slots'[j].type = "wasm" /\ slots'[j].val = s
               \/ \E k \in Removes(calls') : calls'[k].mod.type = "wasm" /\ calls'[k].mod.val = s
    <3>1. CASE mod.type = "wasm" /\ mod.val = s  BY <1>1, <3>1
    <3>2. CASE ~(mod.type = "wasm" /\ mod.val = s)
      <4>1. status[s] = "loaded"  BY <1>2, <2>3, <3>2
      <4>2. \/ \E j \in DOMAIN slots : slots[j].type = "wasm" /\ slots[j].val = s
            \/ \E k \in Removes(calls) : calls[k].mod.type = "wasm" /\ calls[k].mod.val = s
        BY <4>1 DEF Ownership, Owned
      <4> QED  BY <1>1, <4>2
    <3> QED  BY <3>1, <3>2
  <2> QED  BY <2>1, <2>2, <2>3 DEF Owned
<1>6. Removals'
  <2>1. \A k \in Removes(calls') :
          ~calls'[k].stale /\ slots'[calls'[k].slot].type \in {"host", Null}
    BY <1>1 DEF Ownership, Removals
  <2>2. ASSUME NEW k \in Removes(calls'), NEW l \in Removes(calls'), k < l,
               calls'[k].slot = calls'[l].slot
        PROVE  calls'[l].mod = NoModule
    <3>1. k # n
      <4>1. l \in Removes(calls) => l \in Nat /\ l < n  OBVIOUS
      <4>2. l = n \/ l \in Removes(calls)  BY <1>1
      <4> QED  BY <2>2, <4>1, <4>2
    <3>2. k \in Removes(calls) /\ calls'[k] = calls[k]  BY <1>1, <3>1
    <3>3. CASE l = n  BY <1>1, <2>2, <3>2, <3>3
    <3>4. CASE l # n  BY <1>1, <2>2, <3>2, <3>4 DEF Ownership, Removals
    <3> QED  BY <3>3, <3>4
  <2> QED  BY <2>1, <2>2 DEF Removals
<1>7. Paired'
  <2> SUFFICES ASSUME NEW h \in Hosts
               PROVE  h \in attached' <=>
                        \E j \in DOMAIN slots' : /\ slots'[j].type = "host" /\ slots'[j].val = h
                                                 /\ \A k \in Removes(calls') : calls'[k].slot # j
    BY DEF Paired
  <2>1. h \in attached <=>
          \E j \in DOMAIN slots : /\ slots[j].type = "host" /\ slots[j].val = h
                                  /\ \A k \in Removes(calls) : calls[k].slot # j
    BY DEF Ownership, Paired
  <2>2. CASE slots[i].val = h
    <3>1. \A j \in DOMAIN slots : slots[j].type = "host" /\ slots[j].val = h => j = i
      BY <2>2, Kinds DEF Ownership, Apart
    <3> QED  BY <1>1, <2>2, <3>1
  <2>3. CASE slots[i].val # h
    <3>1. h \in attached' <=> h \in attached  BY <2>3
    <3>2. \A j \in DOMAIN slots : slots[j].val = h =>
            ((\A k \in Removes(calls') : calls'[k].slot # j) <=> \A k \in Removes(calls) : calls[k].slot # j)
      BY <1>1, <2>3
    <3> QED  BY <2>1, <3>1, <3>2
  <2> QED  BY <2>2, <2>3
<1>8. ASSUME NEW j \in DOMAIN slots, j # i
      PROVE  Used(j)' <=> Used(j)
  <2>1. CASE slots[j].type = "wasm"
    <3>1. slots[j].val \in States  BY <2>1, Parts
    <3>2. ~(mod.type = "wasm" /\ mod.val = slots[j].val)  BY <1>3, <2>1, Kinds DEF Fresh
    <3>3. status'[slots[j].val] = status[slots[j].val]  BY <1>2, <3>1, <3>2
    <3> QED  BY <2>1, <3>3 DEF Used
  <2>2. CASE slots[j].type # "wasm"
    <3>1. slots[j].type = "host" => slots[j].val # slots[i].val
      BY <1>8, Kinds DEF Ownership, Apart
    <3> QED  BY <2>2, <3>1 DEF Used
  <2> QED  BY <2>1, <2>2
<1>9. ~Used(i)'  BY DEF Used
<1>10. RegistryStep
  <2>1. DOMAIN slots' = DOMAIN slots \cup {i} /\ i \in DOMAIN slots'  OBVIOUS
  <2>2. \A j \in DOMAIN slots : slots'[j].name = slots[j].name /\ slots'[j].val = slots[j].val
    OBVIOUS
  <2> QED  BY <1>8, <1>9, <2>1, <2>2, OneBinding
<1>11. Passed'  BY DEF Passed
<1> QED  BY <1>4, <1>5, <1>6, <1>7, <1>10, <1>11 DEF Ownership, NoFault

(* The innermost remove_module goes on after the callback, and the         *)
(* define_module that called it stores its module.                         *)
LEMMA FinishOwned ==
  ASSUME Inv, Ownership, NEW n \in Removes(calls), NEW i, NEW mod,
         i = calls[n].slot, mod = calls[n].mod, ~deleted,
         \A k \in Removes(calls) : k = n \/ k < n,
         Removes(calls') = Removes(calls) \ {n}, Deletes(calls') = Deletes(calls),
         \A k \in Removes(calls') : calls'[k] = calls[k],
         DOMAIN slots' = DOMAIN slots,
         \A j \in DOMAIN slots : j # i =>
            slots'[j].type = slots[j].type /\ slots'[j].val = slots[j].val,
         mod # NoModule => slots'[i].type = mod.type /\ slots'[i].val = mod.val,
         mod = NoModule => slots'[i].type = Null,
         attached' = (IF mod.type = "host" THEN attached \cup {mod.val} ELSE attached),
         \A j \in DOMAIN slots : slots'[j].name = slots[j].name,
         status' = status, fault' = fault, deleted' = deleted
  PROVE  Ownership' /\ RegistryStep
<1>1. /\ i \in DOMAIN slots /\ slots[i].type \in {"host", Null}
      /\ mod # NoModule => mod.type \in {"host", "wasm"}
      /\ mod.type = "host" => mod.val \in Hosts
      /\ mod.type = "wasm" => mod.val \in States
  BY Parts DEF Ownership, Removals
<1>2. mod = NoModule => mod.type \notin {"host", "wasm"}  BY Kinds DEF NoModule, Slot
<1>3. /\ \A k \in Removes(calls') : /\ k \in Removes(calls) /\ k # n
                                    /\ mod # NoModule => calls[k].slot # i
      /\ \A k \in Removes(calls) : k = n \/ k \in Removes(calls')
  BY DEF Ownership, Removals
<1>4. Apart'
  <2>1. ASSUME NEW j \in DOMAIN slots, slots[j].type # Null, mod # NoModule
        PROVE  slots[j].val # mod.val
    BY <2>1 DEF Ownership, Apart
  <2>2. ASSUME NEW j \in DOMAIN slots', NEW l \in DOMAIN slots',
               slots'[j].type # Null, slots'[l].type # Null, slots'[j].val = slots'[l].val
        PROVE  j = l
    BY <1>1, <2>1, <2>2 DEF Ownership, Apart
  <2>3. ASSUME NEW k \in Removes(calls'), calls'[k].mod # NoModule, mod # NoModule
        PROVE  calls'[k].mod.val # mod.val
    BY <1>3, <2>3 DEF Ownership, Apart
  <2>4. (\A k, l \in Removes(calls) :
           /\ calls[k].mod # NoModule /\ calls[l].mod # NoModule
           /\ calls[k].mod.val = calls[l].mod.val
           => k = l)'
    BY <1>3 DEF Ownership, Apart
  <2>5. ASSUME NEW j \in DOMAIN slots', NEW k \in Removes(calls'),
               slots'[j].type # Null, calls'[k].mod # NoModule
        PROVE  slots'[j].val # calls'[k].mod.val
    BY <1>1, <1>3, <2>3, <2>5 DEF Ownership, Apart
  <2> QED  BY <2>2, <2>4, <2>5 DEF Apart
<1>5. Owned'
  <2>1. ASSUME NEW j \in DOMAIN slots', slots'[j].type = "wasm"
        PROVE  /\ status'[slots'[j].val] # "unused"
               /\ status'[slots'[j].val] = "loaded" \/ deleted' \/ \E d \in Deletes(calls') : j < d
    <3>1. CASE j = i
      <4>1. mod.type = "wasm" /\ slots'[j].val = mod.val  BY <2>1, <3>1, Kinds
      <4>2. status[mod.val] = "loaded"  BY <4>1 DEF Ownership, Owned
      <4> QED  BY <4>1, <4>2
    <3>2. CASE j # i  BY <2>1, <3>2 DEF Ownership, Owned
    <3> QED  BY <3>1, <3>2
  <2>2. ASSUME NEW k \in Removes(calls'), calls'[k].mod.type = "wasm"
        PROVE  status'[calls'[k].mod.val] = "loaded"
    BY <1>3, <2>2 DEF Ownership, Owned
  <2>3. ASSUME NEW s \in States, status'[s] = "loaded"
        PROVE  \/ \E j \in DOMAIN slots' : slots'[j].type = "wasm" /\ slots'[j].val = s
               \/ \E k \in Removes(calls') : calls'[k].mod.type = "wasm" /\ calls'[k].mod.val = s
    <3>1. \/ \E j \in DOMAIN slots : slots[j].type = "wasm" /\ slots[j].val = s
          \/ \E k \in Removes(calls) : calls[k].mod.type = "wasm" /\ calls[k].mod.val = s
      BY <2>3 DEF Ownership, Owned
    <3>2. ASSUME NEW j \in DOMAIN slots, slots[j].type = "wasm", slots[j].val = s
          PROVE  j \in DOMAIN slots' /\ slots'[j].type = "wasm" /\ slots'[j].val = s
      BY <1>1, <3>2, Kinds
    <3>3. ASSUME mod.type = "wasm", mod.val = s
          PROVE  i \in DOMAIN slots' /\ slots'[i].type = "wasm" /\ slots'[i].val = s
      BY <1>1, <1>2, <3>3
    <3> QED  BY <1>3, <3>1, <3>2, <3>3
  <2> QED  BY <2>1, <2>2, <2>3 DEF Owned
<1>6. Removals'
  <2>1. ASSUME NEW k \in Removes(calls')
        PROVE  ~calls'[k].stale /\ slots'[calls'[k].slot].type \in {"host", Null}
    <3>1. /\ calls'[k] = calls[k] /\ calls[k].slot \in DOMAIN slots
          /\ ~calls[k].stale /\ slots[calls[k].slot].type \in {"host", Null}
      BY <1>3, Parts DEF Ownership, Removals
    <3>2. CASE calls[k].slot = i  BY <1>3, <3>1, <3>2
    <3>3. CASE calls[k].slot # i  BY <3>1, <3>3
    <3> QED  BY <3>2, <3>3
  <2>2. \A k, l \in Removes(calls') :
          k < l /\ calls'[k].slot = calls'[l].slot => calls'[l].mod = NoModule
    BY <1>3 DEF Ownership, Removals
  <2> QED  BY <2>1, <2>2 DEF Ownership, Removals
<1>7. Paired'
  <2> SUFFICES ASSUME Deletes(calls) = {}, NEW h \in Hosts
               PROVE  h \in attached' <=>
                        \E j \in DOMAIN slots' : /\ slots'[j].type = "host" /\ slots'[j].val = h
                                                 /\ \A k \in Removes(calls') : calls'[k].slot # j
    BY DEF Paired
  <2>1. h \in attached <=>
          \E j \in DOMAIN slots : /\ slots[j].type = "host" /\ slots[j].val = h
                                  /\ \A k \in Removes(calls) : calls[k].slot # j
    BY DEF Ownership, Paired
  <2>2. CASE mod.type = "host" /\ mod.val = h
    <3>1. slots'[i].type = "host" /\ slots'[i].val = h /\ i \in DOMAIN slots'  BY <1>1, <1>2, <2>2
    <3>2. \A k \in Removes(calls') : calls'[k].slot # i  BY <1>2, <1>3, <2>2
    <3> QED  BY <2>2, <3>1, <3>2
  <2>3. CASE ~(mod.type = "host" /\ mod.val = h)
    <3>1. h \in attached' <=> h \in attached  BY <2>3
    <3>2. ~(slots'[i].type = "host" /\ slots'[i].val = h)  BY <2>3, Kinds
    <3>3. \A j \in DOMAIN slots : j # i =>
            ((\A k \in Removes(calls') : calls'[k].slot # j) <=> \A k \in Removes(calls) : calls[k].slot # j)
      BY <1>3
    <3> QED  BY <2>1, <3>1, <3>2, <3>3
  <2> QED  BY <2>2, <2>3
<1>8. ASSUME NEW j \in DOMAIN slots, j # i
      PROVE  Used(j)' <=> Used(j)
  <2>1. slots'[j].type = slots[j].type /\ slots'[j].val = slots[j].val  BY <1>8
  <2>2. slots[j].type = "host" /\ mod # NoModule => slots[j].val # mod.val
    BY Kinds DEF Ownership, Apart
  <2>3. slots[j].type = "host" => (slots[j].val \in attached' <=> slots[j].val \in attached)
    BY <1>2, <2>2
  <2> QED  BY <2>1, <2>3 DEF Used
<1>9. Used(i)' => \A j \in DOMAIN slots : j # i /\ Used(j) => slots[j].val # slots'[i].val
  <2>1. Used(i)' => mod # NoModule /\ slots'[i].val = mod.val  BY Kinds DEF Used
  <2>2. \A j \in DOMAIN slots : Used(j) /\ mod # NoModule => slots[j].val # mod.val
    BY Kinds DEF Ownership, Apart, Used
  <2> QED  BY <2>1, <2>2
<1>10. RegistryStep
  <2>1. DOMAIN slots' = DOMAIN slots \cup {i} /\ i \in DOMAIN slots'  BY <1>1
  <2> QED  BY <1>8, <1>9, <2>1, OneBinding
<1>11. Passed'
  <2>1. Deletes(calls') = {}  BY DEF Ownership, Removals
  <2> QED  BY <2>1 DEF Passed
<1> QED  BY <1>4, <1>5, <1>6, <1>7, <1>10, <1>11 DEF Ownership, NoFault

(* Steps that change nothing but callbacks.                                *)
LEMMA QuietOwned ==
  ASSUME Inv, Ownership, Same(calls, calls'), ~deleted,
         slots' = slots, attached' = attached, status' = status, fault' = fault, deleted' = deleted
  PROVE  Ownership' /\ RegistryStep
<1>1. /\ Removes(calls') = Removes(calls) /\ Deletes(calls') = Deletes(calls)
      /\ \A k \in Removes(calls) : calls'[k] = calls[k]
  BY DEF Same
<1>2. Apart'  BY <1>1 DEF Ownership, Apart
<1>3. Owned'  BY <1>1 DEF Ownership, Owned
<1>4. Removals'  BY <1>1 DEF Ownership, Removals
<1>5. Paired'  BY <1>1 DEF Ownership, Paired
<1>6. Passed'  BY <1>1 DEF Ownership, Passed, Used
<1>7. RegistryStep  BY NoBinding
<1> QED  BY <1>2, <1>3, <1>4, <1>5, <1>6, <1>7 DEF Ownership, NoFault

(* A deletion gets past a slot.                                            *)
LEMMA PassOwned ==
  ASSUME Inv, Ownership, NEW i \in DOMAIN slots, NEW d \in Nat, d = i + 1, ~deleted,
         Removes(calls) = {}, Deletes(calls) = {i}, Removes(calls') = {}, Deletes(calls') = {d},
         slots' = slots, fault' = fault, deleted' = deleted,
         \A s \in States : status'[s] =
            IF slots[i].type = "wasm" /\ slots[i].val = s THEN "freed" ELSE status[s],
         attached' = (IF slots[i].type = "host" THEN attached \ {slots[i].val} ELSE attached)
  PROVE  Ownership' /\ RegistryStep
<1>0. i \in Nat \ {0} /\ i < d  BY Parts
<1>1. Apart'  BY DEF Ownership, Apart
<1>2. Owned'
  <2>1. ASSUME NEW j \in DOMAIN slots', slots'[j].type = "wasm"
        PROVE  /\ status'[slots'[j].val] # "unused"
               /\ status'[slots'[j].val] = "loaded" \/ deleted' \/ \E e \in Deletes(calls') : j < e
    <3>1. j \in DOMAIN slots /\ slots[j].val \in States /\ j \in Nat  BY <2>1, Parts
    <3>2. CASE j = i  BY <1>0, <2>1, <3>1, <3>2
    <3>3. CASE j # i
      <4>1. ~(slots[i].type = "wasm" /\ slots[i].val = slots[j].val)
        BY <2>1, <3>1, <3>3, Kinds DEF Ownership, Apart
      <4>2. status'[slots[j].val] = status[slots[j].val]  BY <3>1, <4>1
      <4>3. /\ status[slots[j].val] # "unused"
            /\ status[slots[j].val] = "loaded" \/ \E e \in Deletes(calls) : j < e
        BY <2>1, <3>1 DEF Ownership, Owned
      <4>4. (\E e \in Deletes(calls) : j < e) => j < d
        <5>1. \A e \in Deletes(calls) : e = i  OBVIOUS
        <5>2. j < i => j < d  BY <1>0, <3>1
        <5> QED  BY <5>1, <5>2
      <4> QED  BY <4>2, <4>3, <4>4
    <3> QED  BY <3>2, <3>3
  <2>2. ASSUME NEW s \in States, status'[s] = "loaded"
        PROVE  \E j \in DOMAIN slots' : slots'[j].type = "wasm" /\ slots'[j].val = s
    <3>1. status[s] = "loaded"  BY <2>2
    <3> QED  BY <3>1 DEF Ownership, Owned
  <2> QED  BY <2>1, <2>2 DEF Owned
<1>3. Removals'  BY DEF Removals
<1>4. Paired'  BY DEF Paired
<1>5. ASSUME NEW j \in DOMAIN slots, j # i
      PROVE  Used(j)' <=> Used(j)
  <2>1. slots[j].type = "wasm" => slots[j].val \in States /\
          ~(slots[i].type = "wasm" /\ slots[i].val = slots[j].val)
    BY <1>5, Parts, Kinds DEF Ownership, Apart
  <2>2. slots[j].type = "host" /\ slots[i].type = "host" => slots[j].val # slots[i].val
    BY <1>5, Kinds DEF Ownership, Apart
  <2> QED  BY <2>1, <2>2 DEF Used
<1>6. ~Used(i)'
  <2>1. slots[i].type = "wasm" => slots[i].val \in States  BY Parts
  <2> QED  BY <2>1 DEF Used
<1>7. Passed'
  <2>1. \A j \in Nat \ {0} : j < d => j = i \/ j < i  BY <1>0
  <2>2. \A j \in Nat \ {0} : j < i => j \in DOMAIN slots /\ ~Used(j) /\ j # i
    BY <1>0 DEF Ownership, Passed
  <2> QED  BY <1>5, <1>6, <2>1, <2>2 DEF Passed
<1>8. RegistryStep
  <2>1. DOMAIN slots' = DOMAIN slots \cup {i} /\ i \in DOMAIN slots'  OBVIOUS
  <2>2. \A j \in DOMAIN slots : slots'[j].name = slots[j].name /\ slots'[j].val = slots[j].val
    OBVIOUS
  <2> QED  BY <1>5, <1>6, <2>1, <2>2, OneBinding
<1> QED  BY <1>1, <1>2, <1>3, <1>4, <1>7, <1>8 DEF Ownership, NoFault

-----------------------------------------------------------------------------
(* The operations.                                                         *)

LEMMA SameTwice ==
  /\ \A cs : Same(cs, cs)
  /\ \A c1, c2, c3 : Same(c1, c2) /\ Same(c2, c3) => Same(c1, c3)
BY DEF Same

LEMMA FreshWasm ==
  ASSUME Inv, Ownership, NEW n, NEW s \in States, status[s] = "unused"
  PROVE  Fresh(Slot(n, "wasm", s))
<1> DEFINE mod == Slot(n, "wasm", s)
<1>1. mod.type = "wasm" /\ mod.val = s  BY SlotParts
<1> HIDE DEF mod
<1>2. s \notin Hosts \cup {Meta}  BY NamespaceAssumption DEF Meta
<1>3. ASSUME NEW i \in DOMAIN slots, slots[i].type # Null PROVE slots[i].val # s
  <2>1. CASE slots[i].type = "host"  BY <1>2, <2>1, Parts
  <2>2. CASE slots[i].type = "wasm"  BY <2>2 DEF Ownership, Owned
  <2> QED  BY <1>3, <2>1, <2>2, Parts
<1>4. ASSUME NEW k \in Removes(calls), calls[k].mod # NoModule PROVE calls[k].mod.val # s
  <2>1. CASE calls[k].mod.type = "host"  BY <1>2, <2>1, Parts
  <2>2. CASE calls[k].mod.type = "wasm"  BY <2>2 DEF Ownership, Owned
  <2> QED  BY <1>4, <2>1, <2>2, Parts
<1> QED  BY <1>1, <1>3, <1>4 DEF Fresh, mod

LEMMA FreshHost ==
  ASSUME Inv, Ownership, NEW n, NEW h \in Hosts, h \notin attached,
         \A k \in DOMAIN calls : calls[k].mod.val # h,
         \A i \in DOMAIN slots : slots[i].type = "host" => slots[i].val # h
  PROVE  Fresh(Slot(n, "host", h))
<1> DEFINE mod == Slot(n, "host", h)
<1>1. mod.type = "host" /\ mod.val = h  BY SlotParts
<1> HIDE DEF mod
<1>2. h \notin States  BY NamespaceAssumption
<1>3. ASSUME NEW i \in DOMAIN slots, slots[i].type # Null PROVE slots[i].val # h
  <2>1. CASE slots[i].type = "host"  BY <2>1
  <2>2. CASE slots[i].type = "wasm"  BY <1>2, <2>2, Parts
  <2> QED  BY <1>3, <2>1, <2>2, Parts
<1>4. \A k \in Removes(calls) : calls[k].mod.val # h  BY DEF Removes
<1> QED  BY <1>1, <1>3, <1>4 DEF Fresh, mod

LEMMA AttachSame ==
  ASSUME NEW cs \in Seq(Frames), NEW mod, Attach(mod, cs)
  PROVE  /\ Same(cs, calls')
         /\ attached' = IF mod.type = "host" THEN attached \cup {mod.val} ELSE attached
<1>1. Callback("on_attached") \in Frames /\ Callback("on_attached").op \notin {"remove", "delete"}
  BY FrameParts, FrameFields
<1> QED  BY <1>1, PushOther, SameTwice DEF Attach

LEMMA DetachBegins ==
  ASSUME NEW i \in Nat, NEW mod \in Modules \cup {NoModule},
         NEW under \in Seq(Frames), Same(calls, under),
         Detach(i, Append(under, Removing(i, mod)))
  PROVE  /\ slots' = slots /\ attached' = attached \ {slots[i].val}
         /\ \E n \in Nat :
              /\ Removes(calls') = Removes(calls) \cup {n} /\ n \notin Removes(calls)
              /\ \A k \in Removes(calls) : k \in Nat /\ k < n
              /\ calls'[n] = Removing(i, mod) /\ Deletes(calls') = Deletes(calls)
              /\ \A k \in Removes(calls) : calls'[k] = calls[k]
<1> DEFINE r == Removing(i, mod)
           cs == Append(under, r)
           n == Len(under) + 1
<1>1. r \in Frames /\ r.op = "remove"  BY FrameParts, FrameFields
<1>2. Callback("on_detached") \in Frames /\ Callback("on_detached").op \notin {"remove", "delete"}
  BY FrameParts, FrameFields
<1>3. calls' = Append(cs, Callback("on_detached")) /\ slots' = slots
      /\ attached' = attached \ {slots[i].val}
  BY DEF Detach
<1> HIDE DEF r
<1>4. /\ cs \in Seq(Frames)
      /\ Removes(cs) = Removes(under) \cup {n} /\ n \notin Removes(under) /\ cs[n] = r
      /\ Deletes(cs) = Deletes(under) /\ \A k \in Removes(under) : cs[k] = under[k]
  BY <1>1, Pushed, PushRemove
<1>5. n \in Nat /\ \A k \in Removes(under) : k \in Nat /\ k < n
  BY DEF Removes
<1> HIDE DEF cs, n
<1>6. Same(cs, calls')  BY <1>2, <1>3, <1>4, PushOther
<1>7. /\ Removes(calls') = Removes(calls) \cup {n} /\ n \notin Removes(calls)
      /\ \A k \in Removes(calls) : k \in Nat /\ k < n
      /\ calls'[n] = r /\ Deletes(calls') = Deletes(calls)
      /\ \A k \in Removes(calls) : calls'[k] = calls[k]
  BY <1>4, <1>5, <1>6 DEF Same
<1> QED  BY <1>3, <1>5, <1>7 DEF r

LEMMA FreeLoaded ==
  ASSUME Inv, Ownership, ~deleted, NEW i \in DOMAIN slots, slots[i].type = "wasm",
         \A d \in Deletes(calls) : ~(i < d), NEW mod \in Modules \cup {NoModule},
         Free(slots[i].val, mod)
  PROVE  /\ fault' = fault
         /\ \A s \in States : status'[s] =
              IF mod.type = "wasm" /\ mod.val = s THEN "loaded"
              ELSE IF slots[i].val = s THEN "freed" ELSE status[s]
<1>1. slots[i].val \in States /\ status \in Stati  BY Parts
<1>2. status[slots[i].val] = "loaded"  BY DEF Ownership, Owned
<1>3. [status EXCEPT ![slots[i].val] = "freed"] \in Stati  BY <1>1 DEF Stati
<1>4. \A s \in States : [status EXCEPT ![slots[i].val] = "freed"][s] =
                        IF slots[i].val = s THEN "freed" ELSE status[s]
  BY <1>1 DEF Stati
<1>5. /\ status' = Loaded(mod, [status EXCEPT ![slots[i].val] = "freed"])
      /\ fault' = fault
  BY <1>2 DEF Free
<1> DEFINE st == [status EXCEPT ![slots[i].val] = "freed"]
<1> HIDE DEF st
<1>6. /\ st \in Stati /\ status' = Loaded(mod, st)
      /\ \A s \in States : st[s] = IF slots[i].val = s THEN "freed" ELSE status[s]
  BY <1>3, <1>4, <1>5 DEF st
<1>7. \A s \in States : Loaded(mod, st)[s] = IF mod.type = "wasm" /\ mod.val = s
                                               THEN "loaded" ELSE st[s]
  BY <1>6, LoadedTyped
<1> QED  BY <1>5, <1>6, <1>7

LEMMA DefineOwned ==
  ASSUME Bearable, Inv, Ownership, NEW mod \in Modules, Fresh(mod),
         NEW under, Same(calls, under), Nested(under, slots), Define(mod, under),
         deleted' = deleted
  PROVE  Ownership' /\ RegistryStep
<1> DEFINE i == Find(mod.name)
<1>1. /\ slots \in Seq(SlotSet) /\ status \in Stati /\ under \in Seq(Frames)
      /\ NamesUnique
  BY Parts DEF Inv, Nested
<1>2. /\ i = 0 => \A j \in DOMAIN slots : slots[j].name # mod.name
      /\ i # 0 => i \in DOMAIN slots /\ slots[i].name = mod.name
  BY <1>1, FindFinds
<1>3. /\ mod \in SlotSet /\ mod # NoModule
      /\ \A s \in States : Loaded(mod, status)[s] =
           IF mod.type = "wasm" /\ mod.val = s THEN "loaded" ELSE status[s]
  BY <1>1, SlotParts, LoadedTyped
<1>4. CASE i = 0
  <2>1. /\ May("define new") /\ slots' = Append(slots, mod)
        /\ status' = Loaded(mod, status) /\ fault' = fault
        /\ \E moved \in {FALSE, Grows} : Attach(mod, IF moved THEN Stale(under) ELSE under)
    BY <1>4 DEF Define
  <2>2. PICK cs \in {under, Stale(under)} : Attach(mod, cs)  BY <2>1
  <2>3. ~deleted /\ Removes(calls) = {}  BY <2>1, MayUnder
  <2>4. cs \in Seq(Frames) /\ Same(calls, cs)
    <3>1. Removes(under) = {}  BY <2>3 DEF Same
    <3>2. Stale(under) \in Seq(Frames)
      <4>1. Nested(Stale(under), slots)  BY StaleNested
      <4> QED  BY <4>1 DEF Nested
    <3>3. Same(under, Stale(under))  BY <3>1, StaleOthers
    <3> QED  BY <1>1, <2>2, <3>2, <3>3, SameTwice
  <2>5. /\ Same(calls, calls')
        /\ attached' = IF mod.type = "host" THEN attached \cup {mod.val} ELSE attached
    BY <2>2, <2>4, AttachSame, SameTwice
  <2> DEFINE p == Len(slots) + 1
  <2>6. /\ DOMAIN slots' = DOMAIN slots \cup {p} /\ slots'[p] = mod /\ p \notin DOMAIN slots
        /\ \A j \in DOMAIN slots : slots'[j] = slots[j]
    BY <1>1, <1>2, <1>3, <1>4, <2>1, SlotAppended
  <2> HIDE DEF p
  <2> QED  BY <1>3, <2>1, <2>3, <2>5, <2>6, PutOwned
<1>5. CASE i # 0
  <2>1. i \in DOMAIN slots /\ slots[i].name = mod.name  BY <1>2, <1>5
  <2>2. May(IF Pending(i) THEN "define same" ELSE "define over")  BY <1>5 DEF Define
  <2>3. ~deleted /\ Deletes(calls) = {} /\ \A k \in Removes(calls) : calls[k].slot # i
    <3> HIDE DEF i
    <3>1. CASE Pending(i)  BY <2>2, <3>1, MayUnder, AmidNames
    <3>2. CASE ~Pending(i)  BY <2>2, <3>2, MayUnder, AmidNames
    <3> QED  BY <3>1, <3>2
  <2>4. slots[i].type \in {"host", "wasm", Null} /\ i \in Nat  BY <1>1, <2>1, Parts
  <2>5. CASE slots[i].type = "host"
    <3>1. /\ Detach(i, Append(under, Removing(i, mod)))
          /\ status' = Loaded(mod, status) /\ fault' = fault
      BY <1>5, <2>5 DEF Define
    <3> HIDE DEF i
    <3>2. /\ slots' = slots /\ attached' = attached \ {slots[i].val}
          /\ \E n \in Nat :
               /\ Removes(calls') = Removes(calls) \cup {n} /\ n \notin Removes(calls)
               /\ \A k \in Removes(calls) : k \in Nat /\ k < n
               /\ calls'[n] = Removing(i, mod) /\ Deletes(calls') = Deletes(calls)
               /\ \A k \in Removes(calls) : calls'[k] = calls[k]
      BY <1>1, <2>4, <3>1, DetachBegins
    <3> QED  BY <2>1, <2>3, <2>5, <3>1, <3>2, BeginOwned
  <2>6. CASE slots[i].type # "host"
    <3>1. slots' = [slots EXCEPT ![i] = mod] /\ Attach(mod, under)  BY <1>5, <2>6 DEF Define
    <3>2. /\ slots[i].type = "wasm" => Free(slots[i].val, mod)
          /\ slots[i].type # "wasm" => status' = Loaded(mod, status) /\ fault' = fault
      BY <1>5, <2>6 DEF Define
    <3> HIDE DEF i
    <3>3. /\ DOMAIN slots' = DOMAIN slots /\ slots'[i] = mod
          /\ \A j \in DOMAIN slots : j # i => slots'[j] = slots[j]
      BY <1>1, <1>3, <2>1, <3>1, SlotReplaced
    <3>4. /\ fault' = fault
          /\ \A s \in States : status'[s] =
               IF mod.type = "wasm" /\ mod.val = s THEN "loaded"
               ELSE IF i \in DOMAIN slots /\ slots[i].type = "wasm" /\ slots[i].val = s THEN "freed"
               ELSE status[s]
      <4>1. CASE slots[i].type = "wasm"  BY <2>1, <2>3, <3>2, <4>1, FreeLoaded
      <4>2. CASE slots[i].type # "wasm"  BY <1>3, <3>2, <4>2
      <4> QED  BY <4>1, <4>2
    <3>5. /\ Same(calls, calls')
          /\ attached' = IF mod.type = "host" THEN attached \cup {mod.val} ELSE attached
      BY <1>1, <3>1, AttachSame, SameTwice
    <3>6. DOMAIN slots' = DOMAIN slots \cup {i}  BY <2>1, <3>3
    <3> QED  BY <2>1, <2>3, <2>6, <3>3, <3>4, <3>5, <3>6, PutOwned
  <2> QED  BY <2>5, <2>6
<1> QED  BY <1>4, <1>5

LEMMA DefineWasmOwned ==
  ASSUME Bearable, Inv, Ownership, NEW n \in Names, NEW s \in States, NEW keeps,
         NEW under, Same(calls, under), Nested(under, slots), DefineWasm(n, s, keeps, under)
  PROVE  Ownership' /\ RegistryStep
<1>1. Slot(n, "wasm", s) \in Modules  BY SlotParts
<1>2. status[s] = "unused" /\ Define(Slot(n, "wasm", s), under) /\ deleted' = deleted
  BY DEF DefineWasm
<1> QED  BY <1>1, <1>2, FreshWasm, DefineOwned

LEMMA RemoveOwned ==
  ASSUME Bearable, Inv, Ownership, NEW n, RemoveModule(n)
  PROVE  Ownership' /\ RegistryStep
<1> DEFINE i == Find(n)
<1>1. /\ i # 0 /\ May("remove") /\ deleted' = deleted  BY DEF RemoveModule
<1>2. i \in DOMAIN slots /\ i \in Nat
  <2>1. slots \in Seq(SlotSet)  BY Parts
  <2>2. i \in DOMAIN slots  BY <1>1, <2>1, FindFinds
  <2> HIDE DEF i
  <2> QED  BY <2>1, <2>2
<1>3. ~deleted /\ Deletes(calls) = {}  BY <1>1, MayUnder
<1>4. CASE slots[i].type = "host"
  <2>1. Detach(i, Append(calls, Removing(i, NoModule))) /\ status' = status /\ fault' = fault
    BY <1>4 DEF RemoveModule, Null
  <2> HIDE DEF i
  <2>2. /\ slots' = slots /\ attached' = attached \ {slots[i].val}
        /\ \E m \in Nat :
             /\ Removes(calls') = Removes(calls) \cup {m} /\ m \notin Removes(calls)
             /\ \A k \in Removes(calls) : k \in Nat /\ k < m
             /\ calls'[m] = Removing(i, NoModule) /\ Deletes(calls') = Deletes(calls)
             /\ \A k \in Removes(calls) : calls'[k] = calls[k]
    BY <1>2, <2>1, DetachBegins, SameTwice, Parts
  <2>3. Loaded(NoModule, status) = status  BY Kinds DEF Loaded, NoModule, Slot
  <2> QED  BY <1>1, <1>2, <1>3, <1>4, <2>1, <2>2, <2>3, BeginOwned
<1>5. CASE slots[i].type = "wasm"
  <2>1. slots' = Vacated(i) /\ Free(slots[i].val, NoModule) /\ UNCHANGED <<calls, attached>>
    BY <1>5 DEF RemoveModule, Null
  <2>2. NoModule.type # "wasm"  BY Kinds DEF NoModule, Slot
  <2> HIDE DEF i
  <2>3. fault' = fault /\ \A s \in States : status'[s] = IF slots[i].val = s THEN "freed" ELSE status[s]
    <3>1. \A d \in Deletes(calls) : ~(i < d)  BY <1>3
    <3>2. NoModule \in Modules \cup {NoModule}  OBVIOUS
    <3>3. /\ fault' = fault
          /\ \A s \in States : status'[s] =
               IF NoModule.type = "wasm" /\ NoModule.val = s THEN "loaded"
               ELSE IF slots[i].val = s THEN "freed" ELSE status[s]
      BY <1>2, <1>3, <1>5, <2>1, <3>1, <3>2, FreeLoaded
    <3> QED  BY <2>2, <3>3
  <2> QED  BY <1>1, <1>2, <1>3, <1>5, <2>1, <2>3, DropOwned
<1>6. CASE slots[i].type = Null
  <2>1. UNCHANGED <<slots, status, fault, calls, attached>>  BY <1>6 DEF RemoveModule, Null
  <2> QED  BY <1>1, <1>3, <2>1, SameTwice, QuietOwned
<1> QED  BY <1>2, <1>4, <1>5, <1>6, Parts

LEMMA DetachedReturnsOwned ==
  ASSUME Inv, Ownership, DetachedReturns
  PROVE  Ownership' /\ RegistryStep
<1> DEFINE f == Below
           under == Front(calls)
           n == Len(under)
<1>1. /\ calls # <<>> /\ Last(calls).op = "on_detached" /\ status' = status
      /\ deleted' = deleted /\ slots \in Seq(SlotSet) /\ calls \in Seq(Frames)
      /\ Nested(calls, slots) /\ NamesUnique
  BY Parts DEF DetachedReturns, Inv
<1>2. ~deleted  BY <1>1 DEF Ownership, Removals
<1>3. /\ f.op \in {"remove", "delete"} /\ under # <<>>
      /\ f.op = "remove" => f.slot \in DOMAIN slots
      /\ f.mod # NoModule => f.mod.name = slots[f.slot].name
      /\ f.mod \in Modules \cup {NoModule}
  BY <1>1, DetachedBelow
<1>4. Same(calls, under) /\ under \in Seq(Frames)
  <2>1. Last(calls).op \notin {"remove", "delete"}  BY <1>1
  <2> QED  BY <1>1, <2>1, Popped, PopOther
<1>5. CASE f.op = "delete"
  <2>1. calls' = under /\ UNCHANGED <<slots, attached, fault>>
    BY <1>5 DEF DetachedReturns, Below
  <2> QED  BY <1>1, <1>2, <1>4, <2>1, QuietOwned
<1>6. CASE f.op = "remove"
  <2>1. f = Last(under)  BY DEF Below
  <2> DEFINE cs == Front(under)
  <2>2. /\ Removes(cs) = Removes(calls) \ {n} /\ n \in Removes(calls) /\ calls[n] = f
        /\ Deletes(cs) = Deletes(calls) /\ \A k \in Removes(cs) : cs[k] = calls[k]
        /\ cs \in Seq(Frames) /\ \A k \in Removes(calls) : k = n \/ k < n
    <3> HIDE DEF under, f
    <3>1. /\ Removes(cs) = Removes(under) \ {n} /\ n \in Removes(under) /\ under[n] = f
          /\ Deletes(cs) = Deletes(under) /\ \A k \in Removes(cs) : cs[k] = under[k]
          /\ cs \in Seq(Frames)
      BY <1>3, <1>4, <1>6, <2>1, PopRemove, Popped
    <3>2. \A k \in Removes(under) : k = n \/ k < n  BY <1>4 DEF Removes
    <3> QED  BY <1>4, <3>1, <3>2 DEF Same
  <2>3. ~f.stale  BY <2>2 DEF Ownership, Removals
  <2>4. CASE f.mod = NoModule
    <3>1. slots' = Vacated(f.slot) /\ calls' = cs /\ UNCHANGED <<attached, fault>>
      BY <1>6, <2>3, <2>4 DEF DetachedReturns, Below
    <3>2. NoModule.type # "host"  BY Kinds DEF NoModule, Slot
    <3> HIDE DEF f, cs, n
    <3>3. /\ DOMAIN slots' = DOMAIN slots
          /\ \A j \in DOMAIN slots : /\ slots'[j].val = slots[j].val
                                     /\ slots'[j].name = slots[j].name
                                     /\ slots'[j].type = IF j = f.slot THEN Null ELSE slots[j].type
      BY <1>1, <1>3, <1>6, <3>1, SlotVacated
    <3>4. /\ \A j \in DOMAIN slots : j # f.slot =>
               slots'[j].type = slots[j].type /\ slots'[j].val = slots[j].val
          /\ f.mod # NoModule => /\ slots'[f.slot].type = f.mod.type
                                 /\ slots'[f.slot].val = f.mod.val
          /\ f.mod = NoModule => slots'[f.slot].type = Null
      BY <1>3, <1>6, <2>4, <3>3
    <3>5. attached' = IF f.mod.type = "host" THEN attached \cup {f.mod.val} ELSE attached
      BY <2>4, <3>1, <3>2
    <3>6. /\ Removes(calls') = Removes(calls) \ {n} /\ Deletes(calls') = Deletes(calls)
          /\ \A k \in Removes(calls') : calls'[k] = calls[k]
      BY <2>2, <3>1
    <3>7. /\ n \in Removes(calls) /\ f.slot = calls[n].slot /\ f.mod = calls[n].mod
          /\ \A k \in Removes(calls) : k = n \/ k < n
      BY <2>2
    <3>8. /\ DOMAIN slots' = DOMAIN slots /\ fault' = fault /\ status' = status
          /\ deleted' = deleted /\ \A j \in DOMAIN slots : slots'[j].name = slots[j].name
      BY <1>1, <3>1, <3>3
    <3> QED  BY <1>2, <3>4, <3>5, <3>6, <3>7, <3>8, FinishOwned, ZenonT(60)
  <2>5. CASE f.mod # NoModule
    <3>1. slots' = [slots EXCEPT ![f.slot] = f.mod] /\ Attach(f.mod, cs) /\ fault' = fault
      BY <1>6, <2>3, <2>5 DEF DetachedReturns, Below
    <3> HIDE DEF f, cs, n
    <3>2. f.mod \in SlotSet  BY <1>3, <2>5, SlotParts
    <3>3. /\ DOMAIN slots' = DOMAIN slots
          /\ \A j \in DOMAIN slots : slots'[j] = IF j = f.slot THEN f.mod ELSE slots[j]
      BY <1>1, <1>3, <1>6, <2>5, <3>1, <3>2, SlotReplaced
    <3>4. /\ Same(cs, calls')
          /\ attached' = IF f.mod.type = "host" THEN attached \cup {f.mod.val} ELSE attached
      BY <2>2, <3>1, AttachSame
    <3>5. /\ Removes(calls') = Removes(calls) \ {n} /\ Deletes(calls') = Deletes(calls)
          /\ \A k \in Removes(calls') : calls'[k] = calls[k]
      BY <2>2, <3>4 DEF Same
    <3>6. /\ DOMAIN slots' = DOMAIN slots /\ fault' = fault /\ status' = status
          /\ deleted' = deleted /\ \A j \in DOMAIN slots : slots'[j].name = slots[j].name
      BY <1>1, <1>3, <1>6, <2>5, <3>1, <3>3
    <3>7. /\ \A j \in DOMAIN slots : j # f.slot =>
               slots'[j].type = slots[j].type /\ slots'[j].val = slots[j].val
          /\ f.mod # NoModule => /\ slots'[f.slot].type = f.mod.type
                                 /\ slots'[f.slot].val = f.mod.val
          /\ f.mod = NoModule => slots'[f.slot].type = Null
      BY <1>3, <1>6, <2>5, <3>3
    <3>8. /\ n \in Removes(calls) /\ f.slot = calls[n].slot /\ f.mod = calls[n].mod
          /\ \A k \in Removes(calls) : k = n \/ k < n
      BY <2>2
    <3> QED  BY <1>2, <3>4, <3>5, <3>6, <3>7, <3>8, FinishOwned, ZenonT(60)
  <2> QED  BY <2>4, <2>5
<1> QED  BY <1>3, <1>5, <1>6

LEMMA AttachedReturnsOwned ==
  ASSUME Inv, Ownership, AttachedReturns
  PROVE  Ownership' /\ RegistryStep
<1>1. /\ calls # <<>> /\ Last(calls).op = "on_attached" /\ calls' = Front(calls)
      /\ UNCHANGED <<slots, status, attached, deleted, fault>>
  BY DEF AttachedReturns
<1>2. Last(calls).op \notin {"remove", "delete"} /\ calls \in Seq(Frames)  BY <1>1, Parts
<1>3. Same(calls, calls')  BY <1>1, <1>2, PopOther
<1>4. ~deleted  BY <1>1 DEF Ownership, Removals
<1> QED  BY <1>1, <1>3, <1>4, QuietOwned

LEMMA BeginDeleteOwned ==
  ASSUME Inv, Ownership, BeginDelete
  PROVE  Ownership' /\ RegistryStep
<1>1. /\ calls = <<>> /\ ~deleted /\ calls' = <<Deleting(1)>>
      /\ UNCHANGED <<slots, status, attached, deleted, fault>>
  BY DEF BeginDelete
<1>2. Deleting(1) \in Frames /\ Deleting(1).op = "delete" /\ Deleting(1).slot = 1
  BY FrameParts, FrameFields
<1>3. Removes(calls') = {} /\ Deletes(calls') = {1}  BY <1>1, <1>2, DeleteFrames
<1>4. Removes(calls) = {} /\ Deletes(calls) = {}  BY <1>1 DEF Removes, Deletes
<1>5. Apart'  BY <1>1, <1>3, <1>4 DEF Ownership, Apart
<1>6. Owned'  BY <1>1, <1>3, <1>4 DEF Ownership, Owned
<1>7. Removals' /\ Paired'  BY <1>1, <1>3 DEF Removals, Paired
<1>8. Passed'
  <2>1. \A i \in Nat \ {0} : ~(i < 1)  OBVIOUS
  <2> QED  BY <1>3, <2>1 DEF Passed
<1>9. RegistryStep  BY <1>1, NoBinding
<1> QED  BY <1>1, <1>5, <1>6, <1>7, <1>8, <1>9 DEF Ownership, NoFault

LEMMA DeleteOneOwned ==
  ASSUME Inv, Ownership, DeleteOne
  PROVE  Ownership' /\ RegistryStep
<1> DEFINE i == Last(calls).slot
           d == Advanced(Last(calls))
           on == Append(Front(calls), d)
<1>1. /\ calls # <<>> /\ Last(calls).op = "delete" /\ i \in DOMAIN slots /\ deleted' = deleted
  BY DEF DeleteOne
<1>2. ~deleted  BY <1>1 DEF Ownership, Removals
<1>3. /\ Last(calls) \in Frames /\ Front(calls) = <<>> /\ calls = <<Last(calls)>>
  BY <1>1, DeleteAlone DEF Inv
<1>4. Removes(calls) = {} /\ Deletes(calls) = {i}  BY <1>1, <1>3, DeleteFrames
<1>5. d \in Frames /\ d.op = "delete" /\ d.slot = i + 1 /\ i \in Nat
  BY <1>1, <1>3, AdvancedFrame DEF Frames
<1>6. on = <<d>>  BY <1>3
<1>7. /\ slots[i].type = "host" => Detach(i, on) /\ status' = status /\ fault' = fault
      /\ slots[i].type = "wasm" =>
           calls' = on /\ Free(slots[i].val, NoModule) /\ UNCHANGED <<slots, attached>>
      /\ slots[i].type = Null => calls' = on /\ UNCHANGED <<slots, attached, status, fault>>
  BY DEF DeleteOne, Null
<1> HIDE DEF i, d, on
<1>8. /\ Removes(on) = {} /\ Deletes(on) = {d.slot}
      /\ Removes(Append(on, Callback("on_detached"))) = {}
      /\ Deletes(Append(on, Callback("on_detached"))) = {d.slot}
  BY <1>5, <1>6, DeleteFrames
<1>9. d.slot = i + 1 /\ d.slot \in Nat  BY <1>5
<1>10. CASE slots[i].type = "host"
  <2>1. /\ calls' = Append(on, Callback("on_detached")) /\ slots' = slots
        /\ attached' = attached \ {slots[i].val}
    BY <1>7, <1>10 DEF Detach
  <2> QED  BY <1>1, <1>2, <1>4, <1>5, <1>7, <1>8, <1>9, <1>10, <2>1, PassOwned
<1>11. CASE slots[i].type = "wasm"
  <2>1. NoModule.type # "wasm"  BY Kinds DEF NoModule, Slot
  <2>2. \A e \in Deletes(calls) : ~(i < e)  BY <1>4, <1>5
  <2>3. fault' = fault /\ \A s \in States : status'[s] = IF slots[i].val = s THEN "freed" ELSE status[s]
    BY <1>1, <1>2, <1>7, <1>11, <2>1, <2>2, FreeLoaded, ZenonT(60)
  <2> QED  BY <1>1, <1>2, <1>4, <1>5, <1>7, <1>8, <1>9, <1>11, <2>3, PassOwned
<1>12. CASE slots[i].type = Null
  BY <1>1, <1>2, <1>4, <1>5, <1>7, <1>8, <1>9, <1>12, PassOwned, Kinds
<1> QED  BY <1>1, <1>10, <1>11, <1>12, Parts

LEMMA EndDeleteOwned ==
  ASSUME Inv, Ownership, EndDelete
  PROVE  Ownership' /\ RegistryStep
<1>1. /\ calls # <<>> /\ Last(calls).op = "delete" /\ deleted' = TRUE /\ calls' = Front(calls)
      /\ Last(calls).slot \notin DOMAIN slots
      /\ UNCHANGED <<slots, status, attached, fault>>
  BY DEF EndDelete
<1>2. Last(calls) \in Frames /\ Front(calls) = <<>> /\ calls = <<Last(calls)>>
  BY <1>1, DeleteAlone DEF Inv
<1>3. Removes(calls) = {} /\ Deletes(calls) = {Last(calls).slot}  BY <1>1, <1>2, DeleteFrames
<1>4. calls' = <<>>  BY <1>1, <1>2
<1>5. Removes(calls') = {} /\ Deletes(calls') = {}  BY <1>4 DEF Removes, Deletes
<1>6. Apart'  BY <1>1, <1>5 DEF Ownership, Apart
<1>7. Owned'  BY <1>1, <1>3, <1>5 DEF Ownership, Owned
<1>8. Removals' /\ Paired'  BY <1>1, <1>4, <1>5 DEF Removals, Paired
<1>9. Passed'  BY <1>5 DEF Passed
<1>10. RegistryStep
  <2> DEFINE d == Last(calls).slot
  <2>1. d \in Nat \ {0}  BY <1>1, <1>2, DeleteAlone DEF Inv, Frames
  <2>2. d \notin DOMAIN slots /\ d \in Deletes(calls)  BY <1>1, <1>3
  <2> HIDE DEF d
  <2>3. \A i \in DOMAIN slots : ~Used(i)
    <3>1. slots \in Seq(SlotSet)  BY Parts
    <3>2. \A i \in DOMAIN slots : i \in Nat \ {0} /\ i < d  BY <2>1, <2>2, <3>1
    <3> QED  BY <2>2, <3>2 DEF Ownership, Passed
  <2>4. \A n \in Names : Bound[n] = "nothing"
    <3> SUFFICES ASSUME NEW n \in Names PROVE Bound[n] = "nothing"  OBVIOUS
    <3>1. CASE \E i \in DOMAIN slots : slots[i].name = n  BY <2>3, <3>1, BoundFacts DEF BoundBySlots
    <3>2. CASE \A i \in DOMAIN slots : slots[i].name # n  BY <3>2, BoundFacts DEF BoundBySlots
    <3> QED  BY <3>1, <3>2
  <2>5. Registry!InUse = {}  BY <2>4 DEF Registry!InUse
  <2>6. Bound' = Bound  BY <1>1 DEF Bound, Find, SelectInSeq
  <2>7. ~deleted  BY <1>1 DEF Ownership, Removals
  <2>8. Registry!Close  BY <1>1, <2>5, <2>6, <2>7 DEF Registry!Close
  <2> QED  BY <2>8 DEF RegistryStep, Registry!Next
<1> QED  BY <1>1, <1>6, <1>7, <1>8, <1>9, <1>10 DEF Ownership, NoFault

LEMMA InitOwnership == Init => Ownership /\ Registry!Init
<1> SUFFICES ASSUME Init PROVE Ownership /\ Registry!Init  OBVIOUS
<1>1. /\ slots = <<Slot(Meta, "host", Meta)>> /\ calls = <<>> /\ fault = "none" /\ ~deleted
      /\ attached = {} /\ \A s \in States : status[s] = "unused"
  BY DEF Init
<1>2. DOMAIN slots = {1} /\ slots[1].type = "host" /\ slots[1].val = Meta  BY <1>1 DEF Slot
<1>3. Removes(calls) = {} /\ Deletes(calls) = {}  BY <1>1 DEF Removes, Deletes
<1>4. Meta \notin Hosts  BY NamespaceAssumption DEF Meta
<1>5. Apart  BY <1>2, <1>3 DEF Apart
<1>6. Owned  BY <1>1, <1>2, <1>3 DEF Owned
<1>7. Removals  BY <1>1, <1>3 DEF Removals
<1>8. Paired  BY <1>1, <1>2, <1>4 DEF Paired
<1>9. Passed  BY <1>3 DEF Passed
<1>10. Registry!Init
  <2>1. Inv  BY InitInv
  <2>2. \A n \in Names : n # Meta  BY NamespaceAssumption DEF Meta
  <2>3. \A i \in DOMAIN slots : slots[i].name = Meta  BY <1>1 DEF Slot
  <2>4. \A n \in Names : Bound[n] = "nothing"  BY <2>1, <2>2, <2>3, BoundFacts DEF BoundBySlots
  <2>5. Bound = [n \in Names |-> Bound[n]]  BY <2>1, BoundFacts DEF BoundBySlots
  <2>6. Bound = [n \in Names |-> "nothing"]  BY <2>4, <2>5
  <2>7. deleted = FALSE  BY DEF Init
  <2> QED  BY <2>6, <2>7 DEF Registry!Init
<1> QED  BY <1>1, <1>5, <1>6, <1>7, <1>8, <1>9, <1>10 DEF Ownership, NoFault

LEMMA CodeOwned ==
  ASSUME Inv, Ownership,
         \/ \E s \in States : Call(s)
         \/ Starts
  PROVE  Ownership' /\ RegistryStep
<1>1. /\ UNCHANGED <<slots, status, attached, deleted, fault>> /\ calls \in Seq(Frames)
  BY Parts DEF Call, Starts
<1>2. \A s \in States : Running(s) \in Frames /\ Running(s).op \notin {"remove", "delete"}
  BY FrameParts, FrameFields
<1>3. CASE \E s \in States : Call(s)
  <2>1. PICK s \in States : Call(s)  BY <1>3
  <2>2. ~deleted /\ calls' = Append(calls, Running(s))  BY <2>1 DEF Call, May
  <2>3. Same(calls, calls')  BY <1>1, <1>2, <2>2, PushOther
  <2> QED  BY <1>1, <2>2, <2>3, QuietOwned
<1>4. CASE Starts
  <2>1. /\ calls # <<>> /\ Last(calls).op = "starting"
        /\ calls' \in {Front(calls), Append(Front(calls), Running(Last(calls).code))}
    BY <1>4 DEF Starts
  <2>2. Last(calls).code \in States /\ Front(calls) \in Seq(Frames)
    <3>1. Last(calls) \in Frames /\ Front(calls) \in Seq(Frames)  BY <1>1, <2>1, Popped
    <3> QED  BY <2>1, <3>1 DEF Frames
  <2>3. Same(calls, Front(calls))
    <3>1. Last(calls).op \notin {"remove", "delete"}  BY <2>1
    <3> QED  BY <1>1, <2>1, <3>1, PopOther
  <2>4. Same(Front(calls), Append(Front(calls), Running(Last(calls).code)))
    <3> DEFINE e == Running(Last(calls).code)
    <3>1. e \in Frames /\ e.op \notin {"remove", "delete"}  BY <1>2, <2>2
    <3> HIDE DEF e
    <3>2. Same(Front(calls), Append(Front(calls), e))  BY <2>2, <3>1, PushOther
    <3> QED  BY <3>2 DEF e
  <2> DEFINE on == Append(Front(calls), Running(Last(calls).code))
  <2>5. Same(calls, calls')
    <3>1. Same(Front(calls), on) /\ calls' \in {Front(calls), on}  BY <2>1, <2>4
    <3> HIDE DEF on
    <3> QED  BY <2>3, <3>1, SameTwice
  <2>6. ~deleted  BY <2>1 DEF Ownership, Removals
  <2> QED  BY <1>1, <2>5, <2>6, QuietOwned
<1> QED  BY <1>3, <1>4

LEMMA ReturnOwned ==
  ASSUME Inv, Ownership, RunningLoaded, Return
  PROVE  Ownership' /\ RegistryStep
<1>1. /\ calls # <<>> /\ Last(calls).op = "running" /\ calls' = Front(calls)
      /\ UNCHANGED <<slots, status, attached, deleted>>
      /\ fault' = IF status[Last(calls).code] = "loaded" THEN fault ELSE "returned into freed code"
      /\ calls \in Seq(Frames)
  BY Parts DEF Return
<1>2. /\ Last(calls) \in Frames /\ Last(calls) = calls[Len(calls)] /\ Len(calls) \in DOMAIN calls
  <2>1. /\ Last(calls) \in Frames /\ Last(calls) = calls[Len(calls)]
        /\ DOMAIN calls = 1 .. Len(calls) /\ Len(calls) \in Nat \ {0}
    BY <1>1, Popped
  <2> QED  BY <2>1
<1>3. Last(calls).code # "none"  BY <1>1, <1>2 DEF Frames
<1>4. fault' = fault  BY <1>1, <1>2, <1>3 DEF RunningLoaded, Codes
<1>5. Same(calls, calls')
  <2>1. Last(calls).op \notin {"remove", "delete"}  BY <1>1
  <2> QED  BY <1>1, <2>1, PopOther
<1>6. ~deleted  BY <1>1 DEF Ownership, Removals
<1> QED  BY <1>1, <1>4, <1>5, <1>6, QuietOwned

LEMMA NextOwnership ==
  ASSUME Bearable, Inv, Ownership, RunningLoaded, [Next]_vars
  PROVE  Ownership' /\ RegistryStep
<1>0. Nested(calls, slots) /\ calls \in Seq(Frames)  BY DEF Inv, Nested
<1>1. ASSUME NEW n \in Names, NEW h \in Hosts, DefineHost(n, h) PROVE Ownership' /\ RegistryStep
  <2>1. Slot(n, "host", h) \in Modules  BY SlotParts
  <2>2. Define(Slot(n, "host", h), calls) /\ deleted' = deleted  BY <1>1 DEF DefineHost
  <2>3. Fresh(Slot(n, "host", h))  BY <1>1, FreshHost DEF DefineHost
  <2> QED  BY <1>0, <2>1, <2>2, <2>3, SameTwice, DefineOwned
<1>2. ASSUME NEW n \in Names, NEW s \in States, NEW keeps \in BOOLEAN,
             DefineWasm(n, s, keeps, calls)
      PROVE  Ownership' /\ RegistryStep
  BY <1>0, <1>2, SameTwice, DefineWasmOwned
<1>3. ASSUME NEW n \in Names, RemoveModule(n) PROVE Ownership' /\ RegistryStep
  BY <1>3, RemoveOwned
<1>4. /\ <<"in code", "lost struct">> \notin Liberties
      /\ <<"in code", "bad bytes">> \notin Liberties
  BY DEF Bearable, Unbearable
<1>5. ASSUME NEW s \in States, NEW new \in States, NEW n \in Names, NEW compiles \in BOOLEAN,
             LoadModule(s, n, new, compiles)
      PROVE  Ownership' /\ RegistryStep
  <2>1. DefineWasm(n, new, FALSE, Append(calls, Starting(new)))
    BY <1>4, <1>5 DEF LoadModule, LostStruct
  <2>2. /\ Starting(new) \in Frames /\ Starting(new).op = "starting"
        /\ Starting(new).mod = NoModule
    BY FrameParts, FrameFields
  <2>3. Nested(Append(calls, Starting(new)), slots)  BY <1>0, <2>2, PushedNested
  <2>4. Same(calls, Append(calls, Starting(new)))
    <3>1. Starting(new).op \notin {"remove", "delete"}  BY <2>2
    <3> QED  BY <1>0, <2>2, <3>1, PushOther
  <2> QED  BY <2>1, <2>3, <2>4, DefineWasmOwned
<1>6. ASSUME NEW s \in States, NEW n \in Names, UnloadModule(s, n) PROVE Ownership' /\ RegistryStep
  BY <1>4, <1>6, RemoveOwned DEF UnloadModule, LostStruct
<1>7. CASE UNCHANGED vars
  <2>1. Ownership'
    BY <1>7 DEF vars, Ownership, Apart, Owned, Removals, Paired, Passed, Used, NoFault
  <2>2. RegistryStep  BY <1>7, NoBinding DEF vars
  <2> QED  BY <2>1, <2>2
<1> QED
  BY <1>1, <1>2, <1>3, <1>5, <1>6, <1>7, BeginDeleteOwned, AttachedReturnsOwned,
     DetachedReturnsOwned, DeleteOneOwned, EndDeleteOwned, CodeOwned, ReturnOwned
  DEF Next, Embedder, Operation

-----------------------------------------------------------------------------
(* The code that runs is not freed, unless the code takes that liberty.    *)

LEMMA CodesPushed ==
  ASSUME NEW cs \in Seq(Frames), NEW e \in Frames
  PROVE  Codes(Append(cs, e)) = Codes(cs) \cup ({e.code} \ {"none"})
<1> DEFINE new == Append(cs, e)
           n == Len(cs) + 1
<1>1. /\ DOMAIN cs = 1 .. Len(cs) /\ Len(cs) \in Nat /\ DOMAIN new = 1 .. n
      /\ new[n] = e /\ \A k \in DOMAIN cs : new[k] = cs[k]
  BY Pushed
<1> HIDE DEF new
<1>2. DOMAIN new = DOMAIN cs \cup {n}  BY <1>1
<1> HIDE DEF n
<1> QED  BY <1>1, <1>2 DEF Codes, new

LEMMA CodesPopped ==
  ASSUME NEW cs \in Seq(Frames), cs # <<>>
  PROVE  /\ Codes(Front(cs)) \subseteq Codes(cs)
         /\ Codes(cs) = Codes(Front(cs)) \cup ({Last(cs).code} \ {"none"})
<1> DEFINE new == Front(cs)
           n == Len(cs)
<1>1. /\ DOMAIN cs = 1 .. n /\ n \in Nat \ {0} /\ DOMAIN new = 1 .. n - 1
      /\ Last(cs) = cs[n] /\ \A k \in DOMAIN new : new[k] = cs[k]
  BY Popped
<1> HIDE DEF new
<1>2. DOMAIN cs = DOMAIN new \cup {n}  BY <1>1
<1> HIDE DEF n
<1> QED  BY <1>1, <1>2 DEF Codes, new

LEMMA CodesStale ==
  ASSUME NEW cs, NEW sl, Nested(cs, sl)
  PROVE  Codes(Stale(cs)) = Codes(cs)
<1> DEFINE new == Stale(cs)
<1>1. DOMAIN new = DOMAIN cs /\ \A k \in DOMAIN cs : new[k].code = cs[k].code  BY StaleNested
<1> HIDE DEF new
<1> QED  BY <1>1 DEF Codes, new

LEMMA NoCodePushed ==
  ASSUME NEW cs \in Seq(Frames), NEW e \in Frames, e.code = "none"
  PROVE  Codes(Append(cs, e)) = Codes(cs)
<1>1. Codes(Append(cs, e)) = Codes(cs) \cup ({e.code} \ {"none"})  BY CodesPushed
<1> QED  BY <1>1

LEMMA CallbackCodes ==
  ASSUME NEW cs \in Seq(Frames), NEW op \in {"on_attached", "on_detached"}
  PROVE  Codes(Append(cs, Callback(op))) = Codes(cs)
<1>1. Callback(op) \in Frames /\ Callback(op).code = "none"  BY FrameParts, FrameFields
<1> QED  BY <1>1, NoCodePushed

LEMMA FreeRunning ==
  ASSUME Bearable, Inv, RunningLoaded, NEW s \in States, NEW mod \in Modules \cup {NoModule},
         Free(s, mod)
  PROVE  /\ \A t \in Codes(calls) : status'[t] = "loaded"
         /\ mod.type = "wasm" => status'[mod.val] = "loaded"
<1>1. s \notin Codes(calls)  BY DEF Free, Bearable, Unbearable, Codes
<1>2. status \in Stati /\ calls \in Seq(Frames)  BY Parts
<1>3. Codes(calls) \subseteq States  BY <1>2 DEF Codes, Frames
<1> DEFINE st == [status EXCEPT ![s] = "freed"]
<1>4. st \in Stati /\ \A t \in States : t # s => st[t] = status[t]  BY <1>2 DEF Stati
<1>5. status' = Loaded(mod, st)  BY DEF Free
<1> HIDE DEF st
<1>6. /\ mod.type = "wasm" => mod.val \in States
      /\ \A t \in States : Loaded(mod, st)[t] = IF mod.type = "wasm" /\ mod.val = t
                                                THEN "loaded" ELSE st[t]
  BY <1>4, LoadedTyped
<1>7. \A t \in Codes(calls) : t \in States /\ t # s /\ status[t] = "loaded"
  BY <1>1, <1>3 DEF RunningLoaded
<1> QED  BY <1>4, <1>5, <1>6, <1>7

LEMMA DefineRunning ==
  ASSUME Bearable, Inv, RunningLoaded, NEW mod \in Modules, NEW under, Nested(under, slots),
         \A s \in Codes(under) : s \in Codes(calls) \/ (mod.type = "wasm" /\ s = mod.val),
         Define(mod, under)
  PROVE  RunningLoaded'
<1> DEFINE i == Find(mod.name)
<1>1. /\ slots \in Seq(SlotSet) /\ status \in Stati /\ under \in Seq(Frames)
      /\ Codes(calls) \subseteq States
  BY Parts DEF Nested, Codes, Frames
<1>2. i # 0 => i \in DOMAIN slots  BY <1>1, FindFinds
<1>3. Codes(calls') = Codes(under)
  <2>1. ASSUME NEW cs \in Seq(Frames), Attach(mod, cs) PROVE Codes(calls') = Codes(cs)
    BY <2>1, CallbackCodes DEF Attach
  <2>2. CASE i = 0
    <3>1. PICK cs \in {under, Stale(under)} : Attach(mod, cs)  BY <2>2 DEF Define
    <3>2. Stale(under) \in Seq(Frames) /\ Codes(Stale(under)) = Codes(under)
      <4>1. Nested(Stale(under), slots) /\ Codes(Stale(under)) = Codes(under)
        BY StaleNested, CodesStale
      <4> QED  BY <4>1 DEF Nested
    <3> QED  BY <1>1, <2>1, <3>1, <3>2
  <2>3. CASE i # 0 /\ slots[i].type = "host"
    <3>1. calls' = Append(Append(under, Removing(i, mod)), Callback("on_detached"))
      BY <2>3 DEF Define, Detach
    <3>2. i \in Nat  BY <1>1, <1>2, <2>3
    <3> HIDE DEF i
    <3>3. Removing(i, mod) \in Frames /\ Removing(i, mod).code = "none"
      BY <3>2, FrameParts, FrameFields
    <3>4. Codes(Append(under, Removing(i, mod))) = Codes(under)  BY <1>1, <3>3, NoCodePushed
    <3>5. Append(under, Removing(i, mod)) \in Seq(Frames)  BY <1>1, <3>3, Pushed
    <3> QED  BY <3>1, <3>4, <3>5, CallbackCodes
  <2>4. CASE i # 0 /\ slots[i].type # "host"
    <3>1. Attach(mod, under)  BY <2>4 DEF Define
    <3> QED  BY <1>1, <2>1, <3>1
  <2> QED  BY <2>2, <2>3, <2>4
<1>4. /\ \A s \in Codes(calls) : status'[s] = "loaded"
      /\ mod.type = "wasm" => status'[mod.val] = "loaded"
  <2>1. CASE i # 0 /\ slots[i].type = "wasm"
    <3>1. Free(slots[i].val, mod)  BY <2>1, Kinds DEF Define
    <3> HIDE DEF i
    <3>2. slots[i].val \in States  BY <1>2, <2>1, Parts
    <3> QED  BY <3>1, <3>2, FreeRunning
  <2>2. CASE ~(i # 0 /\ slots[i].type = "wasm")
    <3>1. status' = Loaded(mod, status)  BY <2>2 DEF Define
    <3> QED  BY <1>1, <3>1, LoadedTyped DEF RunningLoaded
  <2> QED  BY <2>1, <2>2
<1> QED  BY <1>3, <1>4 DEF RunningLoaded

LEMMA DefineWasmRunning ==
  ASSUME Bearable, Inv, RunningLoaded, NEW n \in Names, NEW s \in States, NEW keeps,
         NEW under, Nested(under, slots), Codes(under) \subseteq Codes(calls) \cup {s},
         DefineWasm(n, s, keeps, under)
  PROVE  RunningLoaded'
<1>1. /\ Slot(n, "wasm", s) \in Modules
      /\ Slot(n, "wasm", s).type = "wasm" /\ Slot(n, "wasm", s).val = s
  BY SlotParts
<1>2. Define(Slot(n, "wasm", s), under)  BY DEF DefineWasm
<1> QED  BY <1>1, <1>2, DefineRunning

LEMMA RemoveRunning ==
  ASSUME Bearable, Inv, RunningLoaded, NEW n, RemoveModule(n)
  PROVE  RunningLoaded'
<1> DEFINE i == Find(n)
<1>1. slots \in Seq(SlotSet) /\ calls \in Seq(Frames) /\ i # 0  BY Parts DEF RemoveModule
<1>2. i \in DOMAIN slots /\ i \in Nat
  <2>1. i \in DOMAIN slots  BY <1>1, FindFinds
  <2> HIDE DEF i
  <2> QED  BY <1>1, <2>1
<1>3. CASE slots[i].type = "host"
  <2>1. /\ calls' = Append(Append(calls, Removing(i, NoModule)), Callback("on_detached"))
        /\ status' = status
    BY <1>3 DEF RemoveModule, Detach, Null
  <2> HIDE DEF i
  <2>2. Removing(i, NoModule) \in Frames /\ Removing(i, NoModule).code = "none"
    <3>1. NoModule \in Modules \cup {NoModule}  OBVIOUS
    <3>2. Removing(i, NoModule) \in Frames  BY <1>2, <3>1, FrameParts
    <3>3. Removing(i, NoModule).code = "none"  BY DEF Removing, Frame
    <3> QED  BY <3>2, <3>3
  <2>3. Codes(Append(calls, Removing(i, NoModule))) = Codes(calls)  BY <1>1, <2>2, NoCodePushed
  <2>4. Append(calls, Removing(i, NoModule)) \in Seq(Frames)  BY <1>1, <2>2, Pushed
  <2> QED  BY <2>1, <2>3, <2>4, CallbackCodes DEF RunningLoaded
<1>4. CASE slots[i].type = "wasm"
  <2>1. Free(slots[i].val, NoModule) /\ calls' = calls  BY <1>4 DEF RemoveModule, Null
  <2> HIDE DEF i
  <2>2. slots[i].val \in States  BY <1>2, <1>4, Parts
  <2>3. \A t \in Codes(calls) : status'[t] = "loaded"  BY <2>1, <2>2, FreeRunning
  <2> QED  BY <2>1, <2>3 DEF RunningLoaded
<1>5. CASE slots[i].type = Null
  <2>1. UNCHANGED <<status, calls>>  BY <1>5 DEF RemoveModule, Null
  <2> QED  BY <2>1 DEF RunningLoaded
<1> QED  BY <1>2, <1>3, <1>4, <1>5, Parts

LEMMA DeleteRunning ==
  ASSUME Inv, BeginDelete \/ DeleteOne \/ EndDelete
  PROVE  Codes(calls') = {}
<1>1. Codes(<<>>) = {}  BY DEF Codes
<1>2. ASSUME NEW d \in Frames, d.op = "delete"
      PROVE  Codes(<<d>>) = {} /\ Codes(Append(<<d>>, Callback("on_detached"))) = {}
  <2>1. d.code = "none"  BY <1>2 DEF Frames
  <2>2. <<d>> \in Seq(Frames)  OBVIOUS
  <2>3. Codes(<<d>>) = {}
    <3> DEFINE one == <<d>>
    <3>1. DOMAIN one = {1} /\ one[1] = d  OBVIOUS
    <3> HIDE DEF one
    <3>2. Codes(one) = {}  BY <2>1, <3>1 DEF Codes
    <3> QED  BY <3>2 DEF one
  <2> QED  BY <2>2, <2>3, CallbackCodes
<1>3. CASE BeginDelete
  <2>1. Deleting(1) \in Frames /\ Deleting(1).op = "delete"  BY FrameParts, FrameFields
  <2> QED  BY <1>2, <1>3, <2>1 DEF BeginDelete
<1>4. CASE EndDelete
  <2>1. Front(calls) = <<>>  BY <1>4, DeleteAlone DEF EndDelete, Inv
  <2> QED  BY <1>1, <1>4, <2>1 DEF EndDelete
<1>5. CASE DeleteOne
  <2> DEFINE d == Advanced(Last(calls))
             on == Append(Front(calls), d)
  <2>1. Front(calls) = <<>> /\ Last(calls) \in Frames /\ Last(calls).op = "delete"
    BY <1>5, DeleteAlone DEF DeleteOne, Inv
  <2>2. d \in Frames /\ d.op = "delete"  BY <2>1, AdvancedFrame
  <2>3. calls' = on \/ calls' = Append(on, Callback("on_detached"))
    <3>1. slots[Last(calls).slot].type \in {"host", "wasm", Null}  BY <1>5, Parts DEF DeleteOne
    <3> QED  BY <1>5, <3>1 DEF DeleteOne, Detach, Null
  <2> HIDE DEF d
  <2>4. on = <<d>>  BY <2>1
  <2> QED  BY <1>2, <2>2, <2>3, <2>4
<1> QED  BY <1>3, <1>4, <1>5

LEMMA NextRunning ==
  ASSUME Bearable, Inv, RunningLoaded, [Next]_vars
  PROVE  RunningLoaded'
<1>0. Nested(calls, slots) /\ calls \in Seq(Frames)  BY DEF Inv, Nested
<1>1. ASSUME NEW n \in Names, NEW h \in Hosts, DefineHost(n, h) PROVE RunningLoaded'
  <2>1. Slot(n, "host", h) \in Modules  BY SlotParts
  <2>2. Define(Slot(n, "host", h), calls)  BY <1>1 DEF DefineHost
  <2> QED  BY <1>0, <2>1, <2>2, DefineRunning
<1>2. ASSUME NEW n \in Names, NEW s \in States, NEW keeps \in BOOLEAN,
             DefineWasm(n, s, keeps, calls)
      PROVE  RunningLoaded'
  BY <1>0, <1>2, DefineWasmRunning
<1>3. ASSUME NEW n \in Names, RemoveModule(n) PROVE RunningLoaded'
  BY <1>3, RemoveRunning
<1>4. ASSUME NEW how, Faults(how) PROVE RunningLoaded'
  BY <1>4 DEF Faults, RunningLoaded
<1>5. ASSUME NEW s \in States, NEW new \in States, NEW n \in Names, NEW compiles \in BOOLEAN,
             LoadModule(s, n, new, compiles)
      PROVE  RunningLoaded'
  <2> DEFINE under == Append(calls, Starting(new))
  <2>1. CASE DefineWasm(n, new, FALSE, under)
    <3>1. /\ Starting(new) \in Frames /\ Starting(new).op = "starting"
          /\ Starting(new).mod = NoModule /\ Starting(new).code = new
      BY FrameParts, FrameFields
    <3>2. Nested(under, slots)  BY <1>0, <3>1, PushedNested
    <3>3. Codes(under) \subseteq Codes(calls) \cup {new}  BY <1>0, <3>1, CodesPushed
    <3> HIDE DEF under
    <3> QED  BY <2>1, <3>2, <3>3, DefineWasmRunning
  <2> QED  BY <1>4, <1>5, <2>1 DEF LoadModule, LostStruct
<1>6. ASSUME NEW s \in States, NEW n \in Names, UnloadModule(s, n) PROVE RunningLoaded'
  BY <1>4, <1>6, RemoveRunning DEF UnloadModule, LostStruct
<1>7. CASE BeginDelete \/ DeleteOne \/ EndDelete  BY <1>7, DeleteRunning DEF RunningLoaded
<1>8. ASSUME status' = status, Codes(calls') \subseteq Codes(calls) PROVE RunningLoaded'
  BY <1>8 DEF RunningLoaded
<1>9. CASE AttachedReturns
  <2>1. calls # <<>> /\ calls' = Front(calls) /\ status' = status  BY <1>9 DEF AttachedReturns
  <2> QED  BY <1>0, <1>8, <2>1, CodesPopped
<1>10. CASE Return
  <2>1. calls # <<>> /\ calls' = Front(calls) /\ status' = status  BY <1>10 DEF Return
  <2> QED  BY <1>0, <1>8, <2>1, CodesPopped
<1>11. CASE DetachedReturns
  <2> DEFINE under == Front(calls)
             f == Below
  <2>1. /\ calls # <<>> /\ Last(calls).op = "on_detached" /\ status' = status
    BY <1>11 DEF DetachedReturns
  <2>2. under \in Seq(Frames) /\ Codes(under) \subseteq Codes(calls)  BY <1>0, <2>1, Popped, CodesPopped
  <2>3. under # <<>>  BY <1>0, <2>1, DetachedBelow
  <2>4. Front(under) \in Seq(Frames) /\ Codes(Front(under)) \subseteq Codes(under)
    <3> HIDE DEF under
    <3> QED  BY <2>2, <2>3, Popped, CodesPopped
  <2>5. \/ calls' \in {under, Front(under)}
        \/ calls' = Append(Front(under), Callback("on_attached"))
    BY <1>11 DEF DetachedReturns, Below, Attach
  <2> HIDE DEF under
  <2>6. Codes(calls') \subseteq Codes(calls)  BY <2>2, <2>4, <2>5, CallbackCodes
  <2> QED  BY <1>8, <2>1, <2>6
<1>12. CASE Starts
  <2>1. /\ calls # <<>> /\ Last(calls).op = "starting" /\ status' = status
        /\ calls' \in {Front(calls), Append(Front(calls), Running(Last(calls).code))}
    BY <1>12 DEF Starts
  <2>2. Front(calls) \in Seq(Frames) /\ Last(calls) \in Frames  BY <1>0, <2>1, Popped
  <2>3. Last(calls).code \in States  BY <2>1, <2>2 DEF Frames
  <2>4. Running(Last(calls).code) \in Frames /\ Running(Last(calls).code).code = Last(calls).code
    BY <2>3, FrameParts, FrameFields
  <2>5. Codes(Append(Front(calls), Running(Last(calls).code))) = Codes(calls)
    <3> DEFINE e == Running(Last(calls).code)
    <3>1. e \in Frames /\ e.code = Last(calls).code  BY <2>4
    <3> HIDE DEF e
    <3>2. Codes(Append(Front(calls), e)) = Codes(Front(calls)) \cup ({e.code} \ {"none"})
      BY <2>2, <3>1, CodesPushed
    <3>3. Codes(calls) = Codes(Front(calls)) \cup ({Last(calls).code} \ {"none"})
      BY <1>0, <2>1, CodesPopped
    <3> QED  BY <3>1, <3>2, <3>3 DEF e
  <2>6. Codes(calls') \subseteq Codes(calls)  BY <1>0, <2>1, <2>5, CodesPopped
  <2> QED  BY <1>8, <2>1, <2>6
<1>13. ASSUME NEW s \in States, Call(s) PROVE RunningLoaded'
  <2>1. calls' = Append(calls, Running(s)) /\ status' = status /\ status[s] = "loaded"
    BY <1>13 DEF Call
  <2>2. Running(s) \in Frames /\ Running(s).code = s  BY FrameParts, FrameFields
  <2>3. Codes(calls') \subseteq Codes(calls) \cup {s}  BY <1>0, <2>1, <2>2, CodesPushed
  <2> QED  BY <2>1, <2>3 DEF RunningLoaded
<1>14. CASE UNCHANGED vars  BY <1>8, <1>14 DEF vars
<1> QED
  BY <1>1, <1>2, <1>3, <1>5, <1>6, <1>7, <1>9, <1>10, <1>11, <1>12, <1>13, <1>14
  DEF Next, Embedder, Operation

LEMMA OnlyOne ==
  ASSUME NEW A, NEW B, \A i, j \in A : i = j, \A k, l \in B : k = l,
         \A i \in A, k \in B : FALSE, A # {} \/ B # {}
  PROVE  Cardinality(A) + Cardinality(B) = 1
<1>1. Cardinality({}) = 0  BY FS_EmptySet
<1>2. CASE A # {}
  <2>1. PICK x : x \in A  BY <1>2
  <2>2. A = {x} /\ B = {}  BY <2>1
  <2>3. Cardinality({x}) = 1  BY FS_Singleton
  <2> QED  BY <1>1, <2>2, <2>3
<1>3. CASE A = {}
  <2>1. PICK x : x \in B  BY <1>3
  <2>2. B = {x}  BY <2>1
  <2>3. Cardinality({x}) = 1  BY FS_Singleton
  <2> QED  BY <1>1, <1>3, <2>2, <2>3
<1> QED  BY <1>2, <1>3

(* The places of a wasm module, counted.                                   *)
LEMMA OwnerCounted == Inv /\ Ownership => OneOwner
<1> SUFFICES ASSUME Inv, Ownership PROVE OneOwner  OBVIOUS
<1>1. ASSUME NEW s \in States
      PROVE  LET in == {i \in DOMAIN slots : slots[i].type = "wasm" /\ slots[i].val = s}
                 to == {k \in DOMAIN calls : calls[k].mod.val = s}
             IN  /\ status[s] = "loaded" => Cardinality(in) + Cardinality(to) = 1
                 /\ status[s] = "unused" => in = {} /\ to = {}
                 /\ status[s] = "freed" /\ ~InDelete /\ ~deleted => in = {} /\ to = {}
  <2> DEFINE in == {i \in DOMAIN slots : slots[i].type = "wasm" /\ slots[i].val = s}
             to == {k \in DOMAIN calls : calls[k].mod.val = s}
  <2>1. s # "none" /\ NoModule.val = "none"  BY NamespaceAssumption DEF NoModule, Slot
  <2>2. s \notin Hosts \cup {Meta}  BY NamespaceAssumption DEF Meta
  <2>3. \A k \in to : /\ k \in Removes(calls) /\ calls[k].mod # NoModule
                      /\ calls[k].mod.type = "wasm" /\ calls[k].mod.val = s
    <3> SUFFICES ASSUME NEW k \in to
                 PROVE  /\ k \in Removes(calls) /\ calls[k].mod # NoModule
                        /\ calls[k].mod.type = "wasm"
      OBVIOUS
    <3>1. calls[k].mod # NoModule  BY <2>1
    <3>2. k \in Removes(calls)  BY <3>1 DEF Inv, Nested, Removes
    <3> QED  BY <2>2, <3>1, <3>2, Parts
  <2>4. \A k \in Removes(calls) : calls[k].mod.type = "wasm" /\ calls[k].mod.val = s => k \in to
    BY DEF Removes
  <2>5. \A i, j \in in : i = j  BY Kinds DEF Ownership, Apart
  <2>6. \A k, l \in to : k = l  BY <2>3 DEF Ownership, Apart
  <2>7. \A i \in in, k \in to : FALSE  BY <2>3, Kinds DEF Ownership, Apart
  <2>8. ASSUME status[s] = "loaded" PROVE Cardinality(in) + Cardinality(to) = 1
    <3>1. in # {} \/ to # {}  BY <2>4, <2>8 DEF Ownership, Owned
    <3> HIDE DEF in, to
    <3> QED  BY <2>5, <2>6, <2>7, <3>1, OnlyOne
  <2>9. ASSUME status[s] = "unused" PROVE in = {} /\ to = {}
    BY <2>3, <2>9 DEF Ownership, Owned
  <2>10. ASSUME status[s] = "freed", ~InDelete, ~deleted PROVE in = {} /\ to = {}
    <3>1. Deletes(calls) = {}  BY <2>10, AmidNames
    <3> QED  BY <2>3, <2>10, <3>1 DEF Ownership, Owned
  <2> QED  BY <2>8, <2>9, <2>10
<1>2. ASSUME calls = <<>>, ~deleted
      PROVE  attached = {slots[i].val : i \in {j \in DOMAIN slots : slots[j].type = "host"}} \ {Meta}
  <2>1. Removes(calls) = {} /\ Deletes(calls) = {}  BY <1>2 DEF Removes, Deletes
  <2>2. \A h \in Hosts : h \in attached <=>
          \E i \in DOMAIN slots : slots[i].type = "host" /\ slots[i].val = h
    BY <1>2, <2>1 DEF Ownership, Paired
  <2>3. attached \subseteq Hosts /\ Meta \notin Hosts  BY NamespaceAssumption DEF Inv, Typed, Meta
  <2>4. \A i \in DOMAIN slots : slots[i].type = "host" => slots[i].val \in Hosts \cup {Meta}
    BY Parts
  <2> QED  BY <2>2, <2>3, <2>4
<1> QED  BY <1>1, <1>2 DEF OneOwner

-----------------------------------------------------------------------------

(* The inductive invariant.                                                *)
Sound == Inv /\ Ownership /\ RunningLoaded

LEMMA SoundHolds ==
  ASSUME Bearable
  PROVE  /\ Init => Sound /\ Registry!Init
         /\ Sound /\ [Next]_vars => Sound' /\ [Registry!Next]_Registry!vars
<1>1. Init => RunningLoaded  BY DEF Init, RunningLoaded, Codes
<1>2. Sound /\ [Next]_vars => Inv' /\ Ownership' /\ RunningLoaded' /\ RegistryStep
  BY NextInv, NextOwnership, NextRunning DEF Sound
<1> QED  BY <1>1, <1>2, InitInv, InitOwnership DEF Sound, RegistryStep

(* No operation uses a slot, a module state or code that is gone, in       *)
(* however many callbacks and calls, if these do only what Bearable        *)
(* allows: callbacks of remove_module may define over and remove any       *)
(* module, also remove the one being removed again, and the code of        *)
(* modules may do the same, but remove or replace no module whose code     *)
(* runs.                                                                   *)
THEOREM NamespaceNeverFaults ==
  ASSUME Bearable
  PROVE  Spec => []NoFault
<1>1. Init => Sound  BY SoundHolds
<1>2. Sound /\ [Next]_vars => Sound'  BY SoundHolds
<1>3. Sound => NoFault  BY DEF Sound, Ownership
<1> QED  BY <1>1, <1>2, <1>3, PTL DEF Spec

(* A loaded wasm module is in one slot, or about to be stored into one: it *)
(* is freed once and not lost; and host modules are told that they are     *)
(* attached and detached in pairs.  The liberty that would break it in     *)
(* remove_module, besides new names, is to define the name being removed.  *)
THEOREM ModulesHaveOneOwner ==
  ASSUME Bearable
  PROVE  Spec => []OneOwner
<1>1. Init => Sound  BY SoundHolds
<1>2. Sound /\ [Next]_vars => Sound'  BY SoundHolds
<1>3. Sound => OneOwner  BY OwnerCounted DEF Sound
<1> QED  BY <1>1, <1>2, <1>3, PTL DEF Spec

(* A namespace is a registry of the modules in use: each step changes the  *)
(* binding of at most one name, a module gets a name only while no name is *)
(* bound to it, and a deletion ends with none bound.                       *)
THEOREM NamespaceImplementsRegistry ==
  ASSUME Bearable
  PROVE  Spec => ImplementsRegistry
<1>1. Init => Sound /\ Registry!Init  BY SoundHolds
<1>2. Sound /\ [Next]_vars => Sound' /\ [Registry!Next]_Registry!vars  BY SoundHolds
<1> QED  BY <1>1, <1>2, PTL DEF Spec, ImplementsRegistry, Registry!Spec
=============================================================================
