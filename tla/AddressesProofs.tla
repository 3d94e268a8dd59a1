--------------------------- MODULE AddressesProofs ---------------------------
(* Proofs about the address book, for any connections, customers, addresses *)
(* and bodies, and any cap.                                                 *)
EXTENDS Addresses, FiniteSetTheorems, TLAPS

USE AddressConstants, NoneIsNoRow

(* What a validated request is.                                             *)
LEMMA RequestFacts ==
    ASSUME NEW r \in Requests
    PROVE  /\ r.takes \subseteq Kinds /\ r.drops \subseteq Kinds
           /\ r.method \in {"read", "profile", "create", "patch", "delete"}
           /\ r.target \in AddressIds \cup {None}
           /\ r.target \in AddressIds <=> r.method \in {"patch", "delete"}
  BY DEF Requests

(* What a connection is doing and has written, and what it sees.            *)
LEMMA SlotFacts ==
    ASSUME AddressTypeOK, NEW s \in Slots
    PROVE  /\ session[s] \in Sessions /\ profile[s] \in CustomerRows \cup {None}
           /\ draft[s] \in Drafts /\ DOMAIN draft[s] \subseteq AddressIds
           /\ \A a \in DOMAIN draft[s]: draft[s][a] \in Rows
           /\ Sees(s) \in [AddressIds -> Rows \cup {None}]
           /\ LiveOf(s) \subseteq AddressIds
           /\ \A a \in LiveOf(s): Sees(s)[a] \in Rows
  <1>1. session[s] \in Sessions /\ profile[s] \in CustomerRows \cup {None} /\ draft[s] \in Drafts
    BY DEF AddressTypeOK
  <1>2. PICK ids \in SUBSET AddressIds: draft[s] \in [ids -> Rows]
    BY <1>1 DEF Drafts
  <1>3. DOMAIN draft[s] \subseteq AddressIds /\ \A a \in DOMAIN draft[s]: draft[s][a] \in Rows
    BY <1>2
  <1>4. Sees(s) \in [AddressIds -> Rows \cup {None}]
    BY <1>3 DEF Sees, AddressTypeOK
  <1> QED
    BY <1>1, <1>3, <1>4 DEF LiveOf, Book

LEMMA AddressInit == Init => AddressInv
  <1> SUFFICES ASSUME Init PROVE AddressInv
    OBVIOUS
  <1>1. Idle \in Sessions /\ Idle.at = "idle"
    BY DEF Idle, Sessions
  <1>2. Nothing \in Drafts /\ DOMAIN Nothing = {}
    <2>1. Nothing \in [{} -> Rows] /\ {} \in SUBSET AddressIds
      BY DEF Nothing
    <2> QED
      BY <2>1 DEF Drafts
  <1>3. AddressTypeOK
    BY <1>1, <1>2 DEF Init, AddressTypeOK
  <1>4. ASSUME NEW o PROVE Orderly(addresses, o)
    <2>1. Book(addresses, o) = {}
      BY DEF Init, Book
    <2> QED
      BY <2>1, FS_EmptySet DEF Orderly
  <1>5. ASSUME NEW s \in Slots PROVE ~Held(s) /\ DraftOK(s) /\ ChecksHold(s)
    BY <1>1, <1>2 DEF Init, Held, DraftOK, ChecksHold
  <1> QED
    BY <1>3, <1>4, <1>5 DEF Init, AddressInv

(* A change of other customers' rows does not show in a book.               *)
LEMMA BookSame ==
    ASSUME NEW rows, NEW new, NEW o,
           \A a \in AddressIds:
               \/ new[a] = rows[a]
               \/ (rows[a] = None \/ rows[a].owner # o) /\ (new[a] = None \/ new[a].owner # o)
    PROVE  /\ Book(new, o) = Book(rows, o)
           /\ \A a \in Book(rows, o): new[a] = rows[a]
           /\ Orderly(rows, o) => Orderly(new, o)
  <1>1. Book(new, o) = Book(rows, o) /\ \A a \in Book(rows, o): new[a] = rows[a]
    BY DEF Book
  <1> QED
    BY <1>1 DEF Orderly

(* What a transaction has checked stays so while its customer's rows do.    *)
LEMMA ChecksStay ==
    ASSUME AddressInv, AddressTypeOK', NEW t \in Slots,
           UNCHANGED <<session[t], profile[t], draft[t]>>,
           Held(t) => customers'[Owner(t)] = customers[Owner(t)],
           Held(t) => \A a \in AddressIds \ DOMAIN draft[t]:
               \/ addresses'[a] = addresses[a]
               \/ /\ addresses[a] = None \/ addresses[a].owner # Owner(t)
                  /\ addresses'[a] = None \/ addresses'[a].owner # Owner(t),
           \A a \in DOMAIN draft[t]: addresses'[a] = addresses[a]
    PROVE  ChecksHold(t)'
  <1> DEFINE o == Owner(t)
             new == Sees(t)'
             old == Sees(t)
  <1>1. ChecksHold(t) /\ Request(t)' = Request(t) /\ Owner(t)' = o /\ Held(t)' = Held(t)
    BY DEF AddressInv, Request, Owner, Held
  <1>2. CASE ~Held(t)
    BY <1>1, <1>2 DEF ChecksHold, Held, Request, Owner
  <1>3. CASE Held(t)
    <2>1. \A a \in AddressIds:
              \/ new[a] = old[a]
              \/ (old[a] = None \/ old[a].owner # o) /\ (new[a] = None \/ new[a].owner # o)
      BY <1>3 DEF Sees
    <2>2. \A a \in AddressIds:
              \/ addresses'[a] = addresses[a]
              \/ /\ addresses[a] = None \/ addresses[a].owner # o
                 /\ addresses'[a] = None \/ addresses'[a].owner # o
      BY <1>3
    <2> HIDE DEF new, old, o
    <2>3. /\ Book(new, o) = Book(old, o) /\ \A a \in Book(old, o): new[a] = old[a]
          /\ Orderly(old, o) => Orderly(new, o)
      BY ONLY <2>1, BookSame
    <2>4. /\ Book(addresses', o) = Book(addresses, o)
          /\ \A a \in Book(addresses, o): addresses'[a] = addresses[a]
      BY ONLY <2>2, BookSame
    <2>5. Orderly(Sees(t), Owner(t))' = Orderly(new, o) /\ Book(Sees(t), Owner(t))' = Book(new, o)
          /\ Book(addresses, Owner(t))' = Book(addresses', o) /\ LiveOf(t) = Book(old, o)
          /\ LiveOf(t)' = Book(new, o)
      BY <1>1 DEF new, old, o, LiveOf
    <2> QED
      BY <1>1, <1>3, <2>3, <2>4, <2>5 DEF ChecksHold, Held, new, old, o
  <1> QED
    BY <1>2, <1>3

(* A statement of one transaction, before its end.                          *)
LEMMA SlotStep ==
    ASSUME AddressInv, NEW s \in Slots, AddressTypeOK', UNCHANGED <<customers, addresses>>,
           \A t \in Slots \ {s}: UNCHANGED <<session[t], profile[t], draft[t]>>,
           Held(s)' => \/ Held(s) /\ Owner(s)' = Owner(s)
                       \/ \A t \in Slots: ~HoldsCustomer(t, Owner(s)'),
           DraftOK(s)', ChecksHold(s)'
    PROVE  AddressInv'
  <1>1. \A a \in AddressIds: addresses'[a] # None =>
            /\ customers'[addresses'[a].owner] # None
            /\ ~addresses'[a].live => addresses'[a].defaults = {}
    BY DEF AddressInv
  <1>2. \A o \in Customers: Orderly(addresses, o)'
    BY DEF AddressInv, Orderly, Book
  <1>3. ASSUME NEW t \in Slots, NEW u \in Slots, Held(t)', Held(u)', Owner(t)' = Owner(u)'
        PROVE  t = u
    <2>1. \A q \in Slots \ {s}: (Held(q)' <=> Held(q)) /\ Owner(q)' = Owner(q)
      BY DEF Held, Owner
    <2>2. \A q \in Slots \ {s}: Held(s)' /\ Held(q) => Owner(q) # Owner(s)'
      BY DEF HoldsCustomer, Held, Owner, AddressInv
    <2> QED
      BY <1>3, <2>1, <2>2 DEF AddressInv
  <1>4. ASSUME NEW t \in Slots \ {s} PROVE DraftOK(t)' /\ ChecksHold(t)'
    <2>1. DraftOK(t)
      BY DEF AddressInv
    <2>2. draft'[t] = draft[t] /\ session'[t] = session[t]
      OBVIOUS
    <2>3. DOMAIN draft'[s] \cap DOMAIN draft'[t] = {}
      BY DEF DraftOK
    <2>4. DraftOK(t)'
      BY <2>1, <2>2, <2>3 DEF DraftOK, Owner
    <2>5. ChecksHold(t)'
      BY ChecksStay
    <2> QED
      BY <2>4, <2>5
  <1> QED
    BY <1>1, <1>2, <1>3, <1>4 DEF AddressInv

(* A statement before the first write: only the session and the profile of  *)
(* one connection move.                                                     *)
LEMMA PlainStep ==
    ASSUME AddressInv, NEW s \in Slots, NEW new \in Sessions, NEW row \in CustomerRows \cup {None},
           session' = [session EXCEPT ![s] = new], profile' = [profile EXCEPT ![s] = row],
           customers' = customers, addresses' = addresses, draft' = draft,
           DOMAIN draft[s] = {}
    PROVE  /\ AddressTypeOK' /\ session'[s] = new /\ profile'[s] = row
           /\ \A t \in Slots \ {s}: UNCHANGED <<session[t], profile[t], draft[t]>>
           /\ Sees(s)' = Sees(s) /\ DraftOK(s)'
  <1>1. AddressTypeOK'
    BY DEF AddressInv, AddressTypeOK
  <1>2. /\ session'[s] = new /\ profile'[s] = row
        /\ \A t \in Slots \ {s}: UNCHANGED <<session[t], profile[t], draft[t]>>
    BY DEF AddressInv, AddressTypeOK
  <1>3. Sees(s)' = Sees(s)
    BY DEF Sees
  <1>4. DraftOK(s)
    BY DEF AddressInv
  <1>5. DraftOK(s)'
    BY <1>4 DEF DraftOK
  <1> QED
    BY <1>1, <1>2, <1>3, <1>5

(* The beginning of a request: nothing is held yet.                         *)
LEMMA BeginKeeps ==
    ASSUME AddressInv, NEW s \in Slots, NEW o \in Customers, NEW r \in Requests, Begin(s, o, r)
    PROVE  AddressInv'
  <1> DEFINE new == [at |-> "begun", owner |-> o, request |-> r, left |-> r.takes]
  <1>1. new \in Sessions /\ new.at = "begun" /\ new.owner = o /\ new.request = r /\ new.left = r.takes
    BY RequestFacts DEF Sessions
  <1>2. /\ session[s] = Idle /\ session' = [session EXCEPT ![s] = new]
        /\ customers' = customers /\ addresses' = addresses /\ draft' = draft
    BY DEF Begin
  <1> HIDE DEF new
  <1>3. profile' = [profile EXCEPT ![s] = profile[s]] /\ profile[s] \in CustomerRows \cup {None}
    BY DEF Begin, AddressInv, AddressTypeOK
  <1>4. DOMAIN draft[s] = {}
    BY <1>2 DEF AddressInv, DraftOK, Idle
  <1>5. /\ AddressTypeOK' /\ session'[s] = new /\ DraftOK(s)'
        /\ \A t \in Slots \ {s}: UNCHANGED <<session[t], profile[t], draft[t]>>
    BY <1>1, <1>2, <1>3, <1>4, PlainStep
  <1>6. ChecksHold(s)' /\ ~Held(s)'
    BY <1>1, <1>5 DEF ChecksHold, Held, Request, Owner
  <1> QED
    BY <1>2, <1>5, <1>6, SlotStep

(* The lock of the customer row.                                            *)
LEMMA TakeKeeps ==
    ASSUME AddressInv, NEW s \in Slots, TakeCustomer(s)
    PROVE  AddressInv'
  <1> DEFINE new == [session[s] EXCEPT !.at = "locked"]
             row == RowOf(Owner(s))
  <1>1. /\ session[s].at = "begun" /\ \A t \in Slots: ~HoldsCustomer(t, Owner(s))
        /\ row.status = "active" /\ profile' = [profile EXCEPT ![s] = row]
        /\ session' = [session EXCEPT ![s] = new] /\ customers' = customers /\ addresses' = addresses /\ draft' = draft
    BY DEF TakeCustomer, Move
  <1>2. /\ new \in Sessions /\ new.at = "locked" /\ new.owner = session[s].owner
        /\ new.request = session[s].request /\ new.left = session[s].left
    BY SlotFacts DEF AddressInv, Sessions
  <1>3. /\ Owner(s) \in Customers /\ Request(s) \in Requests /\ DOMAIN draft[s] = {}
        /\ session[s].left = Request(s).takes
    BY <1>1 DEF AddressInv, ChecksHold, DraftOK
  <1>4. row \in CustomerRows /\ (customers[Owner(s)] # None => customers[Owner(s)].status = "active")
    <2>1. customers[Owner(s)] \in CustomerRows \cup {None}
      BY <1>3 DEF AddressInv, AddressTypeOK
    <2>2. CASE customers[Owner(s)] = None
      <3>1. 1 \in 1..MaxVersion
        OBVIOUS
      <3> QED
        BY <2>2, <3>1 DEF RowOf, CustomerRows
    <2>3. CASE customers[Owner(s)] # None
      BY <1>1, <2>1, <2>3 DEF RowOf
    <2> QED
      BY <2>2, <2>3
  <1> HIDE DEF new, row
  <1>5. /\ AddressTypeOK' /\ session'[s] = new /\ profile'[s] = row /\ DraftOK(s)'
        /\ \A t \in Slots \ {s}: UNCHANGED <<session[t], profile[t], draft[t]>>
    BY <1>1, <1>2, <1>3, <1>4, PlainStep
  <1>6. Owner(s)' = Owner(s) /\ Request(s)' = Request(s)
    BY <1>2, <1>5 DEF Owner, Request
  <1>7. ChecksHold(s)'
    BY <1>1, <1>2, <1>3, <1>4, <1>5, <1>6 DEF ChecksHold, Held
  <1> QED
    BY <1>1, <1>5, <1>6, <1>7, SlotStep

(* A read, and an edit of the profile, which is a later version of the row. *)
LEMMA ProfileKeeps ==
    ASSUME AddressInv, NEW s \in Slots, Read(s) \/ EditProfile(s)
    PROVE  AddressInv'
  <1> DEFINE new == [session[s] EXCEPT !.at = "wrote"]
             row == IF Request(s).method = "read" THEN profile[s]
                    ELSE [profile[s] EXCEPT !.version = @ + 1]
  <1>1. /\ session[s].at = "locked" /\ Request(s).method \in {"read", "profile"}
        /\ session' = [session EXCEPT ![s] = new] /\ customers' = customers /\ addresses' = addresses /\ draft' = draft
    BY DEF Read, EditProfile, Move
  <1>2. /\ new \in Sessions /\ new.at = "wrote" /\ new.owner = session[s].owner
        /\ new.request = session[s].request
    BY SlotFacts DEF AddressInv, Sessions
  <1>3. /\ Owner(s) \in Customers /\ Request(s) \in Requests /\ DOMAIN draft[s] = {} /\ Held(s)
        /\ profile[s] \in CustomerRows /\ profile[s].status = "active"
        /\ customers[Owner(s)] # None => customers[Owner(s)].status = "active"
    BY <1>1, SlotFacts DEF AddressInv, ChecksHold, DraftOK, Held
  <1>4. row \in CustomerRows /\ row.status = "active" /\ profile' = [profile EXCEPT ![s] = row]
    <2>1. CASE Read(s)
      BY <1>3, <2>1 DEF Read, AddressInv, AddressTypeOK
    <2>2. CASE EditProfile(s)
      BY <1>3, <2>2 DEF EditProfile, CustomerRows
    <2> QED
      BY <2>1, <2>2
  <1> HIDE DEF new, row
  <1>5. /\ AddressTypeOK' /\ session'[s] = new /\ profile'[s] = row /\ DraftOK(s)'
        /\ Sees(s)' = Sees(s)
        /\ \A t \in Slots \ {s}: UNCHANGED <<session[t], profile[t], draft[t]>>
    BY <1>1, <1>2, <1>3, <1>4, PlainStep, ZenonT(60)
  <1>6. Owner(s)' = Owner(s) /\ Request(s)' = Request(s)
    BY <1>2, <1>5 DEF Owner, Request
  <1>7. Orderly(Sees(s), Owner(s))'
    <2>1. Sees(s) = addresses
      BY <1>3 DEF Sees, AddressInv, AddressTypeOK
    <2>2. Orderly(addresses, Owner(s))
      BY <1>3 DEF AddressInv
    <2> QED
      BY <1>5, <1>6, <2>1, <2>2 DEF Orderly, Book
  <1>8. ChecksHold(s)'
    BY <1>1, <1>2, <1>3, <1>4, <1>5, <1>6, <1>7 DEF ChecksHold, Held
  <1> QED
    BY <1>1, <1>3, <1>5, <1>6, <1>8, SlotStep

(* The target is one of the customer's live addresses, or there is room.    *)
LEMMA CheckKeeps ==
    ASSUME AddressInv, NEW s \in Slots, CheckTarget(s) \/ CheckCap(s)
    PROVE  AddressInv'
  <1> DEFINE new == [session[s] EXCEPT !.at = "checked"]
             target == Request(s).target
  <1>1. /\ session[s].at = "locked"
        /\ session' = [session EXCEPT ![s] = new] /\ customers' = customers /\ addresses' = addresses /\ draft' = draft
    BY DEF CheckTarget, CheckCap, Move
  <1>2. /\ new \in Sessions /\ new.at = "checked" /\ new.owner = session[s].owner
        /\ new.request = session[s].request /\ new.left = session[s].left
    BY SlotFacts DEF AddressInv, Sessions
  <1>3. /\ Owner(s) \in Customers /\ Request(s) \in Requests /\ DOMAIN draft[s] = {} /\ Held(s)
        /\ profile[s] \in CustomerRows /\ profile[s].status = "active"
        /\ customers[Owner(s)] # None => customers[Owner(s)].status = "active"
    BY <1>1, SlotFacts DEF AddressInv, ChecksHold, DraftOK, Held
  <1>4. Sees(s) = addresses
    BY <1>3 DEF Sees, AddressInv, AddressTypeOK
  <1>5. /\ Request(s).method \in {"create", "patch", "delete"}
        /\ Request(s).method = "create" => Cardinality(LiveOf(s)) < MaxLive
        /\ Request(s).method \in {"patch", "delete"} =>
              target \in LiveOf(s) /\ addresses[target].version = Request(s).expected
    <2>1. CASE CheckTarget(s)
      <3>1. target \in LiveOf(s) /\ addresses[target].version = Request(s).expected
        BY <2>1 DEF CheckTarget
      <3>2. target \in AddressIds
        BY <3>1 DEF LiveOf, Book
      <3> QED
        BY <1>3, <3>1, <3>2, RequestFacts
    <2>2. CASE CheckCap(s)
      BY <2>2 DEF CheckCap
    <2> QED
      BY <2>1, <2>2
  <1>6. Orderly(addresses, Owner(s))
    BY <1>3 DEF AddressInv
  <1>7. session[s].left = Request(s).takes
    BY <1>1 DEF AddressInv, ChecksHold
  <1> HIDE DEF new
  <1>8. profile' = [profile EXCEPT ![s] = profile[s]] /\ profile[s] \in CustomerRows \cup {None}
    BY DEF CheckTarget, CheckCap, AddressInv, AddressTypeOK
  <1>9. /\ AddressTypeOK' /\ session'[s] = new /\ profile'[s] = profile[s] /\ DraftOK(s)'
        /\ Sees(s)' = Sees(s)
        /\ \A t \in Slots \ {s}: UNCHANGED <<session[t], profile[t], draft[t]>>
    BY <1>1, <1>2, <1>3, <1>8, PlainStep
  <1>10. Owner(s)' = Owner(s) /\ Request(s)' = Request(s) /\ LiveOf(s)' = LiveOf(s)
    BY <1>2, <1>9 DEF Owner, Request, LiveOf, Book
  <1>11. Orderly(Sees(s), Owner(s))' /\ LiveOf(s) = Book(addresses, Owner(s))
         /\ Book(addresses, Owner(s))' = Book(addresses, Owner(s))
    BY <1>1, <1>4, <1>6, <1>9, <1>10 DEF Orderly, Book, LiveOf
  <1>12. ChecksHold(s)'
    BY <1>1, <1>2, <1>3, <1>5, <1>7, <1>9, <1>10, <1>11 DEF ChecksHold, Held
  <1> QED
    BY <1>1, <1>3, <1>9, <1>10, <1>12, SlotStep

(* Nobody else writes a row that a transaction sees as its customer's, and  *)
(* what it sees is at least as late as what is committed.                   *)
LEMMA Mine ==
    ASSUME AddressInv, NEW s \in Slots, Held(s), NEW a \in LiveOf(s)
    PROVE  /\ a \in AddressIds /\ Sees(s)[a] \in Rows /\ Sees(s)[a].owner = Owner(s) /\ Sees(s)[a].live
           /\ \A t \in Slots \ {s}: a \notin DOMAIN draft[t]
           /\ addresses[a] # None =>
                addresses[a].owner = Owner(s) /\ addresses[a].live
                /\ Sees(s)[a].version >= addresses[a].version
  <1>1. a \in AddressIds /\ Sees(s)[a] \in Rows /\ Sees(s)[a].owner = Owner(s) /\ Sees(s)[a].live
    BY SlotFacts DEF AddressInv, LiveOf, Book
  <1>2. DraftOK(s) /\ addresses[a] \in Rows \cup {None}
    BY <1>1 DEF AddressInv, AddressTypeOK
  <1>3. CASE a \in DOMAIN draft[s]
    <2>1. Sees(s)[a] = draft[s][a] /\ draft[s][a].version \in Int
      BY <1>1, <1>3 DEF Sees, Rows
    <2>2. \A t \in Slots \ {s}: a \notin DOMAIN draft[t]
      BY <1>2, <1>3 DEF DraftOK
    <2>3. addresses[a] # None =>
            /\ addresses[a].owner = Owner(s) /\ addresses[a].live
            /\ draft[s][a].version > addresses[a].version /\ addresses[a].version \in Int
      BY <1>2, <1>3 DEF DraftOK, Rows
    <2> QED
      BY <1>1, <2>1, <2>2, <2>3
  <1>4. CASE a \notin DOMAIN draft[s]
    <2>1. Sees(s)[a] = addresses[a] /\ addresses[a] # None
      BY <1>1, <1>4 DEF Sees
    <2>2. ASSUME NEW t \in Slots \ {s}, a \in DOMAIN draft[t] PROVE FALSE
      <3>1. DraftOK(t) /\ Owner(t) = Owner(s)
        BY <1>1, <2>1, <2>2 DEF AddressInv, DraftOK
      <3>2. Held(t)
        BY <2>2, <3>1, SlotFacts DEF AddressInv, DraftOK, Held, Sessions
      <3> QED
        BY <3>1, <3>2 DEF AddressInv
    <2>3. Sees(s)[a].version >= addresses[a].version
      BY <1>1, <2>1 DEF Rows
    <2> QED
      BY <1>1, <2>1, <2>2, <2>3
  <1> QED
    BY <1>3, <1>4

(* Fewer addresses with fewer defaults are in order too.                    *)
LEMMA OrderlyShrinks ==
    ASSUME NEW rows, NEW new, NEW o, Orderly(rows, o), Book(new, o) \subseteq Book(rows, o),
           \A a \in Book(new, o): new[a].defaults \subseteq rows[a].defaults
    PROVE  Orderly(new, o)
  <1> DEFINE B == Book(rows, o)
             C == Book(new, o)
  <1>1. IsFiniteSet(B) /\ Cardinality(B) <= MaxLive /\ C \subseteq B
    BY DEF Orderly
  <1>2. IsFiniteSet(C) /\ Cardinality(C) <= Cardinality(B) /\ Cardinality(B) \in Nat /\ Cardinality(C) \in Nat
    BY <1>1, FS_Subset, FS_CardinalityType
  <1>3. Cardinality(C) <= MaxLive
    BY <1>1, <1>2
  <1>4. \A k \in Kinds: \A a, b \in C: k \in new[a].defaults \cap new[b].defaults => a = b
    BY DEF Orderly
  <1> QED
    BY <1>2, <1>3, <1>4 DEF Orderly

(* A transaction that writes its own customer's rows, or new ones.          *)
LEMMA WriteStep ==
    ASSUME AddressInv, NEW s \in Slots, addresses' = addresses, Owner(s)' = Owner(s),
           session'[s].at \in {"checked", "wrote"},
           \A t \in Slots \ {s}: draft'[t] = draft[t],
           \A a \in DOMAIN draft'[s]:
              \/ a \in DOMAIN draft[s] /\ draft'[s][a] = draft[s][a]
              \/ /\ \A t \in Slots \ {s}: a \notin DOMAIN draft[t]
                 /\ draft'[s][a].owner = Owner(s) /\ (~draft'[s][a].live => draft'[s][a].defaults = {})
                 /\ addresses[a] # None =>
                       /\ addresses[a].owner = Owner(s) /\ addresses[a].live
                       /\ draft'[s][a].version > addresses[a].version
    PROVE  DraftOK(s)'
  <1>1. DraftOK(s)
    BY DEF AddressInv
  <1>2. \A t \in Slots \ {s}: DOMAIN draft'[s] \cap DOMAIN draft'[t] = {}
    BY <1>1 DEF DraftOK
  <1>3. \A a \in DOMAIN draft'[s]:
          /\ draft'[s][a].owner = Owner(s)
          /\ ~draft'[s][a].live => draft'[s][a].defaults = {}
          /\ addresses[a] # None =>
              addresses[a].owner = Owner(s) /\ addresses[a].live /\ draft'[s][a].version > addresses[a].version
    BY <1>1 DEF DraftOK
  <1> QED
    BY <1>2, <1>3 DEF DraftOK

(* One UPDATE per default: the customer's other addresses let it go.        *)
LEMMA ReleaseKeeps ==
    ASSUME AddressInv, NEW s \in Slots, Release(s)
    PROVE  AddressInv'
  <1> DEFINE kind == IF "shipping" \in session[s].left THEN "shipping" ELSE "billing"
             target == Request(s).target
             others == {a \in LiveOf(s) \ {target}: kind \in Sees(s)[a].defaults}
             rows == [a \in others |-> Released(Sees(s)[a], kind)]
             written == [a \in DOMAIN draft[s] \cup others |->
                            IF a \in others THEN rows[a] ELSE draft[s][a]]
             new == [session[s] EXCEPT !.left = @ \ {kind}]
  <1>1. /\ session[s].at = "checked" /\ kind \in Kinds
        /\ \A a \in others: Sees(s)[a].version < MaxVersion
        /\ draft' = [draft EXCEPT ![s] = written]
        /\ session' = [session EXCEPT ![s] = new]
        /\ profile' = profile /\ customers' = customers /\ addresses' = addresses
    BY DEF Release, Writing, Kinds
  <1>2. /\ new \in Sessions /\ new.at = "checked" /\ new.owner = Owner(s)
        /\ new.request = Request(s) /\ new.left = session[s].left \ {kind}
    BY <1>1, SlotFacts DEF AddressInv, Sessions, Owner, Request
  <1>3. Held(s) /\ ChecksHold(s)
    BY <1>1 DEF Held, AddressInv
  <1>4. others \in SUBSET AddressIds /\ \A a \in others: a \in LiveOf(s) /\ a # target
    BY SlotFacts DEF AddressInv
  <1>5. \A a \in others:
          /\ Sees(s)[a] \in Rows /\ Sees(s)[a].owner = Owner(s) /\ Sees(s)[a].live
          /\ \A t \in Slots \ {s}: a \notin DOMAIN draft[t]
          /\ addresses[a] # None =>
               /\ addresses[a] \in Rows /\ addresses[a].owner = Owner(s) /\ addresses[a].live
               /\ Sees(s)[a].version >= addresses[a].version
    BY <1>3, <1>4, Mine DEF AddressInv, AddressTypeOK
  <1> HIDE DEF kind, others, new, target
  <1>6. \A a \in others:
          /\ rows[a] \in Rows /\ rows[a].owner = Sees(s)[a].owner /\ rows[a].live = Sees(s)[a].live
          /\ rows[a].defaults = Sees(s)[a].defaults \ {kind} /\ rows[a].version = Sees(s)[a].version + 1
    <2> SUFFICES ASSUME NEW a \in others
                 PROVE  /\ rows[a] \in Rows /\ rows[a].owner = Sees(s)[a].owner
                        /\ rows[a].live = Sees(s)[a].live
                        /\ rows[a].defaults = Sees(s)[a].defaults \ {kind}
                        /\ rows[a].version = Sees(s)[a].version + 1
      OBVIOUS
    <2> DEFINE row == Sees(s)[a]
    <2>1. row \in Rows /\ row.version < MaxVersion
      BY <1>1, <1>5
    <2>2. rows[a] = [row EXCEPT !.defaults = @ \ {kind}, !.version = @ + 1]
      BY DEF Released
    <2> HIDE DEF row
    <2>3. row.version + 1 \in 1..MaxVersion
      BY <2>1 DEF Rows
    <2>4. row.defaults \ {kind} \in SUBSET Kinds
      BY <2>1 DEF Rows
    <2> HIDE DEF rows
    <2>5. /\ rows[a] \in Rows /\ rows[a].owner = row.owner /\ rows[a].live = row.live
          /\ rows[a].defaults = row.defaults \ {kind} /\ rows[a].version = row.version + 1
      BY <2>1, <2>2, <2>3, <2>4 DEF Rows
    <2> QED
      BY <2>5 DEF row
  <1>7. /\ written \in Drafts /\ DOMAIN written = DOMAIN draft[s] \cup others
        /\ \A a \in DOMAIN draft[s] \ others: written[a] = draft[s][a]
        /\ \A a \in others: written[a] = rows[a]
    <2> HIDE DEF rows
    <2>1. DOMAIN draft[s] \cup others \in SUBSET AddressIds
      BY <1>4, SlotFacts DEF AddressInv
    <2>2. written \in [DOMAIN draft[s] \cup others -> Rows]
      BY <1>6, SlotFacts DEF AddressInv
    <2> QED
      BY <2>1, <2>2 DEF Drafts
  <1> HIDE DEF rows, written
  <1>8. /\ AddressTypeOK' /\ session'[s] = new /\ draft'[s] = written
        /\ \A t \in Slots \ {s}: UNCHANGED <<session[t], profile[t], draft[t]>>
    BY <1>1, <1>2, <1>7 DEF AddressInv, AddressTypeOK
  <1>9. Owner(s)' = Owner(s) /\ Request(s)' = Request(s)
    BY <1>2, <1>8 DEF Owner, Request
  <1>10. DraftOK(s)'
    <2>1. \A a \in others:
              /\ written[a].owner = Owner(s) /\ (~written[a].live => written[a].defaults = {})
              /\ addresses[a] # None =>
                    addresses[a].owner = Owner(s) /\ addresses[a].live /\ written[a].version > addresses[a].version
      BY <1>5, <1>6, <1>7 DEF Rows
    <2> QED
      BY <1>1, <1>2, <1>5, <1>7, <1>8, <1>9, <2>1, WriteStep
  <1> DEFINE seen == Sees(s)'
  <1>11. \A a \in AddressIds: seen[a] = IF a \in others THEN rows[a] ELSE Sees(s)[a]
    BY <1>1, <1>7, <1>8 DEF Sees
  <1> HIDE DEF seen
  <1>12. Book(seen, Owner(s)) = LiveOf(s)
    BY <1>4, <1>5, <1>6, <1>11, NoneIsNoRow DEF Book, LiveOf
  <1>13. \A a \in LiveOf(s): seen[a].defaults \subseteq Sees(s)[a].defaults
    BY <1>6, <1>11, SlotFacts DEF AddressInv
  <1>14. Orderly(Sees(s), Owner(s))
    BY <1>1, <1>3 DEF ChecksHold
  <1>15. Orderly(seen, Owner(s))
    BY <1>12, <1>13, <1>14, OrderlyShrinks DEF LiveOf
  <1>16. LiveOf(s)' = LiveOf(s) /\ Orderly(Sees(s), Owner(s))'
    BY <1>9, <1>12, <1>15 DEF LiveOf, seen, Orderly, Book
  <1>17. \A k \in Request(s).takes \ new.left: \A a \in LiveOf(s) \ {target}: k \notin seen[a].defaults
    <2> SUFFICES ASSUME NEW k \in Request(s).takes \ new.left, NEW a \in LiveOf(s) \ {target}
                 PROVE  k \notin seen[a].defaults
      OBVIOUS
    <2>1. a \in AddressIds
      BY SlotFacts DEF AddressInv
    <2>2. CASE a \in others
      <3>1. k = kind \/ k \notin Sees(s)[a].defaults
        BY <1>1, <1>2, <1>3 DEF ChecksHold, target
      <3> QED
        BY <1>6, <1>11, <2>1, <2>2, <3>1
    <2>3. CASE a \notin others
      <3>1. kind \notin Sees(s)[a].defaults
        BY <2>3 DEF others
      <3>2. k = kind \/ k \notin Sees(s)[a].defaults
        BY <1>1, <1>2, <1>3 DEF ChecksHold, target
      <3> QED
        BY <1>11, <2>1, <2>3, <3>1, <3>2
    <2> QED
      BY <2>2, <2>3
  <1>18. Book(addresses, Owner(s))' = Book(addresses, Owner(s))
    BY <1>1, <1>9 DEF Book
  <1>19. ChecksHold(s)'
    BY <1>1, <1>2, <1>3, <1>4, <1>7, <1>8, <1>9, <1>16, <1>17, <1>18 DEF ChecksHold, Held, seen, target
  <1> QED
    BY <1>1, <1>3, <1>8, <1>9, <1>10, <1>19, SlotStep

(* The row itself: a new one, or a later version of the target.             *)
LEMMA RowKeeps ==
    ASSUME AddressInv, NEW s \in Slots, NEW a \in AddressIds,
           Create(s, a) \/ (Change(s) /\ a = Request(s).target)
    PROVE  AddressInv'
  <1> DEFINE r == Request(s)
             row == IF r.method = "create"
                    THEN [owner |-> Owner(s), live |-> TRUE, version |-> 1, defaults |-> r.takes]
                    ELSE Changed(Sees(s)[a], r)
             written == [b \in DOMAIN draft[s] \cup {a} |-> IF b \in {a} THEN row ELSE draft[s][b]]
             new == [session[s] EXCEPT !.at = "wrote"]
  <1>1. /\ session[s].at = "checked" /\ session[s].left = {}
        /\ draft' = [draft EXCEPT ![s] = written]
        /\ session' = [session EXCEPT ![s] = new]
        /\ profile' = profile /\ customers' = customers /\ addresses' = addresses
    <2>1. CASE Create(s, a)
      BY <2>1 DEF Create, Writing, Ready, Move
    <2>2. CASE Change(s) /\ a = Request(s).target
      BY <2>2 DEF Change, Writing, Ready, Move
    <2> QED
      BY <2>1, <2>2
  <1>2. /\ new \in Sessions /\ new.at = "wrote" /\ new.owner = Owner(s) /\ new.request = r
    BY SlotFacts DEF AddressInv, Sessions, Owner, Request
  <1>3. /\ Held(s) /\ ChecksHold(s) /\ r \in Requests /\ Owner(s) \in Customers
        /\ Orderly(Sees(s), Owner(s))
    BY <1>1 DEF Held, AddressInv, ChecksHold
  <1>4. /\ r.method = "create" =>
             /\ addresses[a] = None /\ \A t \in Slots: a \notin DOMAIN draft[t]
             /\ r.target = None /\ a \notin LiveOf(s)
        /\ r.method # "create" =>
             /\ r.method \in {"patch", "delete"} /\ a = r.target /\ a \in LiveOf(s)
             /\ Sees(s)[a] = addresses[a] /\ Sees(s)[a].version < MaxVersion
    <2>1. CASE Create(s, a)
      <3>1. /\ r.method = "create" /\ addresses[a] = None /\ \A t \in Slots: a \notin DOMAIN draft[t]
        BY <2>1 DEF Create
      <3>2. r.target = None
        BY <1>3, <3>1, RequestFacts
      <3> QED
        BY <3>1, <3>2 DEF LiveOf, Book, Sees
    <2>2. CASE Change(s) /\ a = Request(s).target
      <3>1. r.method \in {"patch", "delete"} /\ a = r.target /\ Sees(s)[a].version < MaxVersion
        BY <2>2 DEF Change
      <3>2. a \in Book(addresses, Owner(s)) /\ a \notin DOMAIN draft[s]
        BY <1>1, <1>3, <3>1 DEF ChecksHold
      <3>3. Sees(s)[a] = addresses[a]
        BY <3>2 DEF Sees
      <3> QED
        BY <3>1, <3>2, <3>3 DEF LiveOf, Book
    <2> QED
      BY <2>1, <2>2
  <1>5. r.method # "create" =>
          /\ Sees(s)[a] \in Rows /\ Sees(s)[a].owner = Owner(s) /\ Sees(s)[a].live
          /\ \A t \in Slots \ {s}: a \notin DOMAIN draft[t]
    BY <1>3, <1>4, Mine
  <1> HIDE DEF r, new
  <1>6. /\ row \in Rows /\ row.owner = Owner(s) /\ (~row.live => row.defaults = {})
        /\ row.live = (r.method # "delete")
        /\ addresses[a] # None =>
              addresses[a].owner = Owner(s) /\ addresses[a].live /\ row.version > addresses[a].version
        /\ \A k \in row.defaults: k \in r.takes \/ (r.method # "create" /\ k \in Sees(s)[a].defaults)
    <2>1. CASE r.method = "create"
      <3>1. row = [owner |-> Owner(s), live |-> TRUE, version |-> 1, defaults |-> r.takes]
        BY <2>1
      <3>2. r.takes \in SUBSET Kinds /\ 1 \in 1..MaxVersion
        BY <1>3, RequestFacts
      <3> HIDE DEF row
      <3>3. row \in Rows /\ row.owner = Owner(s) /\ row.live = TRUE /\ row.defaults = r.takes
        BY <1>3, <3>1, <3>2 DEF Rows
      <3>4. row.live = (r.method # "delete")
        BY <2>1, <3>3
      <3> QED
        BY <1>4, <2>1, <3>3, <3>4
    <2>2. CASE r.method = "patch"
      <3> DEFINE old == Sees(s)[a]
      <3>1. row = [old EXCEPT !.version = @ + 1, !.defaults = (@ \cup r.takes) \ r.drops]
        BY <2>2 DEF Changed
      <3>2. old \in Rows /\ old = addresses[a] /\ old.version < MaxVersion /\ old.live /\ old.owner = Owner(s)
        BY <1>4, <1>5, <2>2
      <3> HIDE DEF old, row
      <3>3. old.version + 1 \in 1..MaxVersion /\ old.version + 1 > old.version
        BY <3>2 DEF Rows
      <3>4. (old.defaults \cup r.takes) \ r.drops \in SUBSET Kinds
        BY <1>3, <3>2, RequestFacts DEF Rows
      <3>5. row \in Rows /\ row.version = old.version + 1 /\ row.owner = old.owner /\ row.live = old.live
            /\ row.defaults = (old.defaults \cup r.takes) \ r.drops
        BY <3>1, <3>2, <3>3, <3>4 DEF Rows
      <3>6. row.live /\ row.owner = Owner(s)
        BY <3>2, <3>5
      <3>7. row.version > addresses[a].version /\ addresses[a].owner = Owner(s) /\ addresses[a].live
        BY <3>2, <3>3, <3>5
      <3>8. \A k \in row.defaults: k \in r.takes \/ k \in Sees(s)[a].defaults
        BY <3>5 DEF old
      <3>9. row.live = (r.method # "delete")
        BY <2>2, <3>2, <3>5 DEF Rows
      <3> QED
        BY <2>2, <3>5, <3>6, <3>7, <3>8, <3>9
    <2>3. CASE r.method = "delete"
      <3> DEFINE old == Sees(s)[a]
      <3>1. row = [old EXCEPT !.live = FALSE, !.version = @ + 1, !.defaults = {}]
        BY <2>3 DEF Changed
      <3>2. old \in Rows /\ old = addresses[a] /\ old.version < MaxVersion /\ old.live /\ old.owner = Owner(s)
        BY <1>4, <1>5, <2>3
      <3> HIDE DEF old, row
      <3>3. old.version + 1 \in 1..MaxVersion /\ old.version + 1 > old.version
        BY <3>2 DEF Rows
      <3>4. row \in Rows /\ row.version = old.version + 1 /\ row.owner = old.owner /\ row.live = FALSE
            /\ row.defaults = {}
        BY <3>1, <3>2, <3>3 DEF Rows
      <3>5. row.version > addresses[a].version /\ addresses[a].owner = Owner(s) /\ addresses[a].live
        BY <3>2, <3>3, <3>4
      <3>6. row.live = (r.method # "delete")
        BY <2>3, <3>4
      <3>7. row.owner = Owner(s)
        BY <3>2, <3>4
      <3> QED
        BY <2>3, <3>4, <3>5, <3>6, <3>7
    <2> QED
      BY <1>4, <2>1, <2>2, <2>3
  <1> HIDE DEF row
  <1>7. /\ written \in Drafts /\ DOMAIN written = DOMAIN draft[s] \cup {a}
        /\ \A b \in DOMAIN draft[s] \ {a}: written[b] = draft[s][b]
        /\ written[a] = row
    <2>1. DOMAIN draft[s] \cup {a} \in SUBSET AddressIds
      BY SlotFacts DEF AddressInv
    <2>2. written \in [DOMAIN draft[s] \cup {a} -> Rows]
      BY <1>6, SlotFacts DEF AddressInv
    <2> QED
      BY <2>1, <2>2 DEF Drafts
  <1> HIDE DEF written
  <1>8. /\ AddressTypeOK' /\ session'[s] = new /\ draft'[s] = written
        /\ \A t \in Slots \ {s}: UNCHANGED <<session[t], profile[t], draft[t]>>
    BY <1>1, <1>2, <1>7 DEF AddressInv, AddressTypeOK
  <1>9. Owner(s)' = Owner(s) /\ Request(s)' = r
    BY <1>2, <1>8 DEF Owner, Request
  <1>10. DraftOK(s)'
    BY <1>1, <1>2, <1>4, <1>5, <1>6, <1>7, <1>8, <1>9, WriteStep
  <1> DEFINE seen == Sees(s)'
  <1>11. \A b \in AddressIds: seen[b] = IF b = a THEN row ELSE Sees(s)[b]
    BY <1>1, <1>7, <1>8 DEF Sees
  <1> HIDE DEF seen
  <1>12. Book(seen, Owner(s)) = IF r.method = "delete" THEN LiveOf(s) \ {a} ELSE LiveOf(s) \cup {a}
    <2>1. \A b \in AddressIds \ {a}: b \in Book(seen, Owner(s)) <=> b \in LiveOf(s)
      BY <1>11 DEF Book, LiveOf
    <2>2. a \in Book(seen, Owner(s)) <=> r.method # "delete"
      BY <1>6, <1>11, NoneIsNoRow DEF Book
    <2>3. Book(seen, Owner(s)) \subseteq AddressIds /\ LiveOf(s) \subseteq AddressIds
      BY DEF Book, LiveOf
    <2> QED
      BY <2>1, <2>2, <2>3
  <1>13. IsFiniteSet(Book(seen, Owner(s))) /\ Cardinality(Book(seen, Owner(s))) <= MaxLive
    <2>1. /\ IsFiniteSet(LiveOf(s)) /\ Cardinality(LiveOf(s)) <= MaxLive /\ Cardinality(LiveOf(s)) \in Nat
      BY <1>3, FS_CardinalityType DEF Orderly, LiveOf
    <2>2. CASE r.method = "create"
      <3>1. Cardinality(LiveOf(s)) < MaxLive
        BY <1>1, <1>3, <2>2 DEF ChecksHold, r
      <3>2. /\ IsFiniteSet(LiveOf(s) \cup {a})
            /\ Cardinality(LiveOf(s) \cup {a}) = Cardinality(LiveOf(s)) + 1
        BY <1>4, <2>1, <2>2, FS_AddElement
      <3> QED
        BY <1>12, <2>1, <2>2, <3>1, <3>2
    <2>3. CASE r.method = "patch"
      <3>1. LiveOf(s) \cup {a} = LiveOf(s)
        BY <1>4, <2>3
      <3> QED
        BY <1>12, <2>1, <2>3, <3>1
    <2>4. CASE r.method = "delete"
      <3>1. LiveOf(s) \ {a} \subseteq LiveOf(s)
        OBVIOUS
      <3>2. /\ IsFiniteSet(LiveOf(s) \ {a}) /\ Cardinality(LiveOf(s) \ {a}) <= Cardinality(LiveOf(s))
            /\ Cardinality(LiveOf(s) \ {a}) \in Nat
        BY <2>1, <3>1, FS_Subset, FS_CardinalityType
      <3> QED
        BY <1>12, <2>1, <2>4, <3>2
    <2> QED
      BY <1>4, <2>2, <2>3, <2>4
  <1>14. \A k \in Kinds: \A b, c \in Book(seen, Owner(s)):
            k \in seen[b].defaults \cap seen[c].defaults => b = c
    <2>1. ASSUME NEW k \in Kinds, NEW c \in LiveOf(s) \ {a}, k \in row.defaults, k \in Sees(s)[c].defaults
          PROVE  FALSE
      <3>1. c \in AddressIds /\ c # r.target
        <4>1. c \in AddressIds
          BY DEF LiveOf, Book
        <4> QED
          BY <4>1, <1>4
      <3>2. k \notin r.takes
        BY <1>1, <1>3, <2>1, <3>1 DEF ChecksHold, r
      <3>3. r.method # "create" /\ k \in Sees(s)[a].defaults
        BY <1>6, <2>1, <3>2
      <3> QED
        BY <1>3, <1>4, <2>1, <3>3 DEF Orderly, LiveOf
    <2>2. ASSUME NEW k \in Kinds, NEW b \in Book(seen, Owner(s)), NEW c \in Book(seen, Owner(s)),
                 k \in seen[b].defaults \cap seen[c].defaults, b # c
          PROVE  FALSE
      <3>1. b \in AddressIds /\ c \in AddressIds
        BY DEF Book
      <3>2. (b # a => b \in LiveOf(s)) /\ (c # a => c \in LiveOf(s))
        BY <1>12
      <3>3. CASE b = a
        BY <1>11, <2>1, <2>2, <3>1, <3>2, <3>3
      <3>4. CASE c = a
        BY <1>11, <2>1, <2>2, <3>1, <3>2, <3>4
      <3>5. CASE b # a /\ c # a
        BY <1>3, <1>11, <2>2, <3>1, <3>2, <3>5 DEF Orderly, LiveOf
      <3> QED
        BY <3>3, <3>4, <3>5
    <2> QED
      BY <2>2
  <1>15. Orderly(Sees(s), Owner(s))'
    BY <1>9, <1>13, <1>14 DEF Orderly, Book, seen
  <1>16. Book(addresses, Owner(s))' = Book(addresses, Owner(s))
    BY <1>1, <1>9 DEF Book
  <1>17. ChecksHold(s)'
    BY <1>1, <1>2, <1>3, <1>8, <1>9, <1>15, <1>16 DEF ChecksHold, Held, r
  <1> QED
    BY <1>1, <1>3, <1>8, <1>9, <1>10, <1>17, SlotStep

(* The end of a transaction leaves its connection with nothing.             *)
LEMMA EndFacts ==
    ASSUME AddressTypeOK, NEW s \in Slots, End(s)
    PROVE  /\ session' \in [Slots -> Sessions] /\ profile' \in [Slots -> CustomerRows \cup {None}]
           /\ draft' \in [Slots -> Drafts]
           /\ \A t \in Slots \ {s}: UNCHANGED <<session[t], profile[t], draft[t]>>
           /\ ~Held(s)' /\ DraftOK(s)' /\ ChecksHold(s)' /\ session'[s].at = "idle"
  <1>1. Idle \in Sessions /\ Idle.at = "idle" /\ Nothing \in Drafts /\ DOMAIN Nothing = {}
    <2>1. Idle \in Sessions /\ Idle.at = "idle"
      BY DEF Idle, Sessions
    <2>2. Nothing \in [{} -> Rows] /\ {} \in SUBSET AddressIds
      BY DEF Nothing
    <2> QED
      BY <2>1, <2>2 DEF Drafts
  <1>2. /\ session' = [session EXCEPT ![s] = Idle] /\ profile' = [profile EXCEPT ![s] = None]
        /\ draft' = [draft EXCEPT ![s] = Nothing]
    BY DEF End
  <1>3. /\ session' \in [Slots -> Sessions] /\ profile' \in [Slots -> CustomerRows \cup {None}]
        /\ draft' \in [Slots -> Drafts]
        /\ \A t \in Slots \ {s}: UNCHANGED <<session[t], profile[t], draft[t]>>
        /\ session'[s] = Idle /\ draft'[s] = Nothing
    BY <1>1, <1>2 DEF AddressTypeOK
  <1>4. ~Held(s)' /\ ChecksHold(s)'
    BY <1>1, <1>3 DEF Held, ChecksHold
  <1>5. DraftOK(s)'
    BY <1>1, <1>3 DEF DraftOK
  <1> QED
    BY <1>1, <1>3, <1>4, <1>5

LEMMA RollbackKeeps ==
    ASSUME AddressInv, NEW s \in Slots, Rollback(s)
    PROVE  AddressInv'
  <1>1. AddressTypeOK /\ End(s) /\ UNCHANGED <<customers, addresses>>
    BY DEF Rollback, AddressInv
  <1>2. /\ \A t \in Slots \ {s}: UNCHANGED <<session[t], profile[t], draft[t]>>
        /\ ~Held(s)' /\ DraftOK(s)' /\ ChecksHold(s)'
    BY <1>1, EndFacts
  <1>3. AddressTypeOK'
    BY <1>1, EndFacts DEF AddressTypeOK
  <1> QED
    BY <1>1, <1>2, <1>3, SlotStep

(* COMMIT shows the rows of one transaction to everyone: to its own         *)
(* customer's next request, since no other of that customer is under way,   *)
(* and to nobody else.                                                      *)
LEMMA CommitKeeps ==
    ASSUME AddressInv, NEW s \in Slots, Commit(s)
    PROVE  AddressInv'
  <1> DEFINE o == Owner(s)
  <1>1. /\ AddressTypeOK /\ session[s].at = "wrote" /\ End(s) /\ addresses' = Sees(s)
        /\ customers' = [customers EXCEPT ![o] = profile[s]]
    BY DEF Commit, AddressInv
  <1>2. /\ session' \in [Slots -> Sessions] /\ profile' \in [Slots -> CustomerRows \cup {None}]
        /\ draft' \in [Slots -> Drafts]
        /\ \A t \in Slots \ {s}: UNCHANGED <<session[t], profile[t], draft[t]>>
        /\ ~Held(s)' /\ DraftOK(s)' /\ ChecksHold(s)' /\ session'[s].at = "idle"
    BY <1>1, EndFacts
  <1>3. /\ Held(s) /\ o \in Customers /\ profile[s] \in CustomerRows /\ DraftOK(s)
        /\ Orderly(Sees(s), o)
    BY <1>1, SlotFacts DEF AddressInv, Held, ChecksHold
  <1>4. /\ \A q \in Customers: customers'[q] = IF q = o THEN profile[s] ELSE customers[q]
        /\ customers' \in [Customers -> CustomerRows \cup {None}]
        /\ profile[s] # None
    BY <1>1, <1>3, NoneIsNoRow DEF AddressTypeOK
  <1>5. AddressTypeOK'
    BY <1>1, <1>2, <1>4, SlotFacts DEF AddressTypeOK
  <1>6. \A a \in AddressIds: addresses'[a] = IF a \in DOMAIN draft[s] THEN draft[s][a] ELSE addresses[a]
    BY <1>1 DEF Sees
  <1>7. \A a \in DOMAIN draft[s]:
            /\ a \in AddressIds /\ draft[s][a] \in Rows /\ draft[s][a].owner = o
            /\ ~draft[s][a].live => draft[s][a].defaults = {}
            /\ addresses[a] # None => addresses[a].owner = o
    BY <1>1, <1>3, SlotFacts DEF DraftOK
  <1> HIDE DEF o
  <1>8. \A a \in AddressIds: addresses'[a] # None =>
            /\ customers'[addresses'[a].owner] # None
            /\ ~addresses'[a].live => addresses'[a].defaults = {}
    <2> SUFFICES ASSUME NEW a \in AddressIds, addresses'[a] # None
                 PROVE  /\ customers'[addresses'[a].owner] # None
                        /\ ~addresses'[a].live => addresses'[a].defaults = {}
      OBVIOUS
    <2>1. CASE a \in DOMAIN draft[s]
      BY <1>3, <1>4, <1>6, <1>7, <2>1
    <2>2. CASE a \notin DOMAIN draft[s]
      <3>1. addresses'[a] = addresses[a] /\ addresses[a] \in Rows
        BY <1>1, <1>6, <2>2 DEF AddressTypeOK
      <3>2. addresses[a].owner \in Customers
        BY <3>1 DEF Rows
      <3> QED
        BY <1>4, <3>1, <3>2 DEF AddressInv
    <2> QED
      BY <2>1, <2>2
  <1>9. ASSUME NEW q \in Customers PROVE Orderly(addresses, q)'
    <2>1. CASE q = o
      BY <1>1, <1>3, <2>1 DEF Orderly, Book
    <2>2. CASE q # o
      <3> DEFINE rows == addresses'
      <3>1. \A a \in AddressIds:
                \/ rows[a] = addresses[a]
                \/ (addresses[a] = None \/ addresses[a].owner # q) /\ (rows[a] = None \/ rows[a].owner # q)
        BY <1>6, <1>7, <2>2
      <3>2. Orderly(addresses, q)
        BY DEF AddressInv
      <3> HIDE DEF rows
      <3>3. Orderly(rows, q)
        BY ONLY <3>1, <3>2, BookSame
      <3> QED
        BY <3>3 DEF rows, Orderly, Book
    <2> QED
      BY <2>1, <2>2
  <1>10. ASSUME NEW t \in Slots, NEW u \in Slots, Held(t)', Held(u)', Owner(t)' = Owner(u)'
         PROVE  t = u
    <2>1. \A q \in Slots \ {s}: (Held(q)' <=> Held(q)) /\ Owner(q)' = Owner(q)
      BY <1>2 DEF Held, Owner
    <2> QED
      BY <1>2, <1>10, <2>1 DEF AddressInv
  <1>11. ASSUME NEW t \in Slots \ {s} PROVE DraftOK(t)' /\ ChecksHold(t)'
    <2>1. DraftOK(t) /\ UNCHANGED <<session[t], profile[t], draft[t]>> /\ Owner(t)' = Owner(t)
      BY <1>2 DEF AddressInv, Owner
    <2>2. DOMAIN draft'[s] = {} /\ DOMAIN draft[s] \cap DOMAIN draft[t] = {}
      BY <1>2, <2>1 DEF DraftOK
    <2>3. \A a \in DOMAIN draft[t]: addresses'[a] = addresses[a]
      BY <1>1, <1>6, <2>2, SlotFacts
    <2>4. DraftOK(t)'
      BY <1>2, <2>1, <2>2, <2>3 DEF DraftOK
    <2>5. Held(t) => Owner(t) # o /\ Owner(t) \in Customers
      BY <1>3 DEF AddressInv, ChecksHold, Held, o
    <2>6. Held(t) => customers'[Owner(t)] = customers[Owner(t)]
      BY <1>4, <2>5
    <2>7. Held(t) => \A a \in AddressIds \ DOMAIN draft[t]:
               \/ addresses'[a] = addresses[a]
               \/ /\ addresses[a] = None \/ addresses[a].owner # Owner(t)
                  /\ addresses'[a] = None \/ addresses'[a].owner # Owner(t)
      BY <1>6, <1>7, <2>5
    <2>8. ChecksHold(t)'
      BY <1>5, <2>1, <2>3, <2>6, <2>7, ChecksStay
    <2> QED
      BY <2>4, <2>8
  <1> QED
    BY <1>2, <1>5, <1>8, <1>9, <1>10, <1>11 DEF AddressInv

(* An account is blocked between the requests of its customer.              *)
LEMMA BlockKeeps ==
    ASSUME AddressInv, NEW o \in Customers, Block(o)
    PROVE  AddressInv'
  <1> DEFINE row == [customers[o] EXCEPT !.status = "blocked"]
  <1>1. /\ AddressTypeOK /\ customers[o] # None /\ \A s \in Slots: ~HoldsCustomer(s, o)
        /\ customers' = [customers EXCEPT ![o] = row]
        /\ UNCHANGED <<addresses, session, profile, draft>>
    BY DEF Block, AddressInv
  <1>2. row \in CustomerRows /\ row # None
    <2>1. customers[o] \in CustomerRows
      BY <1>1 DEF AddressTypeOK
    <2>2. row \in CustomerRows
      BY <2>1 DEF CustomerRows
    <2> QED
      BY <2>2, NoneIsNoRow
  <1> HIDE DEF row
  <1>3. \A q \in Customers: customers'[q] = IF q = o THEN row ELSE customers[q]
    BY <1>1 DEF AddressTypeOK
  <1>4. AddressTypeOK'
    BY <1>1, <1>2 DEF AddressTypeOK
  <1>5. \A a \in AddressIds: addresses'[a] # None =>
            /\ customers'[addresses'[a].owner] # None
            /\ ~addresses'[a].live => addresses'[a].defaults = {}
    <2> SUFFICES ASSUME NEW a \in AddressIds, addresses[a] # None
                 PROVE  /\ customers'[addresses[a].owner] # None
                        /\ ~addresses[a].live => addresses[a].defaults = {}
      BY <1>1
    <2>1. addresses[a].owner \in Customers
      BY <1>1 DEF AddressTypeOK, Rows
    <2> QED
      BY <1>2, <1>3, <2>1 DEF AddressInv
  <1>6. \A q \in Customers: Orderly(addresses, q)'
    <2> SUFFICES ASSUME NEW q \in Customers PROVE Orderly(addresses, q)'
      OBVIOUS
    <2>1. Orderly(addresses, q) /\ addresses' = addresses
      BY <1>1 DEF AddressInv
    <2> QED
      BY <2>1 DEF Orderly, Book
  <1>7. \A s, t \in Slots: Held(s)' /\ Held(t)' /\ Owner(s)' = Owner(t)' => s = t
    BY <1>1 DEF AddressInv, Held, Owner
  <1>8. ASSUME NEW s \in Slots PROVE DraftOK(s)' /\ ChecksHold(s)'
    <2>1. DraftOK(s)'
      BY <1>1 DEF AddressInv, DraftOK, Owner
    <2>2. Held(s) => Owner(s) # o /\ Owner(s) \in Customers
      BY <1>1 DEF AddressInv, ChecksHold, HoldsCustomer, Held, Owner
    <2>3. Held(s) => customers'[Owner(s)] = customers[Owner(s)]
      BY <1>3, <2>2
    <2>4. UNCHANGED <<session[s], profile[s], draft[s]>> /\ addresses' = addresses
      BY <1>1
    <2>5. ChecksHold(s)'
      BY <1>4, <2>3, <2>4, ChecksStay
    <2> QED
      BY <2>1, <2>5
  <1>9. \A s \in Slots: (DraftOK(s) /\ ChecksHold(s))'
    BY <1>8
  <1> QED
    BY <1>4, <1>5, <1>6, <1>7, <1>9 DEF AddressInv

LEMMA AddressStep == AddressInv /\ [Next]_vars => AddressInv'
  <1> SUFFICES ASSUME AddressInv, [Next]_vars PROVE AddressInv'
    OBVIOUS
  <1>1. ASSUME NEW s \in Slots, NEW o \in Customers, NEW r \in Requests, Begin(s, o, r)
        PROVE  AddressInv'
    BY <1>1, BeginKeeps
  <1>2. ASSUME NEW s \in Slots, TakeCustomer(s) PROVE AddressInv'
    BY <1>2, TakeKeeps
  <1>3. ASSUME NEW s \in Slots, Read(s) \/ EditProfile(s) PROVE AddressInv'
    BY <1>3, ProfileKeeps
  <1>4. ASSUME NEW s \in Slots, CheckTarget(s) \/ CheckCap(s) PROVE AddressInv'
    BY <1>4, CheckKeeps
  <1>5. ASSUME NEW s \in Slots, Release(s) PROVE AddressInv'
    BY <1>5, ReleaseKeeps
  <1>6. ASSUME NEW s \in Slots, NEW a \in AddressIds, Create(s, a) PROVE AddressInv'
    BY <1>6, RowKeeps
  <1>7. ASSUME NEW s \in Slots, Change(s) PROVE AddressInv'
    <2>1. Request(s).target \in AddressIds
      BY <1>7, RequestFacts DEF AddressInv, ChecksHold, Change, Ready, Request
    <2> QED
      BY <1>7, <2>1, RowKeeps
  <1>8. ASSUME NEW s \in Slots, Commit(s) PROVE AddressInv'
    BY <1>8, CommitKeeps
  <1>9. ASSUME NEW s \in Slots, Rollback(s) PROVE AddressInv'
    BY <1>9, RollbackKeeps
  <1>10. ASSUME NEW o \in Customers, Block(o) PROVE AddressInv'
    BY <1>10, BlockKeeps
  <1>11. CASE UNCHANGED vars
    <2>1. /\ customers' = customers /\ addresses' = addresses /\ session' = session
          /\ profile' = profile /\ draft' = draft /\ AddressTypeOK
      BY <1>11 DEF vars, AddressInv
    <2>2. AddressTypeOK'
      BY <2>1 DEF AddressTypeOK
    <2>3. CASE Slots = {}
      <3>1. \A a \in AddressIds: addresses'[a] # None =>
              /\ customers'[addresses'[a].owner] # None
              /\ ~addresses'[a].live => addresses'[a].defaults = {}
        BY <2>1 DEF AddressInv
      <3>2. ASSUME NEW o \in Customers PROVE Orderly(addresses, o)'
        <4>1. Orderly(addresses, o)
          BY DEF AddressInv
        <4> QED
          BY <2>1, <4>1 DEF Orderly, Book
      <3> QED
        BY <2>2, <2>3, <3>1, <3>2 DEF AddressInv
    <2>4. CASE Slots # {}
      <3>1. PICK s \in Slots: TRUE
        BY <2>4
      <3>2. DraftOK(s)'
        BY <2>1 DEF AddressInv, DraftOK, Owner
      <3>3. ChecksHold(s)'
        BY <2>1, <2>2, ChecksStay
      <3>4. Held(s)' => Held(s) /\ Owner(s)' = Owner(s)
        BY <2>1 DEF Held, Owner
      <3> QED
        BY <2>1, <2>2, <3>2, <3>3, <3>4, SlotStep
    <2> QED
      BY <2>3, <2>4
  <1> QED
    BY <1>1, <1>2, <1>3, <1>4, <1>5, <1>6, <1>7, <1>8, <1>9, <1>10, <1>11 DEF Next
-----------------------------------------------------------------------------
(* However the requests of a customer race, what each has read under the    *)
(* lock of its customer's row stays so until it ends                        *)
(* (identity/service.ts:39-47, 73-93).                                     *)
THEOREM AddressInvariant == Spec => []AddressInv
  BY AddressInit, AddressStep, PTL DEF Spec

(* No book ever holds more live addresses than allowed, nor two defaults of *)
(* a kind: the unique indexes have nothing to refuse                        *)
(* (identity/service.ts:73-93).                                            *)
THEOREM BooksInOrder == Spec => []BookInOrder
  <1>1. AddressInv => BookInOrder
    <2> SUFFICES ASSUME AddressInv, NEW o \in Customers
                 PROVE  /\ Cardinality(Book(addresses, o)) <= MaxLive
                        /\ \A k \in Kinds: Cardinality({a \in Book(addresses, o):
                                                       k \in addresses[a].defaults}) <= 1
      BY DEF BookInOrder
    <2>1. Orderly(addresses, o)
      BY DEF AddressInv
    <2>2. ASSUME NEW k \in Kinds
          PROVE  Cardinality({a \in Book(addresses, o): k \in addresses[a].defaults}) <= 1
      <3> DEFINE those == {a \in Book(addresses, o): k \in addresses[a].defaults}
      <3> HIDE DEF those
      <3>1. ASSUME those = {} PROVE Cardinality(those) <= 1
        BY <3>1, FS_EmptySet
      <3>2. ASSUME those # {} PROVE Cardinality(those) <= 1
        <4>1. PICK a: a \in those
          BY <3>2
        <4>2. those = {a}
          BY <2>1, <4>1 DEF Orderly, those
        <4>3. Cardinality({a}) = 1
          BY FS_Singleton
        <4> QED
          BY <4>2, <4>3
      <3>3. Cardinality(those) <= 1
        BY <3>1, <3>2
      <3> QED
        BY <3>3 DEF those
    <2> QED
      BY <2>1, <2>2 DEF Orderly
  <1> QED
    BY <1>1, AddressInvariant, PTL

(* If-Match means what it says, also for the rows a request changes on the  *)
(* side (identity/service.ts:76-93).                              *)
THEOREM EditsReplace == Spec => EditsReplaceWhatWasSeen
  <1> DEFINE Later == \A a \in AddressIds:
                addresses[a] # None /\ addresses'[a] # addresses[a] =>
                  /\ addresses[a].live
                  /\ addresses'[a].version > addresses[a].version
                  /\ customers[addresses[a].owner].status = "active"
             Seen == \A s \in Slots:
                session[s].at = "wrote" /\ addresses' # addresses /\ session'[s] = Idle
                /\ Request(s).method \in {"patch", "delete"} =>
                  addresses[Request(s).target].version = Request(s).expected
  <1>1. ASSUME AddressInv, [Next]_vars PROVE Later
    <2>1. ASSUME NEW s \in Slots, Commit(s) PROVE Later
      <3> SUFFICES ASSUME NEW a \in AddressIds, addresses[a] # None, addresses'[a] # addresses[a]
                   PROVE  /\ addresses[a].live
                          /\ addresses'[a].version > addresses[a].version
                          /\ customers[addresses[a].owner].status = "active"
        OBVIOUS
      <3>1. a \in DOMAIN draft[s] /\ addresses'[a] = draft[s][a]
        BY <2>1 DEF Commit, Sees
      <3>2. /\ addresses[a].owner = Owner(s) /\ addresses[a].live
            /\ draft[s][a].version > addresses[a].version
        BY <1>1, <3>1 DEF AddressInv, DraftOK
      <3>3. customers[Owner(s)] # None
        BY <1>1, <3>2 DEF AddressInv
      <3>4. customers[Owner(s)].status = "active"
        BY <1>1, <2>1, <3>3 DEF AddressInv, ChecksHold, Held, Commit
      <3> QED
        BY <3>1, <3>2, <3>4
    <2>2. CASE UNCHANGED addresses
      BY <2>2
    <2> QED
      BY <1>1, <2>1, <2>2 DEF Next, Begin, TakeCustomer, Read, EditProfile, CheckTarget, CheckCap,
                              Release, Create, Change, Rollback, Block, vars
  <1>2. ASSUME AddressInv PROVE Seen
    BY <1>2 DEF AddressInv, ChecksHold
  <1>3. AddressInv /\ [Next]_vars => [Later /\ Seen]_<<customers, addresses>>
    BY <1>1, <1>2
  <1> QED
    BY <1>3, AddressInvariant, PTL DEF Spec, EditsReplaceWhatWasSeen
=============================================================================
