--------------------------- MODULE ExecutionProofs ---------------------------
(***************************************************************************)
(* Proofs about Execution: the store is a function of its commitment,      *)
(* versions move forward, and a transaction that creates fresh objects     *)
(* does not stop the task that owns the store. For every set of objects,   *)
(* every set of transactions and every bound on the history.               *)
(***************************************************************************)
EXTENDS Execution, OperatorProofs

Inv == TypeOK /\ StoreOK(store)

(***************************************************************************)
(* The empty store.                                                        *)
(***************************************************************************)
LEMMA InitInv == Init => Inv
<1> SUFFICES ASSUME Init PROVE Inv
  OBVIOUS
<1>1. /\ store.objects = {} /\ store.commitment = << >>
      /\ store.latest = [id \in ObjectIds |-> 0]
      /\ store = [objects |-> store.objects, latest |-> store.latest,
                  commitment |-> store.commitment]
  BY DEF Init, EmptyStore
<1>2. 0 \in Version /\ MaxWrites \in Nat /\ 0 <= MaxWrites
  BY ExecutionAssumption DEF Version
<1>3. << >> \in Seq(Object) /\ << >> \in Seq(Input) /\ Len(<< >>) = 0 /\ DOMAIN << >> = 1..0
  BY EmptySeq, LenProperties
<1>4. 1..0 = {}
  OBVIOUS
<1>5. store \in Stores
  <2>1. store.latest \in [ObjectIds -> Version]
    BY <1>1, <1>2
  <2> QED
    BY <1>1, <1>3, <2>1 DEF Stores
<1>6. Range(<< >>) = {} /\ \A id : WritesTo(<< >>, id) = {}
  BY <1>3, <1>4 DEF Range, WritesTo
<1>7. StoreOK(store)
  <2>1. \A id \in ObjectIds : store.latest[id] = 0 /\ store.latest[id] <= 0
    BY <1>1
  <2>2. LatestIsLastWrite(store)
    BY <1>1, <1>6, <2>1 DEF LatestIsLastWrite
  <2> QED
    BY <1>1, <1>2, <1>3, <1>4, <1>5, <1>6, <2>1, <2>2 DEF StoreOK
<1>8. TypeOK
  <2>1. last \in [function : FunctionId, inputs : Seq(Input)]
    BY <1>3 DEF Init, FunctionId
  <2> QED
    BY <1>5, <2>1 DEF Init, TypeOK, Stores, ExecutionStatus, AbortReason
<1> QED
  BY <1>7, <1>8 DEF Inv

(***************************************************************************)
(* One transaction (scheduler.rs:27-45): either an assertion stops the     *)
(* task, or the store absorbs the output.                                  *)
(***************************************************************************)
LEMMA ExecuteInv ==
    ASSUME Inv, NEW transaction \in Transactions, Execute(transaction)
    PROVE  Inv'
<1> DEFINE w == OutputWrites(store, transaction)
<1>1. transaction \in Transaction
  BY ExecutionAssumption DEF Transaction
<1>2. StatusOf(store, transaction) \in ExecutionStatus
  BY DEF StatusOf, ExecutionStatus, AbortReason
<1>3. StoreOK(store')
  <2>1. CASE VersionsMoveForward(store, w)
    <3>1. store' = Apply(store, w)
      BY <2>1 DEF Execute
    <3>2. Len(store.commitment) + Len(transaction.inputs) <= MaxWrites
      BY DEF Execute
    <3>3. Len(store.commitment) + Len(w) <= MaxWrites
      BY <1>1, <3>2, OutputIsApplicable DEF Inv
    <3>4. PICK v \in Version :
              /\ OneWriteEach(w, v)
              /\ w # << >> => v \in 1..(Len(store.commitment) + 1)
      BY <1>1, <3>2, OutputIsApplicable DEF Inv
    <3> HIDE DEF w
    <3>5. StoreOK(store)
      BY DEF Inv
    <3>6. StoreOK(Apply(store, w))
      BY <2>1, <3>3, <3>4, <3>5, ApplyOK
    <3> QED
      BY <3>1, <3>6
  <2>2. CASE ~VersionsMoveForward(store, w)
    <3>1. store' = store
      BY <2>2 DEF Execute
    <3> QED
      BY <3>1 DEF Inv
  <2> QED
    BY <2>1, <2>2
<1>4. TypeOK'
  <2>1. store' \in Stores
    BY <1>3 DEF StoreOK
  <2>2. last' \in [function : FunctionId, inputs : Seq(Input)]
    BY <1>1 DEF Execute, Transaction
  <2>3. status' \in ExecutionStatus /\ panicked' \in BOOLEAN
    BY <1>2 DEF Execute, Inv, TypeOK
  <2> QED
    BY <2>1, <2>2, <2>3 DEF TypeOK, Stores
<1> QED
  BY <1>3, <1>4 DEF Inv

(***************************************************************************)
(* The invariant holds in every state.                                     *)
(***************************************************************************)
LEMMA SpecInv == Spec => []Inv
<1>1. Init => Inv
  BY InitInv
<1>2. Inv /\ [Next]_vars => Inv'
  <2>1. ASSUME Inv, Next PROVE Inv'
    BY <2>1, ExecuteInv DEF Next
  <2>2. ASSUME Inv, UNCHANGED vars PROVE Inv'
    BY <2>2 DEF Inv, TypeOK, StoreOK, LatestIsLastWrite, vars
  <2> QED
    BY <2>1, <2>2
<1> QED
  BY <1>1, <1>2, PTL DEF Spec

(***************************************************************************)
(* The store, the executed transaction and its status stay well-formed.    *)
(***************************************************************************)
THEOREM ExecutionType == Spec => []TypeOK
<1>1. Inv => TypeOK
  BY DEF Inv
<1> QED
  BY <1>1, SpecInv, PTL

(***************************************************************************)
(* The commitment determines the objects and their latest versions:        *)
(* validators that agree on it agree on the store (store.rs:27-67).        *)
(***************************************************************************)
THEOREM CommitmentIsTheState == Spec => []CommitmentDeterminesStore
<1>1. Inv => CommitmentDeterminesStore
  <2> SUFFICES ASSUME Inv PROVE CommitmentDeterminesStore
    OBVIOUS
  <2>1. DOMAIN store.commitment = 1..Len(store.commitment)
    BY LenProperties DEF Inv, StoreOK, Stores
  <2> QED
    BY <2>1 DEF Inv, StoreOK, LatestIsLastWrite, WritesTo, CommitmentDeterminesStore
<1> QED
  BY <1>1, SpecInv, PTL

(***************************************************************************)
(* Execution is infallible when the ids of created objects are fresh: no   *)
(* assertion of the store stops the task that owns it, whatever else the   *)
(* transactions declare (engine.rs:13-14, store.rs:45-67).                 *)
(***************************************************************************)
THEOREM FreshIdsNeverPanic ==
    ASSUME FreshIds = TRUE
    PROVE  Spec => []NeverPanics
<1>1. Init => NeverPanics
  BY DEF Init, NeverPanics
<1>2. Inv /\ NeverPanics /\ [Next]_vars => NeverPanics'
  <2>1. ASSUME Inv, NeverPanics, NEW transaction \in Transactions, Execute(transaction)
        PROVE  NeverPanics'
    <3>1. transaction \in Transaction /\ StoreOK(store) /\ CreatesFreshIds(store, transaction)
      BY <2>1, ExecutionAssumption DEF Transaction, Inv, Execute
    <3>2. VersionsMoveForward(store, OutputWrites(store, transaction))
      BY <3>1, FreshIdsMoveForward
    <3> QED
      BY <2>1, <3>2 DEF Execute, NeverPanics
  <2> QED
    BY <2>1 DEF Next, NeverPanics, vars
<1> QED
  BY <1>1, <1>2, SpecInv, PTL DEF Spec
-----------------------------------------------------------------------------
(***************************************************************************)
(* What a transaction that does not stop the task adds to the store: the   *)
(* writes of its output.                                                   *)
(***************************************************************************)
LEMMA ExecuteWrites ==
    ASSUME Inv, NEW transaction \in Transactions, Execute(transaction), ~panicked'
    PROVE  LET w == OutputWrites(store, transaction)
           IN  /\ VersionsMoveForward(store, w)
               /\ status' = StatusOf(store, transaction)
               /\ store'.objects \ store.objects = {w[i] : i \in 1..Len(w)}
               /\ \A i \in 1..Len(w) : /\ w[i].id \in ObjectIds
                                       /\ w[i].version = NextVersion(store, transaction)
                                       /\ store.latest[w[i].id] < w[i].version
<1> DEFINE w == OutputWrites(store, transaction)
<1>1. transaction \in Transaction /\ StoreOK(store)
  BY ExecutionAssumption DEF Transaction, Inv
<1>2. /\ VersionsMoveForward(store, w) /\ store' = Apply(store, w)
      /\ status' = StatusOf(store, transaction)
  BY DEF Execute
<1>3. Len(store.commitment) + Len(transaction.inputs) <= MaxWrites
  BY DEF Execute
<1>4. PICK v \in Version :
          /\ OneWriteEach(w, v)
          /\ w # << >> => v = NextVersion(store, transaction)
  BY <1>1, <1>3, OutputIsApplicable
<1>5. StoreOK(store')
  BY ExecuteInv DEF Inv
<1> HIDE DEF w
<1>6. store'.objects \ store.objects = Range(w)
  BY <1>1, <1>2, <1>4, <1>5, ApplyAddsWrites
<1>7. /\ DOMAIN w = 1..Len(w) /\ Len(w) \in Nat
      /\ \A i \in 1..Len(w) : w[i] \in WritesOfVersion(v)
  BY <1>4, LenProperties, ElementOfSeq DEF OneWriteEach
<1>8. (\E i \in 1..Len(w) : TRUE) => w # << >>
  <2>1. Len(<< >>) = 0
    BY EmptySeq
  <2> QED
    BY <1>7, <2>1
<1>9. \A i \in 1..Len(w) : /\ w[i].id \in ObjectIds
                           /\ w[i].version = NextVersion(store, transaction)
                           /\ store.latest[w[i].id] < w[i].version
  BY <1>2, <1>4, <1>7, <1>8 DEF WritesOfVersion, VersionsMoveForward
<1> QED
  BY <1>2, <1>6, <1>7, <1>9 DEF Range, w

(***************************************************************************)
(* Versions order the writes causally (transaction.rs:88-102): a           *)
(* transaction's writes have one version, above the version of every       *)
(* object it declared.                                                     *)
(***************************************************************************)
THEOREM VersionsFollowReads == Spec => WritesFollowReads
<1> DEFINE A == LET written == store'.objects \ store.objects
                IN  written # {} =>
                        /\ \A w, x \in written : w.version = x.version
                        /\ \A input \in Inputs(last'), w \in written :
                               store.latest[input.id] < w.version
<1>1. Inv /\ [Next]_vars => [A]_vars
  <2> SUFFICES ASSUME Inv, NEW transaction \in Transactions, Execute(transaction)
               PROVE  A
    BY DEF Next
  <2> DEFINE written == store'.objects \ store.objects
             w == OutputWrites(store, transaction)
  <2>1. CASE panicked'
    <3>1. store' = store
      BY <2>1 DEF Execute
    <3> QED
      BY <3>1
  <2>2. CASE ~panicked'
    <3>1. transaction \in Transaction /\ StoreOK(store) /\ last' = transaction
      BY ExecutionAssumption DEF Transaction, Inv, Execute
    <3>2. /\ status' = StatusOf(store, transaction)
          /\ written = {w[i] : i \in 1..Len(w)}
          /\ \A i \in 1..Len(w) : /\ w[i].id \in ObjectIds
                                  /\ w[i].version = NextVersion(store, transaction)
                                  /\ store.latest[w[i].id] < w[i].version
      BY <2>2, ExecuteWrites
    <3>3. /\ w \in Seq(WritesOfVersion(NextVersion(store, transaction)))
          /\ StatusOf(store, transaction) # "Success" => w = << >>
          /\ StatusOf(store, transaction) = "Success" =>
                 \A id \in ObjectIds :
                     (\E i \in 1..Len(w) : w[i].id = id) <=>
                         \E input \in Inputs(transaction) :
                             input.mode # "ReadOnly" /\ input.id = id
      BY <3>1, OutputProperties
    <3>4. \A input \in Inputs(transaction) :
              input.mode # "WriteOnly" => store.latest[input.id] < NextVersion(store, transaction)
      BY <3>1, NextVersionExceedsReads
    <3>5. \A input \in Inputs(transaction) : input \in Input
      BY <3>1, LenProperties, ElementOfSeq DEF Inputs, Range, Transaction
    <3> HIDE DEF w, written
    <3>6. ASSUME written # {}, NEW input \in Inputs(transaction)
          PROVE  store.latest[input.id] < NextVersion(store, transaction)
      <4>1. StatusOf(store, transaction) = "Success"
        <5>1. Len(<< >>) = 0 /\ 1..0 = {}
          BY EmptySeq
        <5> QED
          BY <3>2, <3>3, <3>6, <5>1
      <4>2. CASE input.mode # "WriteOnly"
        BY <3>4, <4>2
      <4>3. CASE input.mode = "WriteOnly"
        <5>1. input.id \in ObjectIds
          BY <3>5 DEF Input
        <5>2. PICK i \in 1..Len(w) : w[i].id = input.id
          BY <3>3, <4>1, <4>3, <5>1
        <5> QED
          BY <3>2, <5>2
      <4> QED
        BY <4>2, <4>3
    <3>7. \A x \in written : x.version = NextVersion(store, transaction)
      BY <3>2
    <3> QED
      BY <3>1, <3>6, <3>7 DEF written
  <2> QED
    BY <2>1, <2>2
<1> QED
  BY <1>1, SpecInv, PTL DEF Spec, WritesFollowReads

(***************************************************************************)
(* A transaction that does not succeed leaves no trace, a successful one   *)
(* found what it declared to read and writes exactly what it declared      *)
(* writable (effects.rs:28-66, scheduler.rs:27-45).                        *)
(***************************************************************************)
THEOREM StatusDecidesWrites == Spec => StatusTellsWrites
<1> DEFINE A == ~panicked' =>
                    LET ids == {w.id : w \in store'.objects \ store.objects}
                    IN  IF status' = "Success"
                        THEN /\ \A input \in Inputs(last') :
                                    input.mode # "WriteOnly" => store.latest[input.id] # 0
                             /\ ids = {input.id : input \in {i \in Inputs(last') :
                                                                 i.mode # "ReadOnly"}}
                        ELSE ids = {}
<1>1. Inv /\ [Next]_vars => [A]_vars
  <2> SUFFICES ASSUME Inv, NEW transaction \in Transactions, Execute(transaction), ~panicked'
               PROVE  A
    BY DEF Next
  <2> DEFINE written == store'.objects \ store.objects
             w == OutputWrites(store, transaction)
             declared == {i \in Inputs(transaction) : i.mode # "ReadOnly"}
  <2>1. transaction \in Transaction /\ StoreOK(store) /\ last' = transaction
    BY ExecutionAssumption DEF Transaction, Inv, Execute
  <2>2. /\ status' = StatusOf(store, transaction)
        /\ written = {w[i] : i \in 1..Len(w)}
        /\ \A i \in 1..Len(w) : w[i].id \in ObjectIds
    BY ExecuteWrites
  <2>3. /\ StatusOf(store, transaction) # "Success" => w = << >>
        /\ StatusOf(store, transaction) = "Success" =>
               \A id \in ObjectIds :
                   (\E i \in 1..Len(w) : w[i].id = id) <=>
                       \E input \in Inputs(transaction) : input.mode # "ReadOnly" /\ input.id = id
    BY <2>1, OutputProperties
  <2>4. \A input \in Inputs(transaction) : input.id \in ObjectIds
    <3>1. \A input \in Inputs(transaction) : input \in Input
      BY <2>1, LenProperties, ElementOfSeq DEF Inputs, Range, Transaction
    <3> QED
      BY <3>1 DEF Input
  <2> HIDE DEF w, written
  <2>5. {x.id : x \in written} = {w[i].id : i \in 1..Len(w)}
    BY <2>2
  <2>6. CASE status' = "Success"
    <3>1. {w[i].id : i \in 1..Len(w)} = {input.id : input \in declared}
      <4>1. \A i \in 1..Len(w) : \E input \in declared : input.id = w[i].id
        BY <2>2, <2>3, <2>6
      <4>2. \A input \in declared : \E i \in 1..Len(w) : w[i].id = input.id
        BY <2>2, <2>3, <2>4, <2>6
      <4> QED
        BY <4>1, <4>2, SMTT(40)
    <3>2. ~MissingRead(store, transaction)
      BY <2>2, <2>6 DEF StatusOf
    <3>3. \A input \in Inputs(transaction) : input.mode # "WriteOnly" => store.latest[input.id] # 0
      BY <3>2 DEF MissingRead, Reads
    <3> QED
      BY <2>1, <2>5, <2>6, <3>1, <3>3 DEF written
  <2>7. CASE status' # "Success"
    <3>1. w = << >> /\ Len(<< >>) = 0 /\ 1..0 = {}
      BY <2>2, <2>3, <2>7, EmptySeq
    <3> QED
      BY <2>5, <2>7, <3>1 DEF written
  <2> QED
    BY <2>6, <2>7
<1> QED
  BY <1>1, SpecInv, PTL DEF Spec, StatusTellsWrites
=============================================================================
