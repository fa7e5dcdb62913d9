--------------------------- MODULE EthClientProofs ---------------------------
(***************************************************************************)
(* The safety of getBlock and of the sender cache, for any blocks, any     *)
(* providers and any reorganisations among them.                           *)
(***************************************************************************)
EXTENDS EthClient, TLAPS

\* A transaction is in a block once, at the place the cache speaks of.
LEMMA SenderAt ==
  ASSUME NEW b \in Blocks, NEW i \in DOMAIN Body[b], Body[b][i].tx = Tx
  PROVE  HasTx(b) /\ SenderIn(b) = Body[b][i].from
<1> DEFINE k == CHOOSE j \in DOMAIN Body[b] : Body[b][j].tx = Tx
<1>1. k \in DOMAIN Body[b] /\ Body[b][k].tx = Tx
  OBVIOUS
<1> HIDE DEF k
<1>2. k = i
  BY <1>1, EthAssumption
<1>3. SenderIn(b) = Body[b][k].from
  BY DEF SenderIn, k
<1> QED  BY <1>2, <1>3 DEF HasTx

LEMMA SenderType ==
  ASSUME NEW b \in Blocks, HasTx(b) PROVE SenderIn(b) \in Addresses
<1>1. PICK i \in DOMAIN Body[b] : Body[b][i].tx = Tx
  BY DEF HasTx
<1> QED  BY <1>1, SenderAt, EthAssumption

LEMMA InitHolds == Init => IInv
<1> SUFFICES ASSUME Init PROVE IInv
  OBVIOUS
<1>1. TypeOK
  <2>1. head \in [Servers -> Blocks] /\ known \in [Servers -> SUBSET Blocks] /\ heads \in 0..MaxHeads
    BY EthAssumption DEF Init
  <2>2. listed \in [Callers -> Lists]
    BY DEF Init, Lists
  <2> QED  BY <2>1, <2>2 DEF Init, TypeOK
<1>2. CacheInv /\ OriginInv /\ CallInv
  BY DEF Init, CacheInv, OriginInv, CallInv
<1>3. SenderOfInclusion /\ SignatureIsOwners /\ BlockIsWhole /\ FastPath
  BY DEF Init, SenderOfInclusion, SignatureIsOwners, BlockIsWhole, FastPath
<1> QED  BY <1>1, <1>2, <1>3 DEF IInv

\* The transaction comes to the callers; none of them has used it yet.
LEMMA FetchKeeps ==
  ASSUME IInv, ~fetched, UNCHANGED <<chainVars, callVars>>, fetched' = TRUE,
         \/ UNCHANGED <<origin, cache>>
         \/ \E b \in Blocks : HasTx(b) /\ TransactionFrom(b)
  PROVE  IInv'
<1>1. UNCHANGED <<head, known, heads, at, job, block, listed, got>>
  BY DEF chainVars, callVars
<1>2. TypeOK /\ CacheInv /\ OriginInv /\ CallInv
      /\ SenderOfInclusion /\ SignatureIsOwners /\ BlockIsWhole
  BY DEF IInv
<1>3. /\ origin = None /\ cache = None
      /\ \A q \in Callers : at[q] \notin {"ask", "store"}
  BY <1>2 DEF OriginInv
<1>4. TypeOK' /\ CacheInv' /\ OriginInv'
  <2>1. CASE UNCHANGED <<origin, cache>>
    BY <1>1, <1>2, <1>3, <2>1 DEF TypeOK, CacheInv, OriginInv
  <2>2. ASSUME NEW b \in Blocks, HasTx(b), origin' = b, cache' = SenderFromServer(b, SenderIn(b))
        PROVE  TypeOK' /\ CacheInv' /\ OriginInv'
    <3>1. SenderIn(b) \in Addresses
      BY <2>2, SenderType
    <3>2. CASE SenderIn(b) = Zero
      <4>1. cache' = None
        BY <2>2, <3>2 DEF SenderFromServer
      <4> QED  BY <1>1, <1>2, <2>2, <3>2, <4>1 DEF TypeOK, CacheInv, OriginInv
    <3>3. CASE SenderIn(b) # Zero
      <4>1. cache' = [signer |-> b, from |-> SenderIn(b)]
        BY <2>2, <3>3 DEF SenderFromServer
      <4>2. cache' \in [signer : Blocks \cup {Signature}, from : Addresses \ {Zero}]
        BY <3>1, <3>3, <4>1
      <4>3. TypeOK'
        BY <1>1, <1>2, <2>2, <4>2 DEF TypeOK
      <4>4. CacheInv'
        BY <2>2, <4>1 DEF CacheInv
      <4>5. cache' # None => OriginInv'
        BY <1>1, <1>3, <2>2, <4>1 DEF OriginInv
      <4> QED  BY <4>2, <4>3, <4>4, <4>5, EthAssumption
    <3> QED  BY <3>2, <3>3
  <2> QED  BY <2>1, <2>2 DEF TransactionFrom
<1>5. CallInv' /\ SenderOfInclusion' /\ SignatureIsOwners' /\ BlockIsWhole'
  BY <1>1, <1>2 DEF CallInv, SenderOfInclusion, SignatureIsOwners, BlockIsWhole
<1>6. FastPath'
  BY <1>1, <1>3 DEF FastPath
<1> QED  BY <1>4, <1>5, <1>6 DEF IInv

\* What a caller's step has to show, when it leaves the shared transaction alone:
\* the caller's own part, for the others do not move.
LEMMA OwnPart ==
  ASSUME IInv, NEW q \in Callers, UNCHANGED <<chainVars, txVars>>,
         at[q] # "ok" \/ job[q] # "signature",
         NEW a \in {"ask", "store", "uncles", "ok", "error"},
         at' = [at EXCEPT ![q] = a],
         job' \in [Callers -> {"none", "sender", "signature", "block"}],
         block' \in [Callers -> Blocks \cup {None}],
         listed' \in [Callers -> Lists],
         got' \in [Callers -> Addresses \cup {None}],
         \A r \in Callers \ {q} : job'[r] = job[r] /\ block'[r] = block[r]
                                 /\ listed'[r] = listed[r] /\ got'[r] = got[r],
         a = "ask" => /\ job'[q] = "sender" /\ block'[q] \in Blocks /\ fetched /\ ~Hit(block'[q]),
         a = "store" => job'[q] = "signature" /\ fetched,
         a = "uncles" => /\ job'[q] = "block" /\ block'[q] \in Blocks
                         /\ listed'[q] = <<Body[block'[q]], <<>>>>,
         a = "ok" =>
           \/ /\ job'[q] = "sender" /\ block'[q] \in Blocks
              /\ HasTx(block'[q]) /\ got'[q] = SenderIn(block'[q])
           \/ job'[q] = "signature" /\ got'[q] = Signed
           \/ /\ job'[q] = "block" /\ block'[q] \in Blocks
              /\ listed'[q] = <<Body[block'[q]], Uncles[block'[q]]>>
  PROVE  IInv'
<1>1. UNCHANGED <<head, known, heads, fetched, origin, cache>>
  BY DEF chainVars, txVars
<1>2. /\ TypeOK /\ CacheInv /\ OriginInv /\ CallInv
      /\ SenderOfInclusion /\ SignatureIsOwners /\ BlockIsWhole /\ FastPath
  BY DEF IInv
<1>3. /\ at'[q] = a /\ \A r \in Callers \ {q} : at'[r] = at[r]
      /\ at' \in [Callers -> {"new", "ask", "store", "uncles"} \cup Returned]
  BY <1>2 DEF TypeOK, Returned
<1>4. TypeOK' /\ CacheInv'
  BY <1>1, <1>2, <1>3 DEF TypeOK, CacheInv
<1>5. \A r \in Callers : at[r] = "ok" /\ job[r] = "signature" => at'[r] = "ok" /\ job'[r] = "signature"
  BY <1>3
<1>6. OriginInv'
  <2>1. ~fetched => \A r \in Callers : at'[r] \notin {"ask", "store"}
    BY <1>2, <1>3 DEF OriginInv
  <2> QED  BY <1>1, <1>2, <1>5, <2>1 DEF OriginInv
<1>7. CallInv'
  BY <1>2, <1>3 DEF CallInv
<1>8. SenderOfInclusion' /\ SignatureIsOwners' /\ BlockIsWhole'
  BY <1>2, <1>3 DEF SenderOfInclusion, SignatureIsOwners, BlockIsWhole
<1>9. FastPath'
  <2> SUFFICES ASSUME NEW r \in Callers, at'[r] = "ask", block'[r] = origin, SenderIn(origin) # Zero
               PROVE  \E d \in Callers : at'[d] = "ok" /\ job'[d] = "signature"
    BY <1>1 DEF FastPath
  <2>1. CASE r = q
    <3>1. block'[q] \in Blocks /\ ~Hit(origin)
      BY <1>3, <2>1
    <3>2. origin # None
      BY <2>1, <3>1, EthAssumption
    <3>3. ~(cache # None /\ cache.signer = origin)
      BY <3>1 DEF Hit, Equal
    <3> QED  BY <1>2, <1>5, <3>2, <3>3 DEF OriginInv
  <2>2. CASE r # q
    <3>1. at[r] = "ask" /\ block[r] = origin
      BY <1>3, <2>2
    <3> QED  BY <1>2, <1>5, <3>1 DEF FastPath
  <2> QED  BY <2>1, <2>2
<1> QED  BY <1>4, <1>6, <1>7, <1>8, <1>9 DEF IInv

\* TransactionSender.
LEMMA AskSenderKeeps ==
  ASSUME IInv, NEW q \in Callers, NEW b \in Blocks, AskSender(q, b) PROVE IInv'
<1>1. TypeOK /\ CacheInv
  BY DEF IInv
<1>2. /\ UNCHANGED <<chainVars, txVars>> /\ at[q] = "new" /\ fetched /\ listed' = listed
      /\ job' = [job EXCEPT ![q] = "sender"] /\ block' = [block EXCEPT ![q] = b]
  BY DEF AskSender
<1>3. job'[q] = "sender" /\ block'[q] = b
      /\ job' \in [Callers -> {"none", "sender", "signature", "block"}]
      /\ block' \in [Callers -> Blocks \cup {None}]
      /\ \A r \in Callers \ {q} : job'[r] = job[r] /\ block'[r] = block[r]
  BY <1>1, <1>2 DEF TypeOK
<1>4. CASE Hit(b)
  <2>1. cache # None /\ cache.signer = b
    BY <1>4 DEF Hit, Equal
  <2>2. HasTx(b) /\ cache.from = SenderIn(b)
    BY <1>1, <2>1, EthAssumption DEF CacheInv
  <2>3. at' = [at EXCEPT ![q] = "ok"] /\ got' = [got EXCEPT ![q] = SenderIn(b)]
    BY <1>4, <2>2 DEF AskSender, Return
  <2>4. got' \in [Callers -> Addresses \cup {None}] /\ got'[q] = SenderIn(b)
        /\ \A r \in Callers \ {q} : got'[r] = got[r]
    BY <1>1, <2>2, <2>3, SenderType DEF TypeOK
  <2> QED  BY <1>1, <1>2, <1>3, <2>2, <2>3, <2>4, OwnPart DEF TypeOK
<1>5. CASE ~Hit(b)
  <2>1. at' = [at EXCEPT ![q] = "ask"] /\ got' = got
    BY <1>5 DEF AskSender, Return
  <2> QED  BY <1>1, <1>2, <1>3, <1>5, <2>1, OwnPart DEF TypeOK
<1> QED  BY <1>4, <1>5

LEMMA AnswerSenderKeeps == ASSUME IInv, NEW q \in Callers, AnswerSender(q) PROVE IInv'
<1>1. TypeOK /\ CallInv
  BY DEF IInv
<1>2. /\ UNCHANGED <<chainVars, txVars>> /\ at[q] = "ask"
      /\ UNCHANGED <<job, block, listed>> /\ job[q] = "sender" /\ block[q] \in Blocks
  BY <1>1 DEF AnswerSender, CallInv
<1>3. CASE at' = [at EXCEPT ![q] = "error"] /\ got' = got
  BY <1>1, <1>2, <1>3, OwnPart DEF TypeOK
<1>4. ASSUME NEW i \in DOMAIN Body[block[q]], Body[block[q]][i].tx = Tx,
             at' = [at EXCEPT ![q] = "ok"], got' = [got EXCEPT ![q] = Body[block[q]][i].from]
      PROVE  IInv'
  <2>1. HasTx(block[q]) /\ SenderIn(block[q]) = Body[block[q]][i].from
    BY <1>2, <1>4, SenderAt
  <2>2. got' \in [Callers -> Addresses \cup {None}] /\ got'[q] = SenderIn(block[q])
        /\ \A r \in Callers \ {q} : got'[r] = got[r]
    BY <1>1, <1>2, <1>4, <2>1, SenderType DEF TypeOK
  <2> QED  BY <1>1, <1>2, <1>4, <2>1, <2>2, OwnPart DEF TypeOK
<1> QED  BY <1>3, <1>4 DEF AnswerSender, Return, RightTransaction

\* A user's types.Sender.
LEMMA RecoverKeeps == ASSUME IInv, NEW q \in Callers, Recover(q) PROVE IInv'
<1>1. TypeOK /\ CacheInv
  BY DEF IInv
<1>2. /\ UNCHANGED <<chainVars, txVars>> /\ at[q] = "new" /\ fetched /\ UNCHANGED <<block, listed>>
      /\ job' = [job EXCEPT ![q] = "signature"]
  BY DEF Recover
<1>3. job'[q] = "signature" /\ job' \in [Callers -> {"none", "sender", "signature", "block"}]
      /\ \A r \in Callers \ {q} : job'[r] = job[r]
  BY <1>1, <1>2 DEF TypeOK
<1>4. CASE Hit(Signature)
  <2>1. cache.from = Signed
    BY <1>1, <1>4, EthAssumption DEF Hit, Equal, CacheInv
  <2>2. at' = [at EXCEPT ![q] = "ok"] /\ got' = [got EXCEPT ![q] = Signed]
    BY <1>4, <2>1 DEF Recover, Return
  <2>3. got' \in [Callers -> Addresses \cup {None}] /\ got'[q] = Signed
        /\ \A r \in Callers \ {q} : got'[r] = got[r]
    BY <1>1, <2>2, EthAssumption DEF TypeOK
  <2> QED  BY <1>1, <1>2, <1>3, <2>2, <2>3, OwnPart DEF TypeOK
<1>5. CASE ~Hit(Signature)
  <2>1. at' = [at EXCEPT ![q] = "store"] /\ got' = got
    BY <1>5 DEF Recover, Return
  <2> QED  BY <1>1, <1>2, <1>3, <2>1, OwnPart DEF TypeOK
<1> QED  BY <1>4, <1>5

LEMMA StoreSignedKeeps == ASSUME IInv, NEW q \in Callers, StoreSigned(q) PROVE IInv'
<1>1. /\ TypeOK /\ OriginInv /\ CallInv
      /\ SenderOfInclusion /\ SignatureIsOwners /\ BlockIsWhole /\ FastPath
  BY DEF IInv
<1>2. /\ UNCHANGED <<head, known, heads, fetched, origin, job, block, listed>>
      /\ at[q] = "store" /\ at' = [at EXCEPT ![q] = "ok"] /\ job[q] = "signature"
      /\ cache' = [signer |-> Signature, from |-> Signed] /\ got' = [got EXCEPT ![q] = Signed]
  BY <1>1 DEF StoreSigned, Return, chainVars, CallInv
<1>3. /\ at'[q] = "ok" /\ got'[q] = Signed
      /\ \A r \in Callers \ {q} : at'[r] = at[r] /\ got'[r] = got[r]
  BY <1>1, <1>2 DEF TypeOK
<1>4. TypeOK'
  <2>1. at' \in [Callers -> {"new", "ask", "store", "uncles"} \cup Returned]
        /\ got' \in [Callers -> Addresses \cup {None}]
    BY <1>1, <1>2, EthAssumption DEF TypeOK, Returned
  <2>2. cache' \in [signer : Blocks \cup {Signature}, from : Addresses \ {Zero}]
    BY <1>2, EthAssumption
  <2> QED  BY <1>1, <1>2, <2>1, <2>2 DEF TypeOK
<1>5. CacheInv'
  BY <1>2 DEF CacheInv
<1>6. \E r \in Callers : at'[r] = "ok" /\ job'[r] = "signature"
  BY <1>2, <1>3
<1>7. OriginInv' /\ CallInv'
  <2>1. fetched
    BY <1>1, <1>2 DEF OriginInv
  <2>2. OriginInv'
    BY <1>1, <1>2, <1>6, <2>1 DEF OriginInv
  <2>3. CallInv'
    BY <1>1, <1>2, <1>3 DEF CallInv
  <2> QED  BY <2>2, <2>3
<1>8. SenderOfInclusion' /\ SignatureIsOwners' /\ BlockIsWhole'
  BY <1>1, <1>2, <1>3 DEF SenderOfInclusion, SignatureIsOwners, BlockIsWhole
<1>9. FastPath'
  BY <1>6 DEF FastPath
<1> QED  BY <1>4, <1>5, <1>7, <1>8, <1>9 DEF IInv

\* getBlock.
LEMMA RequestBlockKeeps == ASSUME IInv, NEW q \in Callers, RequestBlock(q) PROVE IInv'
<1>1. TypeOK
  BY DEF IInv
<1>2. /\ UNCHANGED <<chainVars, txVars>> /\ at[q] = "new" /\ got' = got
      /\ job' = [job EXCEPT ![q] = "block"]
  BY DEF RequestBlock
<1>3. job'[q] = "block" /\ job' \in [Callers -> {"none", "sender", "signature", "block"}]
      /\ \A r \in Callers \ {q} : job'[r] = job[r]
  BY <1>1, <1>2 DEF TypeOK
<1>4. CASE at' = [at EXCEPT ![q] = "error"] /\ block' = block /\ listed' = listed
  BY <1>1, <1>2, <1>3, <1>4, OwnPart DEF TypeOK
<1>5. ASSUME NEW s \in Servers, NEW b \in known[s],
             NEW uncles \in {Uncles[b], <<>>}, NEW txs \in {Body[b], <<>>},
             block' = [block EXCEPT ![q] = b],
             IF ~Verified(b, uncles, txs) THEN Return(q, "error") /\ UNCHANGED listed
             ELSE /\ Return(q, IF uncles = <<>> THEN "ok" ELSE "uncles")
                  /\ listed' = [listed EXCEPT ![q] = <<txs, <<>>>>]
      PROVE  IInv'
  <2>1. b \in Blocks /\ block' \in [Callers -> Blocks \cup {None}] /\ block'[q] = b
        /\ \A r \in Callers \ {q} : block'[r] = block[r]
    BY <1>1, <1>5 DEF TypeOK
  <2>2. CASE ~Verified(b, uncles, txs)
    <3>1. at' = [at EXCEPT ![q] = "error"] /\ listed' = listed
      BY <1>5, <2>2 DEF Return
    <3> QED  BY <1>1, <1>2, <1>3, <2>1, <3>1, OwnPart DEF TypeOK
  <2>3. CASE Verified(b, uncles, txs)
    <3>1. txs = Body[b] /\ (uncles = <<>> => Uncles[b] = <<>>)
      BY <2>3 DEF Verified
    <3>2. /\ listed' \in [Callers -> Lists] /\ listed'[q] = <<Body[b], <<>>>>
          /\ \A r \in Callers \ {q} : listed'[r] = listed[r]
      <4>1. <<Body[b], <<>>>> \in Lists
        BY <2>1 DEF Lists
      <4>2. listed' = [listed EXCEPT ![q] = <<Body[b], <<>>>>]
        BY <1>5, <2>3, <3>1
      <4>3. listed \in [Callers -> Lists]
        BY <1>1 DEF TypeOK
      <4> DEFINE part == <<Body[b], <<>>>>
      <4>4. part \in Lists /\ listed' = [listed EXCEPT ![q] = part]
        BY <4>1, <4>2
      <4> HIDE DEF part
      <4>5. /\ listed' \in [Callers -> Lists] /\ listed'[q] = part
            /\ \A r \in Callers \ {q} : listed'[r] = listed[r]
        BY <4>3, <4>4
      <4> QED  BY <4>5 DEF part
    <3>3. CASE uncles = <<>>
      <4>1. at' = [at EXCEPT ![q] = "ok"]
        BY <1>5, <2>3, <3>3 DEF Return
      <4>2. listed'[q] = <<Body[block'[q]], Uncles[block'[q]]>>
        BY <2>1, <3>1, <3>2, <3>3
      <4> QED  BY <1>1, <1>2, <1>3, <2>1, <3>2, <4>1, <4>2, OwnPart DEF TypeOK
    <3>4. CASE uncles # <<>>
      <4>1. at' = [at EXCEPT ![q] = "uncles"]
        BY <1>5, <2>3, <3>4 DEF Return
      <4> QED  BY <1>1, <1>2, <1>3, <2>1, <3>2, <4>1, OwnPart DEF TypeOK
    <3> QED  BY <3>3, <3>4
  <2> QED  BY <2>2, <2>3
<1> QED  BY <1>4, <1>5 DEF RequestBlock, Return

LEMMA RequestUnclesKeeps == ASSUME IInv, NEW q \in Callers, RequestUncles(q) PROVE IInv'
<1>1. TypeOK /\ CallInv
  BY DEF IInv
<1>2. /\ UNCHANGED <<chainVars, txVars, job, block, got>> /\ at[q] = "uncles"
      /\ job[q] = "block" /\ block[q] \in Blocks /\ listed[q] = <<Body[block[q]], <<>>>>
  BY <1>1 DEF RequestUncles, CallInv
<1>3. CASE at' = [at EXCEPT ![q] = "error"] /\ listed' = listed
  BY <1>1, <1>2, <1>3, OwnPart DEF TypeOK
<1>4. ASSUME at' = [at EXCEPT ![q] = "ok"],
             listed' = [listed EXCEPT ![q] = <<@[1], Uncles[block[q]]>>]
      PROVE  IInv'
  <2>1. /\ listed' \in [Callers -> Lists]
        /\ listed'[q] = <<Body[block[q]], Uncles[block[q]]>>
        /\ \A r \in Callers \ {q} : listed'[r] = listed[r]
    <3>1. <<Body[block[q]], Uncles[block[q]]>> \in Lists
      BY <1>2 DEF Lists
    <3>2. listed' = [listed EXCEPT ![q] = <<Body[block[q]], Uncles[block[q]]>>]
      BY <1>2, <1>4
    <3> QED  BY <1>1, <3>1, <3>2 DEF TypeOK
  <2> QED  BY <1>1, <1>2, <1>4, <2>1, OwnPart DEF TypeOK
<1> QED  BY <1>3, <1>4 DEF RequestUncles, Return, UnclesOf

\* The callers come by their transaction, from a server or out of a block.
LEMMA FetchTransactionKeeps == ASSUME IInv, FetchTransaction PROVE IInv'
<1>1. \A s \in Servers : known[s] \subseteq Blocks
  BY DEF IInv, TypeOK
<1>2. CASE \E s \in Servers : \E b \in known[s] : HasTx(b) /\ TransactionFrom(b)
  <2>1. PICK b \in Blocks : HasTx(b) /\ TransactionFrom(b)
    BY <1>1, <1>2
  <2>2. ~fetched /\ UNCHANGED <<chainVars, callVars>> /\ fetched' = TRUE
    BY <2>1 DEF FetchTransaction, TransactionFrom
  <2> QED  BY <2>1, <2>2, FetchKeeps
<1>3. CASE fetched' = TRUE /\ UNCHANGED <<origin, cache>>
  <2>1. ~fetched /\ UNCHANGED <<chainVars, callVars>>
    BY DEF FetchTransaction
  <2> QED  BY <1>3, <2>1, FetchKeeps
<1> QED  BY <1>2, <1>3 DEF FetchTransaction

LEMMA ShareFromBlockKeeps == ASSUME IInv, NEW q \in Callers, ShareFromBlock(q) PROVE IInv'
<1>1. block[q] \in Blocks
  BY DEF ShareFromBlock, IInv, CallInv
<1>2. /\ ~fetched /\ HasTx(block[q]) /\ TransactionFrom(block[q]) /\ fetched' = TRUE
      /\ UNCHANGED <<chainVars, callVars>>
  BY DEF ShareFromBlock, TransactionFrom
<1> QED  BY <1>1, <1>2, FetchKeeps

\* A reorganisation touches no caller and no transaction.
LEMMA NewHeadKeeps == ASSUME IInv, NEW s \in Servers, NewHead(s) PROVE IInv'
<1>1. UNCHANGED <<fetched, origin, cache, at, job, block, listed, got>>
  BY DEF NewHead, txVars, callVars
<1>2. TypeOK'
  <2>1. TypeOK /\ MaxHeads \in Nat
    BY EthAssumption DEF IInv
  <2>2. heads' \in 0..MaxHeads
    <3>1. heads \in 0..MaxHeads /\ heads < MaxHeads /\ heads' = heads + 1
      BY <2>1 DEF TypeOK, NewHead
    <3> QED  BY <2>1, <3>1
  <2>3. head' \in [Servers -> Blocks] /\ known' \in [Servers -> SUBSET Blocks]
    BY <2>1 DEF TypeOK, NewHead
  <2> QED  BY <1>1, <2>1, <2>2, <2>3 DEF TypeOK
<1>3. CacheInv' /\ OriginInv' /\ CallInv'
  BY <1>1 DEF IInv, CacheInv, OriginInv, CallInv
<1>4. SenderOfInclusion' /\ SignatureIsOwners' /\ BlockIsWhole' /\ FastPath'
  BY <1>1 DEF IInv, SenderOfInclusion, SignatureIsOwners, BlockIsWhole, FastPath
<1> QED  BY <1>2, <1>3, <1>4 DEF IInv

LEMMA StutterKeeps == ASSUME IInv, UNCHANGED vars PROVE IInv'
<1>1. UNCHANGED <<head, known, heads, fetched, origin, cache, at, job, block, listed, got>>
  BY DEF vars, chainVars, txVars, callVars
<1>2. TypeOK' /\ CacheInv' /\ OriginInv' /\ CallInv'
  BY <1>1 DEF IInv, TypeOK, CacheInv, OriginInv, CallInv
<1>3. SenderOfInclusion' /\ SignatureIsOwners' /\ BlockIsWhole' /\ FastPath'
  BY <1>1 DEF IInv, SenderOfInclusion, SignatureIsOwners, BlockIsWhole, FastPath
<1> QED  BY <1>2, <1>3 DEF IInv

\* The invariant is inductive: besides the properties it says what the cache
\* holds, what it has of the transaction's origin, and what each call waits for.
THEOREM Inductive == Spec => []IInv
<1>1. IInv /\ [Next]_vars => IInv'
  <2> SUFFICES ASSUME IInv, [Next]_vars PROVE IInv'
    OBVIOUS
  <2>1. CASE FetchTransaction
    BY <2>1, FetchTransactionKeeps
  <2>2. ASSUME NEW q \in Callers, NEW b \in Blocks, AskSender(q, b) PROVE IInv'
    BY <2>2, AskSenderKeeps
  <2>3. ASSUME NEW q \in Callers, AnswerSender(q) \/ Recover(q) \/ StoreSigned(q) PROVE IInv'
    BY <2>3, AnswerSenderKeeps, RecoverKeeps, StoreSignedKeeps
  <2>4. ASSUME NEW q \in Callers, RequestBlock(q) \/ RequestUncles(q) \/ ShareFromBlock(q)
        PROVE  IInv'
    BY <2>4, RequestBlockKeeps, RequestUnclesKeeps, ShareFromBlockKeeps
  <2>5. ASSUME NEW s \in Servers, NewHead(s) PROVE IInv'
    BY <2>5, NewHeadKeeps
  <2>6. CASE UNCHANGED vars
    BY <2>6, StutterKeeps
  <2> QED  BY <2>1, <2>2, <2>3, <2>4, <2>5, <2>6 DEF Next
<1> QED  BY <1>1, InitHolds, PTL DEF Spec

\* Every variable keeps its type; the cache never holds the zero address.
THEOREM TypeCorrect == Spec => []TypeOK
<1>1. IInv => TypeOK
  BY DEF IInv
<1> QED  BY <1>1, Inductive, PTL

\* TransactionSender returns the sender at the inclusion it was asked about.
THEOREM SenderOfInclusionHolds == Spec => []SenderOfInclusion
<1>1. IInv => SenderOfInclusion
  BY DEF IInv
<1> QED  BY <1>1, Inductive, PTL

\* types.Sender returns the owner of the signature, whatever a server claimed.
THEOREM SignatureIsOwnersHolds == Spec => []SignatureIsOwners
<1>1. IInv => SignatureIsOwners
  BY DEF IInv
<1> QED  BY <1>1, Inductive, PTL

\* getBlock returns a whole block, and no mixture of two.
THEOREM BlockIsWholeHolds == Spec => []BlockIsWhole
<1>1. IInv => BlockIsWhole
  BY DEF IInv
<1> QED  BY <1>1, Inductive, PTL

\* TransactionSender spares the RPC for the block the transaction came from.
THEOREM FastPathHolds == Spec => []FastPath
<1>1. IInv => FastPath
  BY DEF IInv
<1> QED  BY <1>1, Inductive, PTL
=============================================================================
