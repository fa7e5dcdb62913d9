------------------------------ MODULE EthClient ------------------------------
(***************************************************************************)
(* The typed client (eth/client.go) where one method is more than one RPC: *)
(* getBlock, whose two requests may be answered by different providers in  *)
(* the midst of a reorganisation, and the sender cache (eth/signer.go),    *)
(* which TransactionByHash, TransactionInBlock and getBlock fill,          *)
(* TransactionSender reads, and types.Sender of go-ethereum shares.        *)
(*                                                                         *)
(* The blocks compete for one height; Tx is the transaction whose sender   *)
(* is asked for.  A block says who sent its transactions by the rules of   *)
(* the protocol at its inclusion, which need not be the signature's owner. *)
(***************************************************************************)
EXTENDS Integers, FiniteSets, Sequences

CONSTANTS
  Servers,    \* providers
  Callers,    \* goroutines that make one call each
  Blocks,     \* block hashes
  Body,       \* the transactions of a block, each with its sender
  Uncles,     \* the uncle headers of a block
  Tx,         \* the transaction
  Addresses, Zero,   \* addresses, the zero address among them
  Signed,     \* who signed Tx
  Signature,  \* the signer of types.LatestSigner, as a key of the cache
  None,       \* no value
  MaxHeads    \* bound on the changes of the providers' heads

HasTx(b) == \E i \in DOMAIN Body[b] : Body[b][i].tx = Tx
SenderIn(b) == Body[b][CHOOSE i \in DOMAIN Body[b] : Body[b][i].tx = Tx].from

ASSUME EthAssumption ==
  /\ \A b \in Blocks :
       /\ \A i \in DOMAIN Body[b] : Body[b][i].from \in Addresses
       /\ \A i, j \in DOMAIN Body[b] : Body[b][i].tx = Body[b][j].tx => i = j
  /\ Zero \in Addresses /\ Signed \in Addresses \ {Zero}
  /\ Signature \notin Blocks /\ None \notin Blocks \cup {Signature}
  /\ None \notin [signer : Blocks \cup {Signature}, from : Addresses]
  /\ MaxHeads \in Nat

VARIABLES
  head,     \* the canonical block of each provider
  known,    \* the blocks each provider can serve by hash
  heads,    \* how often a head has changed
  fetched,  \* the callers share a *types.Transaction of Tx
  origin,   \* the block it was said to be in, with its sender, when it was fetched
  cache,    \* its sender cache: a signer and an address, or None
  at,       \* where each caller is, or how its call returned
  job,      \* what it calls
  block,    \* the block it asks about, or has been given
  listed,   \* getBlock: the parts of its block it has so far
  got       \* the sender it returns

chainVars == <<head, known, heads>>
txVars    == <<fetched, origin, cache>>
callVars  == <<at, job, block, listed, got>>
vars == <<chainVars, txVars, callVars>>

Returned == {"ok", "error"}

\* The transactions of a block, and the uncle headers of one.
Lists == {<<>>} \cup ({Body[b] : b \in Blocks} \X ({<<>>} \cup {Uncles[b] : b \in Blocks}))

TypeOK ==
  /\ head \in [Servers -> Blocks] /\ known \in [Servers -> SUBSET Blocks]
  /\ heads \in 0..MaxHeads
  /\ fetched \in BOOLEAN /\ origin \in Blocks \cup {None}
  /\ cache = None \/ cache \in [signer : Blocks \cup {Signature}, from : Addresses \ {Zero}]
  /\ at \in [Callers -> {"new", "ask", "store", "uncles"} \cup Returned]
  /\ job \in [Callers -> {"none", "sender", "signature", "block"}]
  /\ block \in [Callers -> Blocks \cup {None}]
  /\ listed \in [Callers -> Lists]
  /\ got \in [Callers -> Addresses \cup {None}]

Init ==
  /\ head \in [Servers -> Blocks] /\ known = [s \in Servers |-> {head[s]}]
  /\ heads = 0
  /\ fetched = FALSE /\ origin = None /\ cache = None
  /\ at = [q \in Callers |-> "new"] /\ job = [q \in Callers |-> "none"]
  /\ block = [q \in Callers |-> None]
  /\ listed = [q \in Callers |-> <<>>]
  /\ got = [q \in Callers |-> None]

Return(q, how) == at' = [at EXCEPT ![q] = how]

-----------------------------------------------------------------------------
(* The sender cache.                                                       *)

\* Seeded fault: the cache is not keyed by the block.
AnyBlock(cached, asked) == cached = asked \/ {cached, asked} \subseteq Blocks

\* Seeded fault: the type assertion of Equal is not checked.
AnySigner(cached, asked) == TRUE

\* senderFromServer.Equal: a sender the server gave for the same block.  The
\* signer of types.LatestSigner equals only itself.
Equal(cached, asked) == cached = asked

\* Seeded fault: the sender is stored without its block.
ForgetsBlock(b, from) == IF from = Zero THEN None ELSE [signer |-> None, from |-> from]

\* setSenderFromServer, on a fresh transaction: types.Sender stores what
\* senderFromServer.Sender returns, unless that is errNotCached.
SenderFromServer(b, from) == IF from = Zero THEN None ELSE [signer |-> b, from |-> from]

\* types.Sender's first step: what the cache has for a signer.
Hit(signer) == cache # None /\ Equal(cache.signer, signer)

\* The callers get their transaction: included in b, from the sender the server
\* names, or without these particulars.
TransactionFrom(b) ==
  /\ fetched' = TRUE
  /\ \/ origin' = b /\ cache' = SenderFromServer(b, SenderIn(b))
     \/ UNCHANGED <<origin, cache>>

\* TransactionByHash: pending, or in the canonical block of a server, or in a
\* block named by the caller: TransactionInBlock.
FetchTransaction ==
  /\ ~fetched
  /\ \/ \E s \in Servers : \E b \in known[s] : HasTx(b) /\ TransactionFrom(b)
     \/ fetched' = TRUE /\ UNCHANGED <<origin, cache>>
  /\ UNCHANGED <<chainVars, callVars>>

\* TransactionSender looks into the cache ...
AskSender(q, b) ==
  /\ at[q] = "new" /\ fetched
  /\ job' = [job EXCEPT ![q] = "sender"]
  /\ block' = [block EXCEPT ![q] = b]
  /\ IF Hit(b) THEN Return(q, "ok") /\ got' = [got EXCEPT ![q] = cache.from]
               ELSE Return(q, "ask") /\ UNCHANGED got
  /\ UNCHANGED <<chainVars, txVars, listed>>

\* Seeded fault: whatever transaction is at the index will do.
NoHashCheck(meta) == TRUE

\* The server's answer names the transaction; null has an empty hash.
RightTransaction(meta) == meta.tx = Tx

\* ... and asks a server for the transaction at an index of the block.
AnswerSender(q) ==
  /\ at[q] = "ask"
  /\ \/ \E s \in Servers : \E i \in DOMAIN Body[block[q]] :
          /\ block[q] \in known[s]
          /\ RightTransaction(Body[block[q]][i])
          /\ Return(q, "ok")
          /\ got' = [got EXCEPT ![q] = Body[block[q]][i].from]
     \/ Return(q, "error") /\ UNCHANGED got
  /\ UNCHANGED <<chainVars, txVars, job, block, listed>>

\* A user's types.Sender(types.LatestSigner(..), tx) looks into the same cache ...
Recover(q) ==
  /\ at[q] = "new" /\ fetched
  /\ job' = [job EXCEPT ![q] = "signature"]
  /\ IF Hit(Signature) THEN Return(q, "ok") /\ got' = [got EXCEPT ![q] = cache.from]
                       ELSE Return(q, "store") /\ UNCHANGED got
  /\ UNCHANGED <<chainVars, txVars, block, listed>>

\* ... and overwrites it.
StoreSigned(q) ==
  /\ at[q] = "store"
  /\ cache' = [signer |-> Signature, from |-> Signed]
  /\ got' = [got EXCEPT ![q] = Signed]
  /\ Return(q, "ok")
  /\ UNCHANGED <<chainVars, fetched, origin, job, block, listed>>

-----------------------------------------------------------------------------
(* getBlock.                                                               *)

\* Quick-verify: a list is empty exactly when the header says so.
Verified(b, uncles, txs) ==
  /\ Uncles[b] = <<>> <=> uncles = <<>>
  /\ Body[b] = <<>> <=> txs = <<>>

\* The first request, by number or by hash: a server answers with a header and
\* lists, which it may have dropped, or not at all.
RequestBlock(q) ==
  /\ at[q] = "new"
  /\ job' = [job EXCEPT ![q] = "block"]
  /\ \/ Return(q, "error") /\ UNCHANGED <<block, listed>>
     \/ \E s \in Servers : \E b \in known[s] :
        \E uncles \in {Uncles[b], <<>>}, txs \in {Body[b], <<>>} :
          /\ block' = [block EXCEPT ![q] = b]
          /\ IF ~Verified(b, uncles, txs) THEN Return(q, "error") /\ UNCHANGED listed
             ELSE /\ Return(q, IF uncles = <<>> THEN "ok" ELSE "uncles")
                  /\ listed' = [listed EXCEPT ![q] = <<txs, <<>>>>]
  /\ UNCHANGED <<chainVars, txVars, got>>

\* Seeded fault: the uncles are asked for by the block's number.
AtItsHeight(s, b) == head[s]

\* The block whose uncles server s is asked for: the one whose hash it was told.
UnclesOf(s, b) == b

\* The second request, a batch to one server, which may not have the block; null
\* for an uncle is an error.  The transactions come with their senders.
RequestUncles(q) ==
  /\ at[q] = "uncles"
  /\ \/ Return(q, "error") /\ UNCHANGED listed
     \/ \E s \in Servers :
          /\ UnclesOf(s, block[q]) \in known[s]
          /\ Return(q, "ok")
          /\ listed' = [listed EXCEPT ![q] = <<@[1], Uncles[UnclesOf(s, block[q])]>>]
  /\ UNCHANGED <<chainVars, txVars, job, block, got>>

\* The caller shares the transaction of the block it was given.
ShareFromBlock(q) ==
  /\ ~fetched
  /\ at[q] = "ok" /\ job[q] = "block" /\ HasTx(block[q])
  /\ TransactionFrom(block[q])
  /\ UNCHANGED <<chainVars, callVars>>

-----------------------------------------------------------------------------
\* A server follows another branch, whose blocks it keeps.
NewHead(s) ==
  /\ heads < MaxHeads
  /\ \E b \in Blocks \ {head[s]} :
       /\ head' = [head EXCEPT ![s] = b]
       /\ known' = [known EXCEPT ![s] = @ \cup {b}]
  /\ heads' = heads + 1
  /\ UNCHANGED <<txVars, callVars>>

Next ==
  \/ FetchTransaction
  \/ \E q \in Callers :
       \/ \E b \in Blocks : AskSender(q, b)
       \/ AnswerSender(q) \/ Recover(q) \/ StoreSigned(q)
       \/ RequestBlock(q) \/ RequestUncles(q) \/ ShareFromBlock(q)
  \/ \E s \in Servers : NewHead(s)

Spec == Init /\ [][Next]_vars

-----------------------------------------------------------------------------
(* Properties.                                                             *)

\* The cache holds what the protocol or the signature says, each under its key.
CacheInv ==
  cache # None =>
    \/ cache.signer \in Blocks /\ HasTx(cache.signer) /\ cache.from = SenderIn(cache.signer)
    \/ cache.signer = Signature /\ cache.from = Signed

\* client.go:294: the sender TransactionSender returns is the one derived by the
\* protocol at the inclusion in the block it was asked about, although a
\* reorganisation has moved the transaction to another block and other callers
\* overwrite the cache.
SenderOfInclusion ==
  \A q \in Callers : at[q] = "ok" /\ job[q] = "sender" =>
    HasTx(block[q]) /\ got[q] = SenderIn(block[q])

\* What a server claims never passes for the owner of the signature.
SignatureIsOwners ==
  \A q \in Callers : at[q] = "ok" /\ job[q] = "signature" => got[q] = Signed

\* A block is returned with all of its transactions and uncles, and with no other
\* block's, whichever servers answer the two requests.
BlockIsWhole ==
  \A q \in Callers : at[q] = "ok" /\ job[q] = "block" =>
    listed[q] = <<Body[block[q]], Uncles[block[q]]>>

\* client.go:296: the sender in the block a transaction was fetched from needs no
\* RPC, unless a user has derived the signature's owner meanwhile, or the sender
\* is the zero address.
FastPath ==
  \A q \in Callers : at[q] = "ask" /\ block[q] = origin /\ SenderIn(origin) # Zero =>
    \E r \in Callers : at[r] = "ok" /\ job[r] = "signature"

\* What the cache still knows of the block the transaction was fetched from.
OriginInv ==
  /\ ~fetched => origin = None /\ cache = None /\ \A q \in Callers : at[q] \notin {"ask", "store"}
  /\ origin # None => HasTx(origin)
  /\ origin # None /\ SenderIn(origin) # Zero =>
       \/ cache # None /\ cache.signer = origin
       \/ \E r \in Callers : at[r] = "ok" /\ job[r] = "signature"

\* What each caller is in the midst of.
CallInv ==
  \A q \in Callers :
    /\ at[q] = "ask" => job[q] = "sender" /\ block[q] \in Blocks
    /\ at[q] = "store" => job[q] = "signature"
    /\ at[q] = "uncles" =>
         job[q] = "block" /\ block[q] \in Blocks /\ listed[q] = <<Body[block[q]], <<>>>>
    /\ at[q] = "ok" /\ job[q] \in {"sender", "block"} => block[q] \in Blocks

\* The inductive invariant of the typed client.
IInv ==
  /\ TypeOK /\ CacheInv /\ OriginInv /\ CallInv
  /\ SenderOfInclusion /\ SignatureIsOwners /\ BlockIsWhole /\ FastPath
=============================================================================
