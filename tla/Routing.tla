------------------------------- MODULE Routing -------------------------------
(***************************************************************************)
(* Which providers a request is sent to: the routes of the MultiRpcClient  *)
(* (rpc/multi_client.go), the allow-list of reads that may be duplicated   *)
(* (rpc/multi_client_calls.go), and the requests the typed client makes    *)
(* (eth/client.go), which rely on both.                                    *)
(***************************************************************************)
EXTENDS Selection

\* A request: the operation it is made by, and the RPC methods in it.
Call(m)   == [kind |-> "call", methods |-> <<m>>]
Batch(ms) == [kind |-> "batch", methods |-> ms]
Notify(m) == [kind |-> "notify", methods |-> <<m>>]
Subscribe == [kind |-> "subscribe", methods |-> <<"eth_subscribe">>]
SupportedModules == [kind |-> "modules", methods |-> <<"rpc_modules">>]

Raw == "eth_sendRawTransaction"

\* The methods that end in subscribeMethodSuffix.
Subscribes(m) == m \in {"eth_subscribe", "shh_subscribe", "debug_subscribe"}

\* The requests the methods of a MultiRpcClient take.
IsRequest(r) ==
  /\ r \in [kind : {"call", "batch", "notify", "subscribe", "modules"}, methods : Seq(STRING)]
  /\ r.kind \in {"call", "notify", "subscribe"} => Len(r.methods) = 1
  /\ r.kind = "subscribe" => Subscribes(r.methods[1])
  /\ r.kind = "modules" => r = SupportedModules

\* Seeded fault: the method of the second request of getBlock is left out.
UnclesForgotten ==
  {"eth_call", "eth_estimateGas", "eth_chainId", "eth_blockNumber", "eth_getBlockByHash",
   "eth_getBlockByNumber", "eth_getBalance", "eth_getLogs"}

\* parallelReadMethod.
ParallelReads ==
  {"eth_call", "eth_estimateGas", "eth_createAccessList", "debug_traceCall", "eth_chainId",
   "eth_blockNumber", "eth_syncing", "eth_gasPrice", "eth_maxPriorityFeePerGas",
   "eth_feeHistory", "eth_getBalance", "eth_getCode", "eth_getStorageAt", "eth_getProof",
   "eth_getTransactionCount", "eth_getBlockByHash", "eth_getBlockByNumber",
   "eth_getBlockReceipts", "eth_getBlockTransactionCountByHash",
   "eth_getBlockTransactionCountByNumber", "eth_getUncleByBlockHashAndIndex",
   "eth_getUncleByBlockNumberAndIndex", "eth_getUncleCountByBlockHash",
   "eth_getUncleCountByBlockNumber", "eth_getTransactionByHash",
   "eth_getTransactionByBlockHashAndIndex", "eth_getTransactionByBlockNumberAndIndex",
   "eth_getTransactionReceipt", "eth_getLogs", "net_version", "net_peerCount",
   "net_listening", "rpc_modules", "web3_clientVersion", "web3_sha3"}

\* CallContext.
CallRoute(m, parallelCalls) ==
  IF m = Raw THEN "broadcast"
  ELSE IF parallelCalls /\ m \in ParallelReads THEN "weighted" ELSE "single"

\* Seeded fault: one read makes the whole batch a read.
OneReadDecides(ms, parallelCalls) ==
  IF parallelCalls /\ ToSet(ms) \cap ParallelReads # {} THEN "weighted" ELSE "single"

\* BatchCallContext: all of its methods must be reads.
BatchRoute(ms, parallelCalls) ==
  IF parallelCalls /\ ms # <<>> /\ \A m \in ToSet(ms) : m \in ParallelReads /\ ~Subscribes(m)
    THEN "weighted" ELSE "single"

Route(r, parallelCalls) ==
  CASE r.kind = "call" -> CallRoute(r.methods[1], parallelCalls)
    [] r.kind = "batch" -> BatchRoute(r.methods, parallelCalls)
    [] r.kind = "modules" -> "inTurn"
    [] OTHER -> "single"

\* Seeded fault: a batch is judged by its first method.
FirstElement(r) == r.methods # <<>> /\ Subscribes(r.methods[1])

SubscriptionRelated(r) == r.kind = "subscribe" \/ \E m \in ToSet(r.methods) : Subscribes(m)

\* SupportedModules asks the readers of the list in turn, whatever their flags,
\* until one of them fails or was the last.
InTurn(order) ==
  {{order[i] : i \in 1..k} \ SendOnly : k \in {i \in DOMAIN order : order[i] \notin SendOnly}}

\* The sets of providers that request r can be sent to by a client with the given
\* pool: everyone at once, all eligible clients at once, some in turn, or one.
Recipients(r, parallelCalls, pool, Scale) ==
  LET route == Route(r, parallelCalls)
      cands == EligibleClients(pool.enabled, SubscriptionRelated(r), FALSE)
  IN CASE route = "broadcast" -> {EligibleClients(pool.enabled, FALSE, TRUE)}
       [] route = "weighted" -> {cands}
       [] route = "inTurn" -> InTurn(pool.order)
       [] OTHER -> {IF cands = {} THEN {}
                    ELSE {Choice(pool, cands, SubscriptionRelated(r), Scale)}}

-----------------------------------------------------------------------------
(* The requests of the typed client (eth/client.go), by the name of the    *)
(* method that makes them, or of a run of methods of one kind.             *)

ChainReads ==
  {"eth_chainId", "eth_getBlockByHash", "eth_getBlockByNumber", "eth_blockNumber",
   "net_peerCount", "eth_getBlockReceipts"}
HeaderReads == {"eth_getBlockByHash", "eth_getBlockByNumber"}
TransactionByHash == {"eth_getTransactionByHash"}
TransactionSender == {"eth_getTransactionByBlockHashAndIndex"}
BlockTransactions ==
  {"eth_getBlockTransactionCountByHash", "eth_getTransactionByBlockHashAndIndex"}
TransactionReceipt == {"eth_getTransactionReceipt"}
SyncProgress == {"eth_syncing"}
NetworkID == {"net_version"}
AccountReads == {"eth_getBalance", "eth_getStorageAt", "eth_getCode", "eth_getTransactionCount"}
FilterLogs == {"eth_getLogs"}
PendingReads == AccountReads \cup {"eth_getBlockTransactionCountByNumber"}
ContractCalls == {"eth_call"}
GasPrices == {"eth_gasPrice", "eth_maxPriorityFeePerGas"}
FeeHistory == {"eth_feeHistory"}
EstimateGas == {"eth_estimateGas"}

TypedMethods ==
  UNION {ChainReads, HeaderReads, TransactionByHash, TransactionSender, BlockTransactions,
         TransactionReceipt, SyncProgress, NetworkID, AccountReads, FilterLogs, PendingReads,
         ContractCalls, GasPrices, FeeHistory, EstimateGas}

\* getBlock's second request: one element per uncle.
UncleBatches == {Batch(<<"eth_getUncleByBlockHashAndIndex">>),
                 Batch(<<"eth_getUncleByBlockHashAndIndex", "eth_getUncleByBlockHashAndIndex">>)}

TypedReads == UncleBatches \cup {Call(m) : m \in TypedMethods}
TypedSubscriptions == {Subscribe}
SendTransaction == Call(Raw)
=============================================================================
