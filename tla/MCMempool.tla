------------------------------- MODULE MCMempool -------------------------------
EXTENDS Mempool

MCTx      == {"t1", "t2", "t3", "t4", "t5", "t6"}
MCRootOut == {<<"g", 0>>, <<"g", 1>>}

\* t1, t2, t3: parent, child and a child of both; t4 conflicts with t1;
\* t5 spends the coinbase of A1; t6 has a relative lock on an output of t1.
MCTxIn ==
    [t1 |-> {<<"g", 0>>}, t2 |-> {<<"t1", 0>>}, t3 |-> {<<"t1", 1>>, <<"t2", 0>>},
     t4 |-> {<<"g", 0>>, <<"g", 1>>}, t5 |-> {<<"A1", 0>>, <<"g", 1>>}, t6 |-> {<<"t1", 2>>}]
MCNOut == [t1 |-> 3, t2 |-> 1, t3 |-> 1, t4 |-> 1, t5 |-> 1, t6 |-> 1]
MCFee  == [t1 |-> 1, t2 |-> 4, t3 |-> 2, t4 |-> 3, t5 |-> 2, t6 |-> 3]
MCSize == [t1 |-> 1, t2 |-> 1, t3 |-> 2, t4 |-> 1, t5 |-> 1, t6 |-> 1]
MCLockTime == [t1 |-> 0, t2 |-> 0, t3 |-> 1, t4 |-> 0, t5 |-> 0, t6 |-> 0]
MCSeqLock  == [t1 |-> NoLock, t2 |-> NoLock, t3 |-> NoLock, t4 |-> NoLock, t5 |-> NoLock, t6 |-> 1]
MCVersion1 == {"t2", "t5"}

MCBlock == {"A1", "A2", "B1", "B2", "C1", "D1"}
MCPrev  == [A1 |-> Root, A2 |-> "A1", B1 |-> Root, B2 |-> "B1", C1 |-> Root, D1 |-> Root]
MCVtx   == [A1 |-> <<"t1", "t2">>, A2 |-> << >>, B1 |-> <<"t4">>, B2 |-> << >>, C1 |-> <<"t1">>,
            D1 |-> << >>]
================================================================================
