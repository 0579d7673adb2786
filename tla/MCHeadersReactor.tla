-------------------------- MODULE MCHeadersReactor ---------------------------
(***************************************************************************)
(* Small instances of HeadersReactor: a main chain "a" from the genesis    *)
(* block, and a branch "b" that leaves it above height ForkAt.             *)
(***************************************************************************)
EXTENDS HeadersReactor

CONSTANTS TopA, TopB, ForkAt

MCBlock == {<<"a", h>> : h \in 0..TopA} \cup {<<"b", h>> : h \in (ForkAt + 1)..TopB}

MCGenesis == <<"a", 0>>

MCHeight == [b \in MCBlock |-> b[2]]

MCPrev == [b \in MCBlock \ {MCGenesis} |->
              IF b = <<"b", ForkAt + 1>> THEN <<"a", ForkAt>>
              ELSE <<b[1], b[2] - 1>>]

MCChainTo(s) ==
    {b \in MCBlock : b[2] <= s[2] /\ (b[1] = s[1] \/ (b[1] = "a" /\ b[2] <= ForkAt))}

\* Every server has the whole main chain.
TipsAgree == {<<"a", TopA>>}
ChainAgree == [s \in TipsAgree |-> MCChainTo(s)]

\* Two branches compete, at the same height and one ahead.
TipsFork == {<<"a", TopA>>, <<"a", TopA - 1>>, <<"b", TopB>>}
ChainFork == [s \in TipsFork |-> MCChainTo(s)]

\* A table left by an earlier run: the chain of some block, on either branch.
StaleInit ==
    /\ \E s \in Block : rows = [b \in MCChainTo(s) |-> Height[b] + 1]
    /\ UpInit

StaleFairSpec == StaleInit /\ [][Next]_vars /\ Fairness
=============================================================================
