------------------------------ MODULE MCExchange ------------------------------
\* Addresses of one word, as the CXI provider has: the last group is not full.
EXTENDS Exchange

MCAddress == [r \in Ranks |-> <<r, 16 * r + 3, 255, 129 + r>>]
=============================================================================
