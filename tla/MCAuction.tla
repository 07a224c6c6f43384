----------------------------- MODULE MCAuction -----------------------------
EXTENDS AuctionAccord

CONSTANTS p1, p2, p3

Deux == <<p1, p2>>
Trois == <<p1, p2, p3>>
=============================================================================
