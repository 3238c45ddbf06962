---------------------------- MODULE MCNosanaJobs ----------------------------
(* Small instances of NosanaJobs for TLC. *)
EXTENDS NosanaJobsContract, TLC

CONSTANTS m1, m2, j1, j2, j3, j4, r1, r2, n1, n2, p1, a1, k1

mcUsers == {n1, n2, p1, a1}

mcHoldsNone == [u \in mcUsers |-> {}]
mcXnos == [u \in mcUsers |-> 1]
mcFunds == [u \in mcUsers |-> IF u = p1 THEN 4 ELSE 0]

\* Two nodes; the project also runs the market.
mcUsersLive == {n1, n2, p1}
mcHoldsLive == [u \in mcUsersLive |-> {}]
mcXnosLive == [u \in mcUsersLive |-> 0]
mcFundsLive == [u \in mcUsersLive |-> IF u = p1 THEN 2 ELSE 0]

\* One node; the project also runs the markets.
mcUsersTwo == {n1, p1}
mcHoldsTwo == [u \in mcUsersTwo |-> {}]
mcHoldsKey == [u \in mcUsersTwo |-> {k1}]
mcXnosTwo == [u \in mcUsersTwo |-> 1]
mcFundsOne == [u \in mcUsersTwo |-> IF u = p1 THEN 1 ELSE 0]
mcFundsFour == [u \in mcUsersTwo |-> IF u = p1 THEN 4 ELSE 0]

Term(price, expiration, jobType, key, xnos) ==
  [price |-> price, expiration |-> expiration, jobType |-> jobType,
   accessKey |-> key, xnosMinimum |-> xnos]

\* A job without a price can have a negative timeout.
mcTimeouts == {-1, 1, 2}

\* Nothing to pay and no way to change the terms.
FreeTerms == {Term(0, 0, 0, SystemKey, 0)}

\* One price and no way to change the terms.
PlainTerms == {Term(1, 0, 0, SystemKey, 0)}

\* Free or not: an update changes the price of later jobs only.
PricedTerms == {Term(p, 0, 4, SystemKey, 0) : p \in {0, 2}}

\* Open to every node, with a byte that asks for the restricted flag; free, of
\* unknown job type and for nodes with an NFT of k1 and some xnos only.
AccessTerms == {Term(1, 0, 129, SystemKey, 0), Term(0, 0, 255, k1, 1)}

\* Jobs of one market expire at once, those of the other after a tick.
ExpiringTerms == {Term(0, e, 0, SystemKey, 0) : e \in {-1, 1}}

Symmetric == Permutations(Jobs) \cup Permutations(Runs)
=============================================================================
