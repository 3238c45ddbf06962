-------------------------- MODULE NosanaNodesProofs --------------------------
(* A node is registered with known and sufficient properties only. *)
EXTENDS NosanaNodes, TLAPS

\* What update accepts is known, although the country is compared as a byte.
LEMMA AcceptedIsKnown ==
  ASSUME NEW t, NEW c, NEW has, Accepts(t, c, has)
  PROVE  /\ c \in Countries /\ t \in Architectures
         /\ \A r \in Resources \ {"gpu"} : has[r] > 0
BY DEF Accepts, KnownCountry, CountryCode, ArchitectureType, AsU8, UnknownCountry,
       UnknownArchitecture

\* The accounts are functions of the operators' records.
NodeType == [registered: BOOLEAN, audited: BOOLEAN,
             architecture: ArchitectureInputs \cup {0},
             country: CountryInputs \cup {0},
             has: [Resources -> Quantities \cup {0}]]

NodesShape == node \in [Authorities -> NodeType]

NodesIInv == NodesShape /\ RegisteredIsValid

LEMMA NodesInit == Init => NodesIInv
BY DEF Init, NodesIInv, NodesShape, NodeType, RegisteredIsValid, NoNode, IsRegistered

LEMMA NodesStep == NodesIInv /\ [Next]_node => NodesIInv'
<1>. SUFFICES ASSUME NodesIInv, [Next]_node PROVE NodesIInv'
  OBVIOUS
<1>1. ASSUME NEW a \in Authorities, NEW t \in ArchitectureInputs,
             NEW c \in CountryInputs, NEW has \in [Resources -> Quantities],
             Register(a, t, c, has) \/ Update(a, t, c, has)
      PROVE  NodesIInv'
  <2>1. /\ c \in Countries /\ t \in Architectures
        /\ \A r \in Resources \ {"gpu"} : has[r] > 0
    BY <1>1, AcceptedIsKnown DEF Register, Update
  <2>2. has \in [Resources -> Quantities \cup {0}]
    OBVIOUS
  <2>3. NodesShape'
    <3>1. CASE Register(a, t, c, has)
      <4>1. [registered |-> TRUE, audited |-> FALSE, architecture |-> t,
             country |-> c, has |-> has] \in NodeType
        BY <2>2 DEF NodeType
      <4>. QED  BY <3>1, <4>1 DEF NodesIInv, NodesShape, Register
    <3>2. CASE Update(a, t, c, has)
      <4>1. [node[a] EXCEPT !.architecture = t, !.country = c, !.has = has]
              \in NodeType
        BY <2>2 DEF NodesIInv, NodesShape, NodeType
      <4>2. node' = [node EXCEPT ![a] = [node[a] EXCEPT !.architecture = t,
                                                        !.country = c,
                                                        !.has = has]]
        BY <3>2 DEF NodesIInv, NodesShape, NodeType, Update
      <4>. QED  BY <4>1, <4>2 DEF NodesIInv, NodesShape
    <3>. QED  BY <1>1, <3>1, <3>2
  <2>4. /\ \A b \in Authorities \ {a} : node'[b] = node[b]
        /\ node'[a].country = c /\ node'[a].architecture = t /\ node'[a].has = has
    BY <1>1 DEF NodesIInv, NodesShape, NodeType, Register, Update
  <2>5. RegisteredIsValid'
    BY <2>1, <2>4 DEF NodesIInv, RegisteredIsValid, IsRegistered
  <2>. QED  BY <2>3, <2>5 DEF NodesIInv
<1>2. ASSUME NEW a \in Authorities, NEW s \in Signers, NEW audited \in BOOLEAN,
             Audit(s, a, audited)
      PROVE  NodesIInv'
  BY <1>2 DEF NodesIInv, NodesShape, NodeType, RegisteredIsValid, Audit, IsRegistered
<1>3. CASE UNCHANGED node
  BY <1>3 DEF NodesIInv, NodesShape, RegisteredIsValid, IsRegistered
<1>. QED  BY <1>1, <1>2, <1>3 DEF Next

\* Whatever codes there are beside the reserved ones, a registered node has a
\* known country and architecture and has passed the checks of four resources:
\* the cast to a byte lets no unknown country in (but keeps a known one out,
\* CountriesCanRegister).  Of the GPUs it says nothing (GpusAreDeclared).
THEOREM NodesAreValid == Spec => []RegisteredIsValid
<1>1. NodesIInv => RegisteredIsValid
  BY DEF NodesIInv
<1>. QED  BY <1>1, NodesInit, NodesStep, PTL DEF Spec
=============================================================================
