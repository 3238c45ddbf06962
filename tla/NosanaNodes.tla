----------------------------- MODULE NosanaNodes -----------------------------
(***************************************************************************)
(* The nosana-nodes program: node operators register the properties of     *)
(* their node and change them later; an auditor marks nodes.  Names,       *)
(* addresses and versions of a node are not modelled.                      *)
(***************************************************************************)
EXTENDS Integers

CONSTANTS
  Authorities,      \* operators, each with one node account
  Signers,          \* wallets that sign: operators and others
  Auditor,          \* id::AUTHORITY
  Countries,        \* the ISO codes in CountryCode, without Unknown
  Architectures,    \* the numbers in ArchitectureType, without Unknown
  CountryInputs,    \* countries an operator may state: any u16
  ArchitectureInputs, \* architectures an operator may state: any u8
  Quantities        \* numbers an operator may state

VARIABLES
  node      \* NodeAccount of each operator

-----------------------------------------------------------------------------
UnknownCountry == 999
UnknownArchitecture == 255

Resources == {"cpu", "gpu", "memory", "iops", "storage"}

NoNode == [registered |-> FALSE, audited |-> FALSE, architecture |-> 0,
           country |-> 0, has |-> [r \in Resources |-> 0]]

IsRegistered(a) == node[a].registered

\* CountryCode::from, ArchitectureType::from
CountryCode(c) == IF c \in Countries THEN c ELSE UnknownCountry
ArchitectureType(t) == IF t \in Architectures THEN t ELSE UnknownArchitecture

\* The cast of an enum with u16 numbers to u8 keeps the low byte.
AsU8(n) == n % 256

KnownCountry(country) == AsU8(CountryCode(country)) # AsU8(UnknownCountry)

\* What NodeAccount::update accepts.  The GPUs are compared with >= 0, which
\* every unsigned number is.
Accepts(architecture, country, has) ==
  /\ ArchitectureType(architecture) # UnknownArchitecture
  /\ KnownCountry(country)
  /\ \A r \in Resources \ {"gpu"} : has[r] > 0

-----------------------------------------------------------------------------
Init == node = [a \in Authorities |-> NoNode]

Register(a, architecture, country, has) ==
  /\ ~ IsRegistered(a)
  /\ Accepts(architecture, country, has)
  /\ node' = [node EXCEPT ![a] =
                [registered |-> TRUE, audited |-> FALSE,
                 architecture |-> architecture, country |-> country,
                 has |-> has]]

\* The audit of the node stays as it is.
Update(a, architecture, country, has) ==
  /\ IsRegistered(a)
  /\ Accepts(architecture, country, has)
  /\ node' = [node EXCEPT ![a].architecture = architecture,
                          ![a].country = country, ![a].has = has]

Audit(signer, a, audited) ==
  /\ IsRegistered(a)
  /\ signer = Auditor
  /\ node' = [node EXCEPT ![a].audited = audited]

Next ==
  \E a \in Authorities :
    \/ \E t \in ArchitectureInputs, c \in CountryInputs,
          has \in [Resources -> Quantities] :
         Register(a, t, c, has) \/ Update(a, t, c, has)
    \/ \E s \in Signers, audited \in BOOLEAN : Audit(s, a, audited)

Spec == Init /\ [][Next]_node

-----------------------------------------------------------------------------
(* Safety *)

\* What a registered node has been checked for: a known country and architecture,
\* although the country is compared after a cast that drops its high byte, and
\* something of every resource whose check can fail.
RegisteredIsValid ==
  \A a \in Authorities : IsRegistered(a) =>
    /\ node[a].country \in Countries
    /\ node[a].architecture \in Architectures
    /\ \A r \in Resources \ {"gpu"} : node[a].has[r] > 0

(* What the documentation says and the code does not do *)

\* errors.rs, docs/nodes.md: "GPU value must be greater than zero".  A node that
\* is registered or updated has declared a GPU.
GpusAreDeclared == \A a \in Authorities : IsRegistered(a) => node[a].has["gpu"] > 0

\* errors.rs, docs/nodes.md: a node is rejected because its "country does not
\* exist".  An operator in a country that exists can register some node.
CountriesCanRegister ==
  \A a \in Authorities, c \in Countries :
    ~ IsRegistered(a) =>
      ENABLED \E t \in ArchitectureInputs, has \in [Resources -> Quantities] :
                Register(a, t, c, has)
=============================================================================
