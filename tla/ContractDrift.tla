---------------------------- MODULE ContractDrift ----------------------------
(***************************************************************************)
(* When a change of a contract's JSON schema breaks version 1:             *)
(* scripts/classify_contract_drift.py, beside what a reader of documents   *)
(* makes of a schema.                                                      *)
(*                                                                         *)
(* A schema has the names of its properties, those it requires, and for    *)
(* each property the types and the enum values it lists; an empty set      *)
(* stands for a key that is absent, as .get() has it.  A document gives a  *)
(* field's type and value.                                                 *)
(***************************************************************************)

\* A schema over these names, types and values.
IsSchema(s, Names, Types, Values) ==
  /\ s.props \subseteq Names /\ s.req \subseteq s.props
  /\ s.types \in [s.props -> SUBSET Types]
  /\ s.enum \in [s.props -> SUBSET Values]

\* What a validator does with a document; unknown fields are forbidden in every
\* contract (scripts/contract_lint.py insists on it).
Accepts(s, doc) ==
  /\ s.req \subseteq DOMAIN doc
  /\ DOMAIN doc \subseteq s.props
  /\ \A n \in DOMAIN doc :
       /\ s.types[n] # {} => doc[n].type \in s.types[n]
       /\ s.enum[n] # {} => doc[n].value \in s.enum[n]

Surviving(old, new) == old.props \cap new.props

\* The BREAKING deltas, by the classifier's numbering.
Removed(old, new)     == old.props \ new.props
NewlyRequired(old, new) == new.req \ old.req
AddedRequired(old, new) == (new.props \ old.props) \cap new.req

TypeNarrowed(old, new) ==
  {n \in Surviving(old, new) :
     /\ old.types[n] # {} /\ new.types[n] # {}
     /\ old.types[n] \ new.types[n] # {}}

EnumRemoved(old, new) ==
  {n \in Surviving(old, new) : old.enum[n] \ new.enum[n] # {}}

Breaking(old, new) ==
  Removed(old, new) \cup NewlyRequired(old, new) \cup AddedRequired(old, new)
    \cup TypeNarrowed(old, new) \cup EnumRemoved(old, new)

\* What main() prints and exits 0 for.
AdditiveOnly(old, new) == Breaking(old, new) = {}

\* No surviving property that said nothing of its type, or listed no values,
\* does so now: the classifier passes over the one and calls the other additive.
NoNewConstraint(old, new) ==
  \A n \in Surviving(old, new) :
    /\ old.types[n] = {} => new.types[n] = {}
    /\ old.enum[n] = {} => new.enum[n] = {}
=============================================================================
