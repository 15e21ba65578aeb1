----------------------------- MODULE TableForms -----------------------------
(***************************************************************************)
(* What a migration and a model say of a table: its columns by what an     *)
(* insert may leave out, what they refer to and how a deletion follows the *)
(* reference, what is unique, which values are admitted and what has an    *)
(* index.  Column types, lengths and the names the shared convention gives *)
(* a constraint (db/base.py) are left out.                                 *)
(***************************************************************************)
EXTENDS Naturals, Sequences, FiniteSets

\* Columns of every table: the key and the time of insertion (IdMixin, CreatedAtMixin).
Fact == {"id", "created_at"}

\* Columns of a row that changes (ActiveMixin, TimestampMixin).
Mutable == Fact \cup {"active", "updated_at"}

\* needed: an insert must give it; defaulted: the database fills it in;
\* optional: it may stay null.
Table(needed, defaulted, optional, refs, unique, checks, indexes) ==
  [needed |-> needed, defaulted |-> defaulted, optional |-> optional, refs |-> refs,
   unique |-> unique, checks |-> checks, indexes |-> indexes]

Columns(table) == table.needed \cup table.defaulted \cup table.optional

\* A reference whose target cannot be deleted, and one that is deleted with it.
RefersTo(column, table) == <<column, table, "RESTRICT">>
OwnedBy(column, table) == <<column, table, "CASCADE">>
Parents(table) == {ref[2] : ref \in table.refs}

\* Value checks: the column, the rule's name, what it admits.
NonNegative(column) == <<column, "non_negative", {">= 0"}>>
AboveZero(column)   == <<column, "positive", {"> 0"}>>
FromOne(column)     == <<column, "positive", {">= 1"}>>
OneOf(column, known) == <<column, "known", known>>
NullOrNonNegative(column) == <<column, "non_negative", {"null", ">= 0"}>>
UnitInterval(column, admitted) == <<column, "unit_interval", {"0..1"} \cup admitted>>
ThreeLetters(column) == <<column, "iso", {"length 3"}>>
Rule(name, admits) == <<name, "rule", admits>>

One(column) == <<column>>                                    \* a key of one column
Indexed(columns) == {<<c, One(c)>> : c \in columns}          \* an index on each, named for it
IndexNames(table) == {index[1] : index \in table.indexes}
=============================================================================
