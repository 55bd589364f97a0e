-------------------------------- MODULE Rows --------------------------------
(***************************************************************************)
(* Soft-deletable rows, as shared/repository.py and SQLAlchemy treat them: *)
(* presence and is_active in one field, PATCH bodies with absent fields,   *)
(* and UPDATEs that write the changed columns only.                        *)
(***************************************************************************)
CONSTANT Unset  \* a field the PATCH body does not carry (exclude_unset)

RowState == {"absent", "active", "inactive"}

IsActive(row) == row.row = "active"

\* data.model_dump(exclude_unset=True) followed by setattr: an absent field
\* keeps the value of the row.
OrKeep(given, kept) == IF given = Unset THEN kept ELSE given

\* Mutant of Merge: the UPDATE writes every column it has read.
MutMergeWholeRow(loaded, wanted, current) == wanted

\* What an UPDATE leaves in the row: the columns whose value differs from the
\* one the session loaded, over the row as it is when the lock is granted.
Merge(loaded, wanted, current) ==
    [f \in DOMAIN current |-> IF wanted[f] # loaded[f] THEN wanted[f] ELSE current[f]]
=============================================================================
