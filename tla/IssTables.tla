------------------------------- MODULE IssTables -------------------------------
(***************************************************************************)
(* The columnar tables of ISS: internal/iss/table.go.                      *)
(*                                                                         *)
(* A response is a function from block names to blocks; a table has its    *)
(* column names and rows of JSON cells.  A cell says in which form its     *)
(* value v is written; "digits" is a whole number in quotes.  What is not  *)
(* in the response, or null, stays Zero, whatever the kind of the field.   *)
(***************************************************************************)
EXTENDS Naturals, SequencesExt

CONSTANT Zero    \* the zero value of a field: "", 0 or 0.0

JsonForms == {"null", "text", "digits", "number", "fraction", "other"}

\* A block that does not unmarshal, or has no columns, is no table.
NoTable == [table |-> FALSE]

Table(columns, data) == [table |-> TRUE, columns |-> columns, data |-> data]

\* ParseResponse, of a body that is JSON.
ParseResponse(body) == [name \in {n \in DOMAIN body : body[n].table} |-> body[name]]

\* resp[name]: the zero Table if there is none.
Block(resp, name) == IF name \in DOMAIN resp THEN resp[name] ELSE Table(<<>>, <<>>)

\* columnIndex: of columns with the same name the last one counts.
ColumnIndex(columns) ==
  [c \in ToSet(columns) |->
     CHOOSE i \in DOMAIN columns :
       columns[i] = c /\ \A j \in DOMAIN columns : columns[j] = c => j <= i]

\* setField: the forms from which a field of each kind takes its value; a string
\* falls back to the raw text.
Accepted == [string |-> JsonForms, int |-> {"number", "digits"}, float |-> {"number", "fraction"}]

\* ScanInto: fields maps the tags of a struct to the kinds of its fields.
ScanInto(t, fields) ==
  LET idx == ColumnIndex(t.columns)
      Given(row, f) == /\ f \in DOMAIN idx /\ idx[f] <= Len(row)
                       /\ row[idx[f]].json # "null"
      Element(row) == [f \in DOMAIN fields |-> IF Given(row, f) THEN row[idx[f]].v ELSE Zero]
  IN  IF \E r \in DOMAIN t.data : \E f \in DOMAIN fields :
           Given(t.data[r], f) /\ t.data[r][idx[f]].json \notin Accepted[fields[f]]
      THEN [err |-> TRUE]
      ELSE [err |-> FALSE, rows |-> [r \in DOMAIN t.data |-> Element(t.data[r])]]
=============================================================================
