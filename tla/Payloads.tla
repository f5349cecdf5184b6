------------------------------ MODULE Payloads ------------------------------
(***************************************************************************)
(* JSON values as json.loads returns them to the webhook routes, and what  *)
(* the normalizers ask of a string.  Strings are atoms: what str.strip(),  *)
(* a column's length and the parsers of timestamps and checksums make of   *)
(* one is given by constants.                                              *)
(***************************************************************************)
EXTENDS Integers, Sequences, TLC

CONSTANTS
    Json,       \* the values payloads consist of
    Padded,     \* strings with white space around them -> stripped
    Long,       \* strings longer than 512 characters
    Wide,       \* strings longer than 255 characters
    Seconds,    \* strings that are Unix seconds -> the moment
    Checksum,   \* strings of 64 hexadecimal digits -> in lower case
    None        \* an absent value in a row

Null == [is |-> "null"]
Bool(b) == [is |-> "bool", bool |-> b]
Num(n) == [is |-> "int", int |-> n]
Str(s) == [is |-> "str", str |-> s]
List(s) == [is |-> "list", list |-> s]
Obj(f) == [is |-> "obj", obj |-> f]

IsNull(v) == v.is = "null"
IsInt(v) == v.is = "int"
IsStr(v) == v.is = "str"
IsList(v) == v.is = "list"
IsObj(v) == v.is = "obj"

\* Objects and lists are made of other values, down to strings and integers.
IsClosed(values) ==
    \A v \in values :
        /\ IsStr(v) => v.str \in STRING
        /\ IsInt(v) => v.int \in Int
        /\ IsList(v) => v.list \in Seq(values)
        /\ IsObj(v) => \A key \in DOMAIN v.obj : v.obj[key] \in values

ASSUME PayloadsAssumption ==
    /\ Null \in Json /\ IsClosed(Json)
    /\ \A s \in DOMAIN Padded : Padded[s] \in STRING
    /\ Long \subseteq Wide
    /\ \A s \in DOMAIN Seconds : Seconds[s] \in Nat
    /\ \A s \in DOMAIN Checksum : Checksum[s] \in STRING

\* "key" in mapping, mapping.get(key)
Has(o, key) == key \in DOMAIN o.obj
Get(o, key) == IF Has(o, key) THEN o.obj[key] ELSE Null

Strip(s) == IF s \in DOMAIN Padded THEN Padded[s] ELSE s
NonBlank(v) == IsStr(v) /\ Strip(v.str) # ""

\* None or a string
OptionalString(v) == IsNull(v) \/ IsStr(v)

\* str(value) of an identifier, and what the contract's validators leave of it
Written(v) == IF IsInt(v) THEN ToString(v.int) ELSE v.str
Text(v) == IF IsInt(v) THEN ToString(v.int) ELSE Strip(v.str)

\* A list of mappings; the same, or nothing at all.
IsObjects(v) == IsList(v) /\ \A i \in DOMAIN v.list : IsObj(v.list[i])
IsOptionalObjects(v) == IsNull(v) \/ IsObjects(v)
Items(v) == IF IsNull(v) THEN <<>> ELSE v.list
=============================================================================
