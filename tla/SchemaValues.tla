---------------------------- MODULE SchemaValues ----------------------------
(***************************************************************************)
(* The values yaml.safe_load hands to scripts/codegen/validate_schema.py,  *)
(* and the pure helpers of that script: the Type Catalog (BASIC_TYPES,     *)
(* ARRAY_TYPE_PATTERN, _estimate_type_size), the semantic-version regex    *)
(* and Python truthiness.                                                  *)
(*                                                                         *)
(* A Python value is a record tagged by its class t, its payload in a     *)
(* field named for the class (b, n, s, d, m).  A string is the            *)
(* sequence of its lexical tokens: a type string "array<double, 64>" is    *)
(* <<"array<", "double", ",", "64", ">">> (the whitespace \s* allows is    *)
(* dropped), a version string "1.0.0" is the sequence of its characters.   *)
(* A dict whose keys the code only tests and looks up is a function        *)
(* (Dict); a dict the code iterates is the sequence of its <<key, value>>  *)
(* pairs in insertion order (Mapping), its keys distinct.                  *)
(***************************************************************************)
EXTENDS Integers, Sequences, FiniteSets

CONSTANTS
  KeyNames,      \* names a document may give to datastore_keys entries
  EventNames,    \* names a document may give to eventbus_events entries
  Identifiers,   \* \w+ tokens other than numerals (type names)
  Numeral,       \* function from the \d+ tokens to the integers int() reads
  MAX_HOT_KEYS   \* MAX_HOT_KEYS (32 in the code)

BASIC_TYPES == {"double", "float", "int32_t", "uint32_t", "int64_t",
                "uint64_t", "bool", "string"}

MAX_HOT_KEY_SIZE_BYTES == 512

\* the priorities _validate_eventbus_events admits
PRIORITIES == {"LOW", "NORMAL", "HIGH", "CRITICAL"}

DigitChars == {"0", "1", "2", "3", "4", "5", "6", "7", "8", "9"}

\* the text a diagnostic names when it is not about one key or event
NoName == ""

ASSUME ValuesAssumption ==
  /\ BASIC_TYPES \subseteq Identifiers
  /\ \A n \in DOMAIN Numeral : Numeral[n] \in Nat
  /\ MAX_HOT_KEYS \in Nat
  /\ NoName \notin KeyNames \cup EventNames

-----------------------------------------------------------------------------
(* Python values.                                                          *)

PyNull == [t |-> "null"]
PyBool(b) == [t |-> "bool", b |-> b]
PyInt(n) == [t |-> "int", n |-> n]
PyFloat(n) == [t |-> "float", n |-> n]
PyNaN == [t |-> "nan"]
PyStr(s) == [t |-> "str", s |-> s]
Dict(f) == [t |-> "dict", d |-> f]
Mapping(ps) == [t |-> "map", m |-> ps]

\* a one-token Python string literal such as 'double' or 'LOW'
Lit(w) == PyStr(<<w>>)

\* `k in d` and d.get(k, dflt) for a Dict
HasKey(x, k) == k \in DOMAIN x.d
Get(x, k, dflt) == IF HasKey(x, k) THEN x.d[k] ELSE dflt

\* the i-th (name, spec) pair of m.items()
ItemName(x, i) == x.m[i][1]
ItemSpec(x, i) == x.m[i][2]

\* bool(x)
Truthy(x) ==
  CASE x.t = "null"              -> FALSE
    [] x.t = "bool"              -> x.b
    [] x.t \in {"int", "float"}  -> x.n # 0
    [] x.t = "nan"               -> TRUE
    [] x.t = "str"               -> x.s # <<>>
    [] x.t = "dict"              -> DOMAIN x.d # {}
    [] x.t = "map"               -> x.m # <<>>

\* isinstance(x, (int, float)): bool is a subclass of int
IsNumber(x) == x.t \in {"int", "bool", "float", "nan"}

\* x <= 0 for a number x (True is 1, False is 0, every comparison with
\* NaN is false)
LeqZero(x) ==
  CASE x.t = "bool"             -> ~x.b
    [] x.t \in {"int", "float"} -> x.n <= 0
    [] x.t = "nan"              -> FALSE

-----------------------------------------------------------------------------
(* Type strings.                                                           *)

\* the tokens \w+ matches
WordTokens == Identifiers \cup DOMAIN Numeral

\* type_str in BASIC_TYPES
IsBasic(x) == x.t = "str" /\ Len(x.s) = 1 /\ x.s[1] \in BASIC_TYPES

\* type_str in self.custom_types
IsCustom(x, custom) == x.t = "str" /\ Len(x.s) = 1 /\ x.s[1] \in custom

\* re.match(r'array<(\w+),\s*(\d+)>', type_str) for a string type_str:
\* re.match anchors at the start only, so tokens after '>' are ignored
ArrayMatch(x) ==
  /\ Len(x.s) >= 5
  /\ x.s[1] = "array<"
  /\ x.s[2] \in WordTokens
  /\ x.s[3] = ","
  /\ x.s[4] \in DOMAIN Numeral
  /\ x.s[5] = ">"

\* group(1) and int(group(2)) of that match
ArrayElement(x) == x.s[2]
ArrayCount(x) == Numeral[x.s[4]]

\* the outcome of _validate_type: "ok", the error it appends, or "raise"
\* when re.match is handed a value that is not a string (TypeError)
ValidateType(x, custom) ==
  IF IsBasic(x) THEN "ok"
  ELSE IF x.t # "str" THEN "raise"
  ELSE IF ArrayMatch(x)
       THEN IF ArrayElement(x) \notin BASIC_TYPES \cup custom
            THEN "InvalidArrayElement" ELSE "ok"
  ELSE IF IsCustom(x, custom) THEN "ok"
  ELSE "UnknownType"

\* the table type_sizes of _estimate_type_size
type_sizes == [double |-> 8, float |-> 4, int32_t |-> 4, uint32_t |-> 4,
               int64_t |-> 8, uint64_t |-> 8, bool |-> 1, string |-> 256,
               Vector3d |-> 24, TaskStatus |-> 4, HAState |-> 4]

\* _estimate_type_size(type_str) for a string type_str
EstimateTypeSize(x, custom) ==
  IF Len(x.s) = 1 /\ x.s[1] \in DOMAIN type_sizes THEN type_sizes[x.s[1]]
  ELSE IF IsCustom(x, custom) THEN 8
  ELSE IF ArrayMatch(x)
       THEN (IF ArrayElement(x) \in DOMAIN type_sizes
             THEN type_sizes[ArrayElement(x)] ELSE 8) * ArrayCount(x)
  ELSE 64

-----------------------------------------------------------------------------
(* Version strings.                                                        *)

\* re.match(r'^\d+\.\d+\.\d+$', s) on the characters s: Python's $ also
\* matches just before a final newline
Chomp(s) == IF s # <<>> /\ s[Len(s)] = "\n" THEN SubSeq(s, 1, Len(s) - 1) ELSE s

SemVerMatch(s) ==
  LET u == Chomp(s) IN
  \E i, j \in 1..Len(u) :
     /\ 1 < i /\ i + 1 < j /\ j < Len(u)
     /\ u[i] = "." /\ u[j] = "."
     /\ \A k \in 1..Len(u) \ {i, j} : u[k] \in DigitChars

\* mutant: the warning condition major > 1 in place of major != 1, read
\* as "the major is at most 1": zeros, then at most one final 1
MajorAtMostOne(s) ==
  \E n \in 1..(Len(s) - 1) :
     /\ s[n + 1] = "."
     /\ s[n] \in {"0", "1"}
     /\ \A k \in 1..(n - 1) : s[k] = "0"

\* int(major) = 1 for a string SemVerMatch accepts: the digits before the
\* first '.' are zeros and a final 1
MajorIsOne(s) ==
  \E n \in 1..(Len(s) - 1) :
     /\ s[n + 1] = "."
     /\ s[n] = "1"
     /\ \A k \in 1..(n - 1) : s[k] = "0"

-----------------------------------------------------------------------------
(* Diagnostics: an error or warning is its kind and the name it reports.   *)

ErrorKinds == {"FileNotFound", "YAMLError", "MissingSchemaVersion",
               "InvalidSchemaVersion", "MissingDatastoreKeys", "DuplicateKey",
               "MissingType", "InvalidArrayElement", "UnknownType",
               "InconsistentAccess", "DuplicateEvent", "InvalidPriority",
               "InvalidTtl", "TooManyHotKeys", "HotKeyTooLarge"}

WarningKinds == {"UntestedMajorVersion", "MissingEventbusEvents"}

Diag(kind, name) == [kind |-> kind, name |-> name]

Diagnostics == [kind : ErrorKinds \cup WarningKinds,
                name : KeyNames \cup EventNames \cup {NoName}]


-----------------------------------------------------------------------------
(* The shape of a loaded document.                                       *)

\* a Python dict the code iterates: a sequence of pairs with distinct keys
IsMappingOf(x, Names) ==
  x.t = "map" =>
    /\ Len(x.m) \in Nat
    /\ DOMAIN x.m = 1..Len(x.m)
    /\ \A i \in 1..Len(x.m) : ItemName(x, i) \in Names
    /\ \A i, j \in 1..Len(x.m) : i # j => ItemName(x, i) # ItemName(x, j)

\* the sections and specs of a document are dicts or None: a string or a
\* list in their place (where 'x' in v is a substring or element test)
\* is outside the model
IsSpecsOf(x) == x.t = "map" => \A i \in DOMAIN x.m : ItemSpec(x, i).t \in {"dict", "null"}

\* what yaml.safe_load returns for a schema file, as far as the code
\* iterates it and takes names from it
DataShape(d) ==
  /\ d.t \in {"dict", "null"}
  /\ d.t = "dict" =>
       /\ HasKey(d, "types") /\ d.d["types"].t = "dict"
             => DOMAIN d.d["types"].d \subseteq Identifiers
       /\ HasKey(d, "datastore_keys")
             => IsMappingOf(d.d["datastore_keys"], KeyNames)
                /\ IsSpecsOf(d.d["datastore_keys"])
       /\ HasKey(d, "eventbus_events")
             => IsMappingOf(d.d["eventbus_events"], EventNames)
                /\ IsSpecsOf(d.d["eventbus_events"])

-----------------------------------------------------------------------------
(* yaml.safe_load of a block mapping written as the sequence t of its     *)
(* <<name, value>> entries: the constructor assigns mapping[key] = value  *)
(* entry by entry, so a repeated name keeps the position of its first     *)
(* entry and the value of its last, and no trace of the repetition is    *)
(* left.                                                                   *)

FirstEntries(t) == {i \in DOMAIN t : \A j \in 1..(i - 1) : t[j][1] # t[i][1]}

LastValue(t, n) ==
  t[CHOOSE i \in DOMAIN t : t[i][1] = n /\ \A j \in (i + 1)..Len(t) : t[j][1] # n][2]

SafeLoadMapping(t) ==
  LET F == FirstEntries(t)
      ord == [k \in 1..Cardinality(F) |->
                CHOOSE i \in F : Cardinality({j \in F : j < i}) = k - 1]
  IN Mapping([k \in DOMAIN ord |-> <<t[ord[k]][1], LastValue(t, t[ord[k]][1])>>])

=============================================================================
