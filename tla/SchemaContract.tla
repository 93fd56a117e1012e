--------------------------- MODULE SchemaContract ---------------------------
(***************************************************************************)
(* What the schema validator promises (spec.md sections 3, 4.1, 4.3, 4.4,  *)
(* 6, 7): the defects a schema document has, stated from the data model    *)
(* and the rules rather than from the code, and an abstract validator      *)
(* that reads a file and in one step accepts it exactly when the document  *)
(* is structurally well formed and has no defect.                          *)
(***************************************************************************)
EXTENDS SchemaValues

CONSTANT Inputs

VARIABLES input, verdict

-----------------------------------------------------------------------------
(* The Type Catalog of section 4.1.  The grammar                           *)
(*    TYPE ::= SCALAR | IDENT | "array<" TYPE "," COUNT ">"               *)
(* with COUNT a positive integer describes the token sequences made of d   *)
(* tokens "array<", one scalar or declared name, and d suffixes           *)
(* "," COUNT ">".                                                          *)

ArrayDepth(s) == (Len(s) - 1) \div 4

\* position of the COUNT of the k-th suffix
CountPos(s, k) == ArrayDepth(s) + 3 * k

\* resolve(type_name) succeeds
ResolvesSeq(s, custom) ==
  LET d == ArrayDepth(s) IN
  /\ Len(s) % 4 = 1
  /\ \A k \in 1..d : s[k] = "array<"
  /\ s[d + 1] \in BASIC_TYPES \cup custom
  /\ \A k \in 1..d : /\ s[CountPos(s, k) - 1] = ","
                     /\ s[CountPos(s, k)] \in DOMAIN Numeral
                     /\ Numeral[s[CountPos(s, k)]] > 0
                     /\ s[CountPos(s, k) + 1] = ">"

Resolves(x, custom) == x.t = "str" /\ ResolvesSeq(x.s, custom)

\* size_of of a resolved type: the element's fixed size (8, the
\* conservative default, for a declared type) times every COUNT
SizeOf(x) ==
  LET s == x.s
      d == ArrayDepth(s)
      P[k \in 0..d] == IF k = 0 THEN 1 ELSE P[k - 1] * Numeral[s[CountPos(s, k)]]
  IN (IF s[d + 1] \in DOMAIN type_sizes THEN type_sizes[s[d + 1]] ELSE 8) * P[d]

-----------------------------------------------------------------------------
(* Version strings: MAJOR.MINOR.PATCH with non-negative integers.          *)

IsDigits(u) == u # <<>> /\ \A k \in 1..Len(u) : u[k] \in DigitChars

IsSemVer(s) ==
  \E i, j \in 1..Len(s) :
     /\ i < j /\ s[i] = "." /\ s[j] = "."
     /\ IsDigits(SubSeq(s, 1, i - 1))
     /\ IsDigits(SubSeq(s, i + 1, j - 1))
     /\ IsDigits(SubSeq(s, j + 1, Len(s)))

\* the integer a digit string denotes
DigitValue(c) == CHOOSE v \in 0..9 :
                   c = <<"0", "1", "2", "3", "4", "5", "6", "7", "8", "9">>[v + 1]
NumberOf(u) ==
  LET N[k \in 0..Len(u)] == IF k = 0 THEN 0 ELSE 10 * N[k - 1] + DigitValue(u[k])
  IN N[Len(u)]

Major(s) ==
  LET dot == CHOOSE i \in 1..Len(s) : s[i] = "." /\ \A j \in 1..(i - 1) : s[j] # "."
  IN NumberOf(SubSeq(s, 1, dot - 1))

-----------------------------------------------------------------------------
(* Structure (section 7: a StructuralError aborts before any validation).  *)

IsBoolOrAbsent(x, k) == HasKey(x, k) => x.d[k].t = "bool"

WellFormedKey(spec) ==
  /\ spec.t = "dict"
  /\ HasKey(spec, "type") => spec.d["type"].t = "str"
  /\ IsBoolOrAbsent(spec, "hot_key")
  /\ HasKey(spec, "access") =>
        /\ spec.d["access"].t = "dict"
        /\ IsBoolOrAbsent(spec.d["access"], "rt_read")
        /\ IsBoolOrAbsent(spec.d["access"], "rt_write")

Structural(d) ==
  /\ d.t = "dict"
  /\ HasKey(d, "schema_version") => d.d["schema_version"].t = "str"
  /\ HasKey(d, "types") => d.d["types"].t = "dict"
  /\ HasKey(d, "datastore_keys") =>
        /\ d.d["datastore_keys"].t = "map"
        /\ \A i \in DOMAIN d.d["datastore_keys"].m :
              WellFormedKey(ItemSpec(d.d["datastore_keys"], i))
  /\ HasKey(d, "eventbus_events") =>
        /\ d.d["eventbus_events"].t = "map"
        /\ \A i \in DOMAIN d.d["eventbus_events"].m :
              ItemSpec(d.d["eventbus_events"], i).t = "dict"

-----------------------------------------------------------------------------
(* The defects of a structurally well-formed document d (section 4.3),     *)
(* each as the diagnostic that names it.  Both type-error kinds stand for  *)
(* one unresolved type.  A boolean flag that is absent is false (section   *)
(* 8: "rt_read absent or false").                                          *)

CustomOf(d) == IF HasKey(d, "types") THEN DOMAIN d.d["types"].d ELSE {}

Flag(x, k) == HasKey(x, k) /\ x.d[k].b

\* {x} when c holds, {} otherwise
IfSet(c, x) == IF c THEN {x} ELSE {}

TypeErrorKinds == {"InvalidArrayElement", "UnknownType"}

HotIndices(m) == {i \in DOMAIN m.m : Flag(ItemSpec(m, i), "hot_key")}

\* the defects of the key named n with specification spec
KeyDefects(d, n, spec, hot) ==
  LET ty == spec.d["type"]
      resolved == HasKey(spec, "type") /\ Resolves(ty, CustomOf(d))
      acc == spec.d["access"]
  IN   IfSet(~HasKey(spec, "type"), Diag("MissingType", n))
     \cup {Diag(k, n) : k \in IF HasKey(spec, "type") /\ ~resolved
                             THEN TypeErrorKinds ELSE {}}
     \cup IfSet(HasKey(spec, "access") /\ Flag(acc, "rt_write")
                  /\ ~Flag(acc, "rt_read"),
                Diag("InconsistentAccess", n))
     \cup IfSet(hot /\ resolved /\ SizeOf(ty) > MAX_HOT_KEY_SIZE_BYTES,
                Diag("HotKeyTooLarge", n))

\* a positive number; a bool is not a number of the data model
PositiveNumber(x) == x.t \in {"int", "float"} /\ x.n > 0

EventDefects(n, spec) ==
  LET ttl == spec.d["ttl_ms"] IN
    IfSet(HasKey(spec, "priority") /\
            spec.d["priority"] \notin {Lit(p) : p \in PRIORITIES},
          Diag("InvalidPriority", n))
  \cup IfSet(HasKey(spec, "ttl_ms") /\ ttl # PyNull /\ ~PositiveNumber(ttl),
             Diag("InvalidTtl", n))

DatastoreDefects(d) ==
  IF ~HasKey(d, "datastore_keys") THEN {Diag("MissingDatastoreKeys", NoName)}
  ELSE LET m == d.d["datastore_keys"] IN
         UNION {KeyDefects(d, ItemName(m, i), ItemSpec(m, i), i \in HotIndices(m))
                  : i \in DOMAIN m.m}
         \cup IfSet(Cardinality(HotIndices(m)) > MAX_HOT_KEYS,
                    Diag("TooManyHotKeys", NoName))

EventbusDefects(d) ==
  IF ~HasKey(d, "eventbus_events") THEN {}
  ELSE LET m == d.d["eventbus_events"] IN
         UNION {EventDefects(ItemName(m, i), ItemSpec(m, i)) : i \in DOMAIN m.m}

VersionDefects(d) ==
  IF ~HasKey(d, "schema_version") THEN {Diag("MissingSchemaVersion", NoName)}
  ELSE IfSet(~IsSemVer(d.d["schema_version"].s),
             Diag("InvalidSchemaVersion", NoName))

\* every error a validator must report for the document d
DocDefects(d) == VersionDefects(d) \cup DatastoreDefects(d) \cup EventbusDefects(d)

\* every warning it must report: a major version other than 1, and a
\* missing event section
DocWarnings(d) ==
    IfSet(/\ HasKey(d, "schema_version")
          /\ IsSemVer(d.d["schema_version"].s)
          /\ Major(d.d["schema_version"].s) # 1,
          Diag("UntestedMajorVersion", NoName))
  \cup IfSet(~HasKey(d, "eventbus_events"), Diag("MissingEventbusEvents", NoName))

\* the document is accepted iff it is read, well formed and has no defect
Conforms(f) == f.kind = "yaml" /\ Structural(f.data) /\ DocDefects(f.data) = {}

-----------------------------------------------------------------------------
(* The abstract validator: one step from "pending" to the verdict.         *)

Init == input \in Inputs /\ verdict = "pending"

Decide ==
  /\ verdict = "pending"
  /\ verdict' = IF Conforms(input) THEN "accepted" ELSE "rejected"
  /\ UNCHANGED input

Spec == Init /\ [][Decide]_<<input, verdict>>

=============================================================================
