-------------------------- MODULE SchemaReportProofs --------------------------
(***************************************************************************)
(* The report of a run never lists a diagnostic twice, for every value of  *)
(* the constants.                                                          *)
(*                                                                         *)
(* Each check appends diagnostics of kinds of its own, and the loops       *)
(* append for the item at idx only diagnostics naming that item.  The      *)
(* names of the items of a YAML mapping are distinct, so what an          *)
(* iteration appends differs from what earlier iterations appended.        *)
(* RInv records, for every diagnostic already in errors, which statements *)
(* may follow the check that appended it and, inside a loop, that it      *)
(* names an item before idx.                                               *)
(***************************************************************************)
EXTENDS SchemaValidatorProofs

-----------------------------------------------------------------------------
(* Lemmas on lists without repetitions.                                    *)

\* a list of at most one element
LEMMA OptionalNoRepeats ==
  ASSUME NEW S, NEW x \in S, NEW c
  PROVE  /\ (IF c THEN <<x>> ELSE <<>>) \in Seq(S)
         /\ NoRepeats(IF c THEN <<x>> ELSE <<>>)
         /\ Elems(IF c THEN <<x>> ELSE <<>>) \subseteq {x}
<1>1. CASE c
  <2>1. (IF c THEN <<x>> ELSE <<>>) = <<x>>
    BY <1>1
  <2>2. <<x>> \in Seq(S) /\ NoRepeats(<<x>>) /\ Elems(<<x>>) \subseteq {x}
    BY DEF NoRepeats, Elems
  <2>3. QED
    BY <2>1, <2>2
<1>2. CASE ~c
  <2>1. (IF c THEN <<x>> ELSE <<>>) = <<>>
    BY <1>2
  <2>2. <<>> \in Seq(S) /\ NoRepeats(<<>>) /\ Elems(<<>>) \subseteq {x}
    BY DEF NoRepeats, Elems
  <2>3. QED
    BY <2>1, <2>2
<1>3. QED
  BY <1>1, <1>2

\* the elements of a list over S are in S
LEMMA ElemsInSeq ==
  ASSUME NEW S, NEW s \in Seq(S)
  PROVE  Elems(s) \subseteq S
BY DEF Elems

\* the concatenation of two lists without repetitions and without a
\* common element
LEMMA ConcatNoRepeats ==
  ASSUME NEW S, NEW s \in Seq(S), NEW t \in Seq(S),
         NoRepeats(s), NoRepeats(t), Elems(s) \cap Elems(t) = {}
  PROVE  /\ NoRepeats(s \o t)
         /\ Elems(s \o t) = Elems(s) \cup Elems(t)
<1>1. /\ s \o t \in Seq(S)
      /\ Len(s \o t) = Len(s) + Len(t)
      /\ \A i \in 1..Len(s) : (s \o t)[i] = s[i]
      /\ \A i \in (Len(s) + 1)..(Len(s) + Len(t)) : (s \o t)[i] = t[i - Len(s)]
  BY ConcatProperties
<1>2. DOMAIN (s \o t) = 1..(Len(s) + Len(t))
  BY <1>1
<1>3. Elems(s \o t) = Elems(s) \cup Elems(t)
  <2>1. ASSUME NEW i \in 1..(Len(s) + Len(t)) PROVE (s \o t)[i] \in Elems(s) \cup Elems(t)
    <3>1. CASE i \in 1..Len(s)
      BY <1>1, <3>1 DEF Elems
    <3>2. CASE i \in (Len(s) + 1)..(Len(s) + Len(t))
      <4>1. i - Len(s) \in DOMAIN t
        BY <3>2
      <4>2. QED
        BY <1>1, <3>2, <4>1 DEF Elems
    <3>3. QED
      BY <3>1, <3>2
  <2>2. ASSUME NEW i \in DOMAIN s PROVE s[i] \in Elems(s \o t)
    BY <1>1, <1>2 DEF Elems
  <2>3. ASSUME NEW i \in DOMAIN t PROVE t[i] \in Elems(s \o t)
    <3>1. (s \o t)[Len(s) + i] = t[i] /\ Len(s) + i \in DOMAIN (s \o t)
      BY <1>1, <1>2
    <3>2. QED
      BY <3>1 DEF Elems
  <2>4. QED
    BY <1>2, <2>1, <2>2, <2>3 DEF Elems
<1>4. NoRepeats(s \o t)
  <2> SUFFICES ASSUME NEW i \in 1..(Len(s) + Len(t)), NEW j \in 1..(Len(s) + Len(t)),
                      i # j
               PROVE  (s \o t)[i] # (s \o t)[j]
    BY <1>2 DEF NoRepeats
  <2>1. CASE i \in 1..Len(s) /\ j \in 1..Len(s)
    BY <1>1, <2>1 DEF NoRepeats
  <2>2. CASE i \in 1..Len(s) /\ j \in (Len(s) + 1)..(Len(s) + Len(t))
    <3>1. (s \o t)[i] \in Elems(s) /\ (s \o t)[j] \in Elems(t)
      <4>1. j - Len(s) \in DOMAIN t
        BY <2>2
      <4>2. QED
        BY <1>1, <2>2, <4>1 DEF Elems
    <3>2. QED
      BY <3>1
  <2>3. CASE i \in (Len(s) + 1)..(Len(s) + Len(t)) /\ j \in 1..Len(s)
    <3>1. (s \o t)[j] \in Elems(s) /\ (s \o t)[i] \in Elems(t)
      <4>1. i - Len(s) \in DOMAIN t
        BY <2>3
      <4>2. QED
        BY <1>1, <2>3, <4>1 DEF Elems
    <3>2. QED
      BY <3>1
  <2>4. CASE i \in (Len(s) + 1)..(Len(s) + Len(t)) /\ j \in (Len(s) + 1)..(Len(s) + Len(t))
    <3>1. i - Len(s) \in DOMAIN t /\ j - Len(s) \in DOMAIN t /\ i - Len(s) # j - Len(s)
      BY <2>4
    <3>2. QED
      BY <1>1, <2>4, <3>1 DEF NoRepeats
  <2>5. QED
    BY <2>1, <2>2, <2>3, <2>4
<1>5. QED
  BY <1>3, <1>4

\* a list without repetitions with a new element appended
LEMMA AppendNoRepeats ==
  ASSUME NEW S, NEW s \in Seq(S), NEW x \in S, NoRepeats(s), x \notin Elems(s)
  PROVE  /\ NoRepeats(Append(s, x))
         /\ Elems(Append(s, x)) = Elems(s) \cup {x}
<1>1. /\ Append(s, x) \in Seq(S)
      /\ Len(Append(s, x)) = Len(s) + 1
      /\ \A i \in 1..Len(s) : Append(s, x)[i] = s[i]
      /\ Append(s, x)[Len(s) + 1] = x
  BY AppendProperties
<1>2. DOMAIN Append(s, x) = 1..(Len(s) + 1)
  BY <1>1
<1>3. QED
  BY <1>1, <1>2 DEF NoRepeats, Elems

-----------------------------------------------------------------------------
(* What each check appends.                                                *)

\* the kinds of the diagnostics each check appends
VersionKinds == {"MissingSchemaVersion", "InvalidSchemaVersion"}
KeyKinds == {"DuplicateKey", "MissingType", "InvalidArrayElement", "UnknownType",
             "InconsistentAccess"}
EventKinds == {"DuplicateEvent", "InvalidPriority", "InvalidTtl"}

\* the diagnostics of the given kinds naming n
DiagsOf(Kinds, n) == [kind : Kinds, name : {n}]

\* one iteration of the key loop appends distinct diagnostics of the key
LEMMA KeyErrorsShape ==
  ASSUME NEW name, NEW spec, ~KeyRaises(spec)
  PROVE  /\ KeyErrors(name, spec) \in Seq(DiagsOf(KeyKinds, name))
         /\ NoRepeats(KeyErrors(name, spec))
<1> DEFINE S == DiagsOf(KeyKinds, name)
           dup == IF name \in key_names THEN <<Diag("DuplicateKey", name)>> ELSE <<>>
           vt == ValidateType(spec.d["type"], custom_types)
           typeErr == IF vt = "ok" THEN <<>> ELSE <<Diag(vt, name)>>
           acc == spec.d["access"]
           accCond == HasKey(spec, "access") /\
                      Truthy(Get(acc, "rt_write", PyBool(FALSE))) /\
                      ~Truthy(Get(acc, "rt_read", PyBool(FALSE)))
           accErr == IF accCond THEN <<Diag("InconsistentAccess", name)>> ELSE <<>>
           miss == <<Diag("MissingType", name)>>
<1> HIDE DEF accCond
<1>0. ASSUME NEW k \in KeyKinds PROVE Diag(k, name) \in S /\ Diag(k, name).kind = k
  BY DEF Diag, DiagsOf
<1>1. /\ dup \in Seq(S) /\ NoRepeats(dup)
      /\ \A e \in Elems(dup) : e.kind = "DuplicateKey"
  <2>1. Diag("DuplicateKey", name) \in S /\ Diag("DuplicateKey", name).kind = "DuplicateKey"
    BY <1>0 DEF KeyKinds
  <2>2. QED
    BY <2>1, OptionalNoRepeats
<1>2. /\ accErr \in Seq(S) /\ NoRepeats(accErr)
      /\ \A e \in Elems(accErr) : e.kind = "InconsistentAccess"
  <2>1. Diag("InconsistentAccess", name) \in S
        /\ Diag("InconsistentAccess", name).kind = "InconsistentAccess"
    BY <1>0 DEF KeyKinds
  <2>2. QED
    BY <2>1, OptionalNoRepeats
<1>3. /\ miss \in Seq(S) /\ NoRepeats(miss)
      /\ \A e \in Elems(miss) : e.kind = "MissingType"
  <2>1. Diag("MissingType", name) \in S /\ Diag("MissingType", name).kind = "MissingType"
    BY <1>0 DEF KeyKinds
  <2>2. QED
    BY <2>1 DEF NoRepeats, Elems
<1> HIDE DEF dup, accErr, miss
<1>4. CASE ~HasKey(spec, "type")
  <2>1. KeyErrors(name, spec) = dup \o miss
    BY <1>4 DEF KeyErrors, dup, miss
  <2>2. Elems(dup) \cap Elems(miss) = {}
    BY <1>1, <1>3
  <2>3. QED
    BY <1>1, <1>3, <2>1, <2>2, ConcatNoRepeats, ConcatProperties
<1>5. CASE HasKey(spec, "type")
  <2>1. vt \in {"ok", "InvalidArrayElement", "UnknownType"}
    BY <1>5, ValidateTypeOutcome DEF KeyRaises
  <2>2. /\ typeErr \in Seq(S) /\ NoRepeats(typeErr)
        /\ \A e \in Elems(typeErr) : e.kind \in {"InvalidArrayElement", "UnknownType"}
    <3>1. CASE vt = "ok"
      BY <3>1 DEF NoRepeats, Elems
    <3>2. CASE vt # "ok"
      <4>1. typeErr = <<Diag(vt, name)>>
        BY <3>2
      <4>2. Diag(vt, name) \in S /\ Diag(vt, name).kind = vt
        BY <1>0, <2>1, <3>2 DEF KeyKinds
      <4>3. QED
        BY <2>1, <3>2, <4>1, <4>2 DEF NoRepeats, Elems
    <3>3. QED
      BY <3>1, <3>2
  <2> HIDE DEF typeErr
  <2>3. KeyErrors(name, spec) = (dup \o typeErr) \o accErr
      BY <1>5 DEF KeyErrors, dup, accErr, accCond, typeErr
  <2>4. /\ dup \o typeErr \in Seq(S) /\ NoRepeats(dup \o typeErr)
        /\ Elems(dup \o typeErr) = Elems(dup) \cup Elems(typeErr)
    <3>1. Elems(dup) \cap Elems(typeErr) = {}
      BY <1>1, <2>2
    <3>2. QED
      BY <1>1, <2>2, <3>1, ConcatNoRepeats, ConcatProperties
  <2>5. Elems(dup \o typeErr) \cap Elems(accErr) = {}
    BY <1>1, <1>2, <2>2, <2>4
  <2>6. NoRepeats((dup \o typeErr) \o accErr)
    BY <1>2, <2>4, <2>5, ConcatNoRepeats
  <2>7. (dup \o typeErr) \o accErr \in Seq(S)
    BY <1>2, <2>4, ConcatProperties
  <2>8. QED
    BY <2>3, <2>6, <2>7
<1>6. QED
  BY <1>4, <1>5

\* one iteration of the event loop appends distinct diagnostics of the event
LEMMA EventErrorsShape ==
  ASSUME NEW name, NEW spec
  PROVE  /\ EventErrors(name, spec) \in Seq(DiagsOf(EventKinds, name))
         /\ NoRepeats(EventErrors(name, spec))
<1> DEFINE S == DiagsOf(EventKinds, name)
           dup == IF name \in event_names THEN <<Diag("DuplicateEvent", name)>> ELSE <<>>
           prioCond == HasKey(spec, "priority") /\
                       spec.d["priority"] \notin {Lit(p) : p \in PRIORITIES}
           prio == IF prioCond THEN <<Diag("InvalidPriority", name)>> ELSE <<>>
           ttl == spec.d["ttl_ms"]
           ttlCond == HasKey(spec, "ttl_ms") /\ ttl # PyNull /\
                      (~IsNumber(ttl) \/ LeqZero(ttl))
           ttlErr == IF ttlCond THEN <<Diag("InvalidTtl", name)>> ELSE <<>>
<1> HIDE DEF prioCond, ttlCond
<1>0. ASSUME NEW k \in EventKinds PROVE Diag(k, name) \in S /\ Diag(k, name).kind = k
  BY DEF Diag, DiagsOf
<1>1. /\ dup \in Seq(S) /\ NoRepeats(dup)
      /\ \A e \in Elems(dup) : e.kind = "DuplicateEvent"
  <2>1. Diag("DuplicateEvent", name) \in S
        /\ Diag("DuplicateEvent", name).kind = "DuplicateEvent"
    BY <1>0 DEF EventKinds
  <2>2. CASE name \in event_names
    BY <2>1, <2>2 DEF NoRepeats, Elems
  <2>3. CASE name \notin event_names
    BY <2>3 DEF NoRepeats, Elems
  <2>4. QED
    BY <2>2, <2>3
<1>2. /\ prio \in Seq(S) /\ NoRepeats(prio)
      /\ \A e \in Elems(prio) : e.kind = "InvalidPriority"
  <2>1. Diag("InvalidPriority", name) \in S
        /\ Diag("InvalidPriority", name).kind = "InvalidPriority"
    BY <1>0 DEF EventKinds
  <2>2. QED
    BY <2>1, OptionalNoRepeats
<1>3. /\ ttlErr \in Seq(S) /\ NoRepeats(ttlErr)
      /\ \A e \in Elems(ttlErr) : e.kind = "InvalidTtl"
  <2>1. Diag("InvalidTtl", name) \in S /\ Diag("InvalidTtl", name).kind = "InvalidTtl"
    BY <1>0 DEF EventKinds
  <2>2. QED
    BY <2>1, OptionalNoRepeats
<1> HIDE DEF dup, prio, ttlErr
<1>4. EventErrors(name, spec) = (dup \o prio) \o ttlErr
  BY DEF EventErrors, dup, prio, ttlErr, prioCond, ttlCond
<1>5. /\ dup \o prio \in Seq(S) /\ NoRepeats(dup \o prio)
      /\ Elems(dup \o prio) = Elems(dup) \cup Elems(prio)
  <2>1. Elems(dup) \cap Elems(prio) = {}
    BY <1>1, <1>2
  <2>2. QED
    BY <1>1, <1>2, <2>1, ConcatNoRepeats, ConcatProperties
<1>6. Elems(dup \o prio) \cap Elems(ttlErr) = {}
  BY <1>1, <1>2, <1>3, <1>5
<1>7. NoRepeats((dup \o prio) \o ttlErr)
  BY <1>3, <1>5, <1>6, ConcatNoRepeats
<1>8. (dup \o prio) \o ttlErr \in Seq(S)
  BY <1>3, <1>5, ConcatProperties
<1>9. QED
  BY <1>4, <1>7, <1>8

\* one iteration of the hot-key loop appends at most one diagnostic
LEMMA HotKeySizeErrorShape ==
  ASSUME NEW name, NEW spec, NEW limit
  PROVE  /\ HotKeySizeError(name, spec, limit) \in Seq(DiagsOf({"HotKeyTooLarge"}, name))
         /\ NoRepeats(HotKeySizeError(name, spec, limit))
<1>1. Diag("HotKeyTooLarge", name) \in DiagsOf({"HotKeyTooLarge"}, name)
  BY DEF Diag, DiagsOf
<1>2. QED
  BY <1>1, OptionalNoRepeats DEF HotKeySizeError

-----------------------------------------------------------------------------
(* The inductive invariant.                                                *)

\* the statements at which the run has ended or is about to print
Done == {"print", "exited", "raised"}

\* the names of the items of the section x before position n
Seen(x, n) == {ItemName(x, j) : j \in 1..(n - 1)}

\* where the diagnostic e, already in errors, can have come from
ErrorPlace(e) ==
  /\ e.kind \in VersionKinds => pc \in AfterVersion \cup Done
  /\ e.kind \in KeyKinds \cup {"MissingDatastoreKeys"} => pc \in AfterKeys \cup Done
  /\ e.kind \in KeyKinds /\ pc = "keyLoop" => e.name \in Seen(Keys, idx)
  /\ e.kind \in EventKinds => pc \in {"eventLoop", "hot", "hotLoop"} \cup Done
  /\ e.kind \in EventKinds /\ pc = "eventLoop" => e.name \in Seen(Events, idx)
  /\ e.kind \in {"TooManyHotKeys", "HotKeyTooLarge"} => pc \in {"hotLoop"} \cup Done
  /\ e.kind = "HotKeyTooLarge" /\ pc = "hotLoop" => e.name \in Seen(Keys, idx)

RInv ==
  /\ NoRepeats(errors)
  /\ pc = "load" => errors = <<>>
  /\ \A e \in Elems(errors) : ErrorPlace(e)

\* the item at position i of a mapping has a name no earlier item has
LEMMA FreshName ==
  ASSUME NEW x, NEW Names, IsMappingOf(x, Names), x.t = "map",
         NEW i \in Nat \ {0}, ~(i > Len(x.m))
  PROVE  /\ ItemName(x, i) \notin Seen(x, i)
         /\ Seen(x, i + 1) = Seen(x, i) \cup {ItemName(x, i)}
<1>1. \A j \in 1..(i - 1) : ItemName(x, j) # ItemName(x, i)
  BY DEF IsMappingOf
<1>2. QED
  BY <1>1 DEF Seen

\* inside the key and hot-key loops datastore_keys is a mapping of
\* distinct key names
LEMMA KeysMapping ==
  ASSUME IInv, pc \in {"keyLoop", "hotLoop"}
  PROVE  IsMappingOf(Keys, KeyNames) /\ Keys.t = "map"
BY DEF IInv, DataShape, AfterVersion, AfterKeys, Keys

\* inside the event loop eventbus_events is a mapping of distinct names
LEMMA EventsMapping ==
  ASSUME IInv, pc = "eventLoop"
  PROVE  IsMappingOf(Events, EventNames) /\ Events.t = "map"
BY DEF IInv, DataShape, AfterVersion, Events

LEMMA InitRInv == Init => RInv
BY DEF Init, RInv, NoRepeats, Elems

\* a traceback changes no diagnostic and ends the run
LEMMA RaiseRInv == RInv /\ Raise => RInv'
<1> SUFFICES ASSUME RInv, Raise PROVE RInv'
  OBVIOUS
<1>1. pc' = "raised" /\ errors' = errors
  BY DEF Raise
<1>2. ASSUME NEW e \in Elems(errors) PROVE ErrorPlace(e)'
  BY <1>1 DEF ErrorPlace, Done
<1>3. QED
  BY <1>1, <1>2 DEF RInv

\* _load_schema appends at most one diagnostic to the empty list
LEMMA LoadRInv == IInv /\ RInv /\ LoadSchema => RInv'
<1> SUFFICES ASSUME IInv, RInv, LoadSchema PROVE RInv'
  OBVIOUS
<1>1. pc = "load" /\ errors = <<>>
  BY DEF RInv, LoadSchema
<1>2. file.kind \in {"missing", "badyaml", "unreadable", "yaml"}
  BY InputsAssumption DEF IInv, TypeOK, Files
<1>3. CASE file.kind = "unreadable"
  BY <1>3, RaiseRInv DEF LoadSchema
<1>4. CASE file.kind = "yaml"
  <2>1. pc' = "version" /\ errors' = <<>>
    BY <1>1, <1>4 DEF LoadSchema
  <2>2. QED
    BY <2>1 DEF RInv, NoRepeats, Elems
<1>5. CASE file.kind \in {"missing", "badyaml"}
  <2>1. pc' = "print" /\ \E k \in {"FileNotFound", "YAMLError"} : errors' = <<Diag(k, NoName)>>
    BY <1>1, <1>5 DEF LoadSchema
  <2>2. NoRepeats(errors')
    BY <2>1 DEF NoRepeats
  <2>3. ASSUME NEW e \in Elems(errors') PROVE ErrorPlace(e)'
    BY <2>1 DEF Elems, ErrorPlace, Done
  <2>4. QED
    BY <2>1, <2>2, <2>3 DEF RInv
<1>6. QED
  BY <1>2, <1>3, <1>4, <1>5

\* _validate_schema_version appends at most one diagnostic of its own kinds
LEMMA VersionRInv == IInv /\ RInv /\ ValidateSchemaVersion => RInv'
<1> SUFFICES ASSUME IInv, RInv, ValidateSchemaVersion PROVE RInv'
  OBVIOUS
<1> DEFINE bad == schema_data.t = "null" \/
                  (HasKey(schema_data, "schema_version") /\
                   schema_data.d["schema_version"].t # "str")
<1>1. CASE bad
  BY <1>1, RaiseRInv DEF ValidateSchemaVersion
<1>2. CASE ~bad
  <2>1. /\ pc = "version" /\ pc' = "types"
        /\ \/ errors' = errors
           \/ \E k \in VersionKinds : errors' = Append(errors, Diag(k, NoName))
        /\ UNCHANGED <<schema_data, idx>>
    BY <1>2 DEF ValidateSchemaVersion, VersionKinds
  <2>2. ASSUME NEW e \in Elems(errors) PROVE ErrorPlace(e)'
    <3>1. ErrorPlace(e)
      BY DEF RInv
    <3>2. e.kind \notin VersionKinds \cup KeyKinds \cup {"MissingDatastoreKeys"}
                        \cup EventKinds \cup {"TooManyHotKeys", "HotKeyTooLarge"}
      BY <2>1, <3>1 DEF ErrorPlace, AfterVersion, AfterKeys, Done
    <3>2a. "types" \in AfterVersion
      BY DEF AfterVersion
    <3>3. QED
      BY <2>1, <3>2, <3>2a DEF ErrorPlace, VersionKinds, KeyKinds, EventKinds
  <2>3. CASE errors' = errors
    BY <2>1, <2>2, <2>3 DEF RInv
  <2>4. CASE \E k \in VersionKinds : errors' = Append(errors, Diag(k, NoName))
    <3>1. PICK k \in VersionKinds : errors' = Append(errors, Diag(k, NoName))
      BY <2>4
    <3>2. Diag(k, NoName) \in Diagnostics
      BY DiagType DEF VersionKinds, ErrorKinds
    <3>3. Diag(k, NoName) \notin Elems(errors)
      <4>1. ASSUME NEW e \in Elems(errors), e.kind = k PROVE FALSE
        BY <2>1, <4>1 DEF RInv, ErrorPlace, AfterVersion, Done
      <4>2. QED
        BY <4>1 DEF Diag
    <3>4. NoRepeats(errors') /\ Elems(errors') = Elems(errors) \cup {Diag(k, NoName)}
      BY <3>1, <3>2, <3>3, AppendNoRepeats DEF RInv, IInv, TypeOK
    <3>5. ErrorPlace(Diag(k, NoName))'
      BY <2>1 DEF ErrorPlace, Diag, VersionKinds, KeyKinds, EventKinds, AfterVersion
    <3>6. QED
      BY <2>1, <2>2, <3>4, <3>5 DEF RInv
  <2>5. QED
    BY <2>1, <2>3, <2>4
<1>3. QED
  BY <1>1, <1>2

\* _load_custom_types appends nothing
LEMMA TypesRInv == IInv /\ RInv /\ LoadCustomTypes => RInv'
<1> SUFFICES ASSUME IInv, RInv, LoadCustomTypes PROVE RInv'
  OBVIOUS
<1>1. CASE HasKey(schema_data, "types") /\ schema_data.d["types"].t # "dict"
  BY <1>1, RaiseRInv DEF LoadCustomTypes
<1>2. CASE ~(HasKey(schema_data, "types") /\ schema_data.d["types"].t # "dict")
  <2>1. pc = "types" /\ pc' = "keys" /\ UNCHANGED <<errors, schema_data, idx>>
    BY <1>2 DEF LoadCustomTypes
  <2>2. ASSUME NEW e \in Elems(errors) PROVE ErrorPlace(e)'
    <3>1. ErrorPlace(e)
      BY DEF RInv
    <3>2. QED
      BY <2>1, <3>1 DEF ErrorPlace, AfterVersion, AfterKeys, Done
  <2>3. QED
    BY <2>1, <2>2 DEF RInv
<1>3. QED
  BY <1>1, <1>2

\* _validate_datastore_keys starts its loop with no key diagnostic in
\* errors, or appends the one for a missing section
LEMMA DatastoreKeysRInv == IInv /\ RInv /\ ValidateDatastoreKeys => RInv'
<1> SUFFICES ASSUME IInv, RInv, ValidateDatastoreKeys PROVE RInv'
  OBVIOUS
<1>0. \A e \in Elems(errors) :
         e.kind \notin KeyKinds \cup {"MissingDatastoreKeys"} \cup EventKinds
                       \cup {"TooManyHotKeys", "HotKeyTooLarge"}
  BY DEF RInv, ErrorPlace, ValidateDatastoreKeys, AfterKeys, Done
<1>1. CASE HasKey(schema_data, "datastore_keys") /\ Keys.t # "map"
  BY <1>1, RaiseRInv DEF ValidateDatastoreKeys
<1>2. CASE HasKey(schema_data, "datastore_keys") /\ Keys.t = "map"
  <2>1. pc' = "keyLoop" /\ idx' = 1 /\ UNCHANGED <<errors, schema_data>>
    BY <1>2 DEF ValidateDatastoreKeys
  <2>2. ASSUME NEW e \in Elems(errors) PROVE ErrorPlace(e)'
    <3>1. ErrorPlace(e)
      BY DEF RInv
    <3>2. QED
      BY <1>0, <2>1, <3>1 DEF ErrorPlace, AfterVersion, AfterKeys, VersionKinds
  <2>3. QED
    BY <2>1, <2>2 DEF RInv
<1>3. CASE ~HasKey(schema_data, "datastore_keys")
  <2> DEFINE x == Diag("MissingDatastoreKeys", NoName)
  <2>1. pc' = "events" /\ idx' = 1 /\ errors' = Append(errors, x)
        /\ UNCHANGED schema_data
    BY <1>3 DEF ValidateDatastoreKeys
  <2>2. x \in Diagnostics /\ x \notin Elems(errors)
    BY <1>0, DiagType DEF ErrorKinds, Diag
  <2>3. NoRepeats(errors') /\ Elems(errors') = Elems(errors) \cup {x}
    BY <2>1, <2>2, AppendNoRepeats DEF RInv, IInv, TypeOK
  <2>4. ASSUME NEW e \in Elems(errors') PROVE ErrorPlace(e)'
    <3>1. CASE e \in Elems(errors)
      <4>1. ErrorPlace(e)
        BY <3>1 DEF RInv
      <4>2. QED
        BY <1>0, <2>1, <3>1, <4>1 DEF ErrorPlace, AfterVersion, AfterKeys, VersionKinds
    <3>2. CASE e = x
      BY <2>1, <3>2 DEF ErrorPlace, Diag, VersionKinds, KeyKinds, EventKinds, AfterKeys
    <3>3. QED
      BY <2>3, <3>1, <3>2
  <2>5. QED
    BY <2>1, <2>3, <2>4 DEF RInv
<1>4. QED
  BY <1>1, <1>2, <1>3

\* an iteration of the key loop appends diagnostics naming a key no
\* earlier iteration named
LEMMA KeyLoopRInv == IInv /\ RInv /\ DatastoreKeysLoop => RInv'
<1> SUFFICES ASSUME IInv, RInv, DatastoreKeysLoop PROVE RInv'
  OBVIOUS
<1>0. /\ pc = "keyLoop" /\ IsMappingOf(Keys, KeyNames) /\ Keys.t = "map"
      /\ idx \in Nat \ {0}
  BY KeysMapping DEF DatastoreKeysLoop, IInv, TypeOK
<1>1. CASE idx > Len(Keys.m)
  <2>1. pc' = "events" /\ UNCHANGED <<errors, schema_data, idx>>
    BY <1>1 DEF DatastoreKeysLoop
  <2>2. ASSUME NEW e \in Elems(errors) PROVE ErrorPlace(e)'
    <3>1. ErrorPlace(e)
      BY DEF RInv
    <3>2. QED
      BY <1>0, <2>1, <3>1 DEF ErrorPlace, AfterVersion, AfterKeys, Done
  <2>3. QED
    BY <2>1, <2>2 DEF RInv
<1>2. CASE ~(idx > Len(Keys.m)) /\ KeyRaises(ItemSpec(Keys, idx))
  BY <1>2, RaiseRInv DEF DatastoreKeysLoop
<1>3. CASE ~(idx > Len(Keys.m)) /\ ~KeyRaises(ItemSpec(Keys, idx))
  <2> DEFINE n == ItemName(Keys, idx)
             ke == KeyErrors(n, ItemSpec(Keys, idx))
  <2>1. pc' = "keyLoop" /\ errors' = errors \o ke /\ idx' = idx + 1
        /\ UNCHANGED schema_data
    BY <1>3 DEF DatastoreKeysLoop
  <2>2. n \notin Seen(Keys, idx) /\ Seen(Keys, idx + 1) = Seen(Keys, idx) \cup {n}
    BY <1>0, <1>3, FreshName
  <2>3. ke \in Seq(DiagsOf(KeyKinds, n)) /\ NoRepeats(ke)
    BY <1>3, KeyErrorsShape
  <2>4. ke \in Seq(Diagnostics)
    BY <1>0, <1>3, KeysName, KeyErrorsType DEF IInv, AfterVersion, AfterKeys
  <2>5. \A e \in Elems(ke) : e.kind \in KeyKinds /\ e.name = n
    <3>1. Elems(ke) \subseteq DiagsOf(KeyKinds, n)
      BY <2>3, ElemsInSeq
    <3>2. QED
      BY <3>1 DEF DiagsOf
  <2>6. Elems(errors) \cap Elems(ke) = {}
    BY <1>0, <2>2, <2>5 DEF RInv, ErrorPlace
  <2>7. NoRepeats(errors') /\ Elems(errors') = Elems(errors) \cup Elems(ke)
    BY <2>1, <2>3, <2>4, <2>6, ConcatNoRepeats DEF RInv, IInv, TypeOK
  <2>8. ASSUME NEW e \in Elems(errors') PROVE ErrorPlace(e)'
    <3>1. CASE e \in Elems(errors)
      <4>1. ErrorPlace(e)
        BY <3>1 DEF RInv
      <4>2. QED
        BY <1>0, <2>1, <2>2, <4>1 DEF ErrorPlace, Keys, Events
    <3>2. CASE e \in Elems(ke)
      <4>1. e.kind \in KeyKinds /\ e.name \in Seen(Keys, idx + 1)
        BY <2>2, <2>5, <3>2
      <4>2. QED
        BY <1>0, <2>1, <4>1 DEF ErrorPlace, Keys, KeyKinds, VersionKinds, EventKinds,
                              AfterKeys
    <3>3. QED
      BY <2>7, <3>1, <3>2
  <2>9. QED
    BY <2>1, <2>7, <2>8 DEF RInv
<1>4. QED
  BY <1>1, <1>2, <1>3

\* _validate_eventbus_events starts its loop with no event diagnostic in
\* errors, and appends nothing
LEMMA EventsRInv == IInv /\ RInv /\ ValidateEventbusEvents => RInv'
<1> SUFFICES ASSUME IInv, RInv, ValidateEventbusEvents PROVE RInv'
  OBVIOUS
<1>0. \A e \in Elems(errors) :
         e.kind \notin EventKinds \cup {"TooManyHotKeys", "HotKeyTooLarge"}
  BY DEF RInv, ErrorPlace, ValidateEventbusEvents, Done
<1>1. CASE HasKey(schema_data, "eventbus_events") /\ Events.t # "map"
  BY <1>1, RaiseRInv DEF ValidateEventbusEvents
<1>2. CASE ~(HasKey(schema_data, "eventbus_events") /\ Events.t # "map")
  <2>1. pc = "events" /\ pc' \in {"eventLoop", "hot"} /\ idx' = 1
        /\ UNCHANGED <<errors, schema_data>>
    BY <1>2 DEF ValidateEventbusEvents
  <2>2. ASSUME NEW e \in Elems(errors) PROVE ErrorPlace(e)'
    <3>1. ErrorPlace(e)
      BY DEF RInv
    <3>2. QED
      BY <1>0, <2>1, <3>1 DEF ErrorPlace, AfterVersion, AfterKeys
  <2>3. QED
    BY <2>1, <2>2 DEF RInv
<1>3. QED
  BY <1>1, <1>2

\* an iteration of the event loop appends diagnostics naming an event no
\* earlier iteration named
LEMMA EventLoopRInv == IInv /\ RInv /\ EventbusEventsLoop => RInv'
<1> SUFFICES ASSUME IInv, RInv, EventbusEventsLoop PROVE RInv'
  OBVIOUS
<1>0. /\ pc = "eventLoop" /\ IsMappingOf(Events, EventNames) /\ Events.t = "map"
      /\ idx \in Nat \ {0}
  BY EventsMapping DEF EventbusEventsLoop, IInv, TypeOK
<1>1. CASE idx > Len(Events.m)
  <2>1. pc' = "hot" /\ UNCHANGED <<errors, schema_data, idx>>
    BY <1>1 DEF EventbusEventsLoop
  <2>2. ASSUME NEW e \in Elems(errors) PROVE ErrorPlace(e)'
    <3>1. ErrorPlace(e)
      BY DEF RInv
    <3>2. QED
      BY <1>0, <2>1, <3>1 DEF ErrorPlace, AfterVersion, AfterKeys, Done
  <2>3. QED
    BY <2>1, <2>2 DEF RInv
<1>2. CASE ~(idx > Len(Events.m)) /\ ItemSpec(Events, idx).t = "null"
  BY <1>2, RaiseRInv DEF EventbusEventsLoop
<1>3. CASE ~(idx > Len(Events.m)) /\ ItemSpec(Events, idx).t # "null"
  <2> DEFINE n == ItemName(Events, idx)
             ee == EventErrors(n, ItemSpec(Events, idx))
  <2>1. pc' = "eventLoop" /\ errors' = errors \o ee /\ idx' = idx + 1
        /\ UNCHANGED schema_data
    BY <1>3 DEF EventbusEventsLoop
  <2>2. n \notin Seen(Events, idx) /\ Seen(Events, idx + 1) = Seen(Events, idx) \cup {n}
    BY <1>0, <1>3, FreshName
  <2>3. ee \in Seq(DiagsOf(EventKinds, n)) /\ NoRepeats(ee)
    BY EventErrorsShape
  <2>4. ee \in Seq(Diagnostics)
    BY <1>0, <1>3, EventsName, EventErrorsType DEF IInv, AfterVersion
  <2>5. \A e \in Elems(ee) : e.kind \in EventKinds /\ e.name = n
    <3>1. Elems(ee) \subseteq DiagsOf(EventKinds, n)
      BY <2>3, ElemsInSeq
    <3>2. QED
      BY <3>1 DEF DiagsOf
  <2>6. Elems(errors) \cap Elems(ee) = {}
    BY <1>0, <2>2, <2>5 DEF RInv, ErrorPlace
  <2>7. NoRepeats(errors') /\ Elems(errors') = Elems(errors) \cup Elems(ee)
    BY <2>1, <2>3, <2>4, <2>6, ConcatNoRepeats DEF RInv, IInv, TypeOK
  <2>8. ASSUME NEW e \in Elems(errors') PROVE ErrorPlace(e)'
    <3>1. CASE e \in Elems(errors)
      <4>1. ErrorPlace(e)
        BY <3>1 DEF RInv
      <4>2. QED
        BY <1>0, <2>1, <2>2, <4>1 DEF ErrorPlace, Keys, Events
    <3>2. CASE e \in Elems(ee)
      <4>1. e.kind \in EventKinds /\ e.name \in Seen(Events, idx + 1)
        BY <2>2, <2>5, <3>2
      <4>2. QED
        BY <1>0, <2>1, <4>1 DEF ErrorPlace, Events, KeyKinds, VersionKinds, EventKinds
    <3>3. QED
      BY <2>7, <3>1, <3>2
  <2>9. QED
    BY <2>1, <2>7, <2>8 DEF RInv
<1>4. QED
  BY <1>1, <1>2, <1>3

\* _validate_hot_keys appends the count diagnostic at most once and starts
\* its loop with no size diagnostic in errors
LEMMA HotRInv == IInv /\ RInv /\ ValidateHotKeys => RInv'
<1> SUFFICES ASSUME IInv, RInv, ValidateHotKeys PROVE RInv'
  OBVIOUS
<1>0. /\ pc = "hot"
      /\ \A e \in Elems(errors) : e.kind \notin {"TooManyHotKeys", "HotKeyTooLarge"}
  BY DEF RInv, ErrorPlace, ValidateHotKeys, Done
<1>1. ASSUME NEW e \in Elems(errors), pc' \in {"print", "hotLoop"},
             UNCHANGED <<schema_data, errors>>
      PROVE  ErrorPlace(e)'
  <2>1. ErrorPlace(e)
    BY DEF RInv
  <2>2. QED
    BY <1>0, <1>1, <2>1 DEF ErrorPlace, AfterVersion, AfterKeys, Done
<1>2. CASE ~HasKey(schema_data, "datastore_keys")
  <2>1. pc' = "print" /\ UNCHANGED <<schema_data, errors>>
    BY <1>2 DEF ValidateHotKeys
  <2>2. QED
    BY <1>1, <2>1 DEF RInv
<1>3. CASE HasKey(schema_data, "datastore_keys")
  <2> DEFINE x == Diag("TooManyHotKeys", NoName)
  <2>1. /\ pc' = "hotLoop" /\ idx' = 1 /\ UNCHANGED schema_data
        /\ errors' \in {errors, Append(errors, x)}
    BY <1>3 DEF ValidateHotKeys
  <2>2. CASE errors' = errors
    BY <1>1, <2>1, <2>2 DEF RInv
  <2>3. CASE errors' = Append(errors, x)
    <3>1. x \in Diagnostics /\ x \notin Elems(errors)
      BY <1>0, DiagType DEF ErrorKinds, Diag
    <3>2. NoRepeats(errors') /\ Elems(errors') = Elems(errors) \cup {x}
      BY <2>3, <3>1, AppendNoRepeats DEF RInv, IInv, TypeOK
    <3>3. ASSUME NEW e \in Elems(errors') PROVE ErrorPlace(e)'
      <4>1. CASE e \in Elems(errors)
        <5>1. ErrorPlace(e)
          BY <4>1 DEF RInv
        <5>2. QED
          BY <1>0, <2>1, <4>1, <5>1 DEF ErrorPlace, AfterVersion, AfterKeys, Done
      <4>2. CASE e = x
        BY <2>1, <4>2 DEF ErrorPlace, Diag, VersionKinds, KeyKinds, EventKinds
      <4>3. QED
        BY <3>2, <4>1, <4>2
    <3>4. QED
      BY <2>1, <3>2, <3>3 DEF RInv
  <2>4. QED
    BY <2>1, <2>2, <2>3
<1>4. QED
  BY <1>2, <1>3

\* an iteration of the hot-key size loop appends at most one diagnostic,
\* naming a key no earlier iteration named
LEMMA HotLoopRInv == IInv /\ RInv /\ HotKeysLoop => RInv'
<1> SUFFICES ASSUME IInv, RInv, HotKeysLoop PROVE RInv'
  OBVIOUS
<1>0. /\ pc = "hotLoop" /\ IsMappingOf(Keys, KeyNames) /\ Keys.t = "map"
      /\ idx \in Nat \ {0}
  BY KeysMapping DEF HotKeysLoop, IInv, TypeOK
<1>1. CASE idx > Len(Keys.m)
  <2>1. pc' = "print" /\ UNCHANGED <<errors, schema_data, idx>>
    BY <1>1 DEF HotKeysLoop
  <2>2. ASSUME NEW e \in Elems(errors) PROVE ErrorPlace(e)'
    <3>1. ErrorPlace(e)
      BY DEF RInv
    <3>2. QED
      BY <1>0, <2>1, <3>1 DEF ErrorPlace, Done
  <2>3. QED
    BY <2>1, <2>2 DEF RInv
<1>2. CASE ~(idx > Len(Keys.m)) /\ IsHot(idx) /\ ~HasKey(ItemSpec(Keys, idx), "type")
  BY <1>2, RaiseRInv DEF HotKeysLoop
<1>3. CASE ~(idx > Len(Keys.m)) /\ ~(IsHot(idx) /\ ~HasKey(ItemSpec(Keys, idx), "type"))
  <2> DEFINE n == ItemName(Keys, idx)
             sz == HotKeySizeError(n, ItemSpec(Keys, idx), MAX_HOT_KEY_SIZE_BYTES)
  <2>1. /\ pc' = "hotLoop" /\ idx' = idx + 1 /\ UNCHANGED schema_data
        /\ errors' \in {errors \o sz, errors}
    BY <1>3 DEF HotKeysLoop
  <2>2. n \notin Seen(Keys, idx) /\ Seen(Keys, idx + 1) = Seen(Keys, idx) \cup {n}
    BY <1>0, <1>3, FreshName
  <2>3. ASSUME NEW e \in Elems(errors) PROVE ErrorPlace(e)'
    <3>1. ErrorPlace(e)
      BY DEF RInv
    <3>2. QED
      BY <1>0, <2>1, <2>2, <3>1 DEF ErrorPlace, Keys, Events
  <2>4. CASE errors' = errors
    BY <2>1, <2>3, <2>4 DEF RInv
  <2>5. CASE errors' = errors \o sz
    <3>1. sz \in Seq(DiagsOf({"HotKeyTooLarge"}, n)) /\ NoRepeats(sz)
      BY HotKeySizeErrorShape
    <3>2. sz \in Seq(Diagnostics)
      BY <1>0, <1>3, KeysName, HotKeySizeErrorType DEF IInv, AfterVersion, AfterKeys
    <3>3. \A e \in Elems(sz) : e.kind = "HotKeyTooLarge" /\ e.name = n
      <4>1. Elems(sz) \subseteq DiagsOf({"HotKeyTooLarge"}, n)
        BY <3>1, ElemsInSeq
      <4>2. QED
        BY <4>1 DEF DiagsOf
    <3>4. Elems(errors) \cap Elems(sz) = {}
      BY <1>0, <2>2, <3>3 DEF RInv, ErrorPlace
    <3>5. NoRepeats(errors') /\ Elems(errors') = Elems(errors) \cup Elems(sz)
      BY <2>5, <3>1, <3>2, <3>4, ConcatNoRepeats DEF RInv, IInv, TypeOK
    <3>6. ASSUME NEW e \in Elems(sz) PROVE ErrorPlace(e)'
      <4>1. e.kind = "HotKeyTooLarge" /\ e.name \in Seen(Keys, idx + 1)
        BY <2>2, <3>3
      <4>2. Seen(Keys, idx)' = Seen(Keys, idx + 1)
        BY <2>1 DEF Seen, Keys
      <4>3. e.kind \notin VersionKinds \cup KeyKinds \cup {"MissingDatastoreKeys"} \cup EventKinds
        BY <4>1 DEF KeyKinds, VersionKinds, EventKinds
      <4>4. QED
        BY <2>1, <4>1, <4>2, <4>3 DEF ErrorPlace
    <3>7. QED
      BY <2>1, <2>3, <3>5, <3>6 DEF RInv
  <2>6. QED
    BY <2>1, <2>4, <2>5
<1>4. QED
  BY <1>1, <1>2, <1>3

\* print_results and sys.exit change no diagnostic
LEMMA PrintRInv == RInv /\ PrintResults => RInv'
<1> SUFFICES ASSUME RInv, PrintResults PROVE RInv'
  OBVIOUS
<1>1. pc' = "exited" /\ errors' = errors
  BY DEF PrintResults
<1>2. ASSUME NEW e \in Elems(errors) PROVE ErrorPlace(e)'
  BY <1>1 DEF ErrorPlace, Done
<1>3. QED
  BY <1>1, <1>2 DEF RInv

LEMMA NextRInv == IInv /\ RInv /\ [Next]_vars => RInv'
<1> SUFFICES ASSUME IInv, RInv, [Next]_vars PROVE RInv'
  OBVIOUS
<1>1. CASE UNCHANGED vars \/ Terminated
  <2>1. UNCHANGED vars
    BY <1>1 DEF Terminated
  <2>2. QED
    BY <2>1 DEF vars, RInv, ErrorPlace, Keys, Events
<1>2. QED
  BY <1>1, LoadRInv, VersionRInv, TypesRInv, DatastoreKeysRInv, KeyLoopRInv,
     EventsRInv, EventLoopRInv, HotRInv, HotLoopRInv, PrintRInv DEF Next

\* A run never reports one diagnostic twice: not even a key or event name
\* that the document repeats, since yaml.safe_load has merged the
\* repetitions before _validate_datastore_keys and
\* _validate_eventbus_events look for duplicates.
THEOREM NoDuplicateErrors == Spec => []NoRepeats(errors)
<1>1. Init => IInv /\ RInv
  BY InitIInv, InitRInv
<1>2. IInv /\ RInv /\ [Next]_vars => IInv' /\ RInv'
  BY NextIInv, NextRInv
<1>3. IInv /\ RInv => NoRepeats(errors)
  BY DEF RInv
<1>4. QED
  BY <1>1, <1>2, <1>3, PTL DEF Spec

=============================================================================
