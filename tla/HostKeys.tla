------------------------------ MODULE HostKeys ------------------------------
(***************************************************************************)
(* HostVerifier and KnownHostsFile (synchrotron-git/src/known_hosts.rs) as *)
(* GitClient's certificate check uses them (client.rs).                    *)
(*                                                                         *)
(* A line of the file is the host forms it names, a key type and a key; how*)
(* it is spelt (plain or hashed, base64) is left out.  A line that cannot  *)
(* be parsed, or a comment, is Garbage and is skipped by load.  append does*)
(* not look for a newline: after a file that ends without one, as an       *)
(* operator may write it and a write that fails half way leaves it, the new*)
(* line becomes a part of the last.  A lookup takes any entry that fits, so*)
(* the loaded entries are a set.  All checks hold one mutex, so a check is *)
(* one step.                                                               *)
(***************************************************************************)
EXTENDS Naturals, Sequences, FiniteSets

CONSTANTS
  Hosts, Ports, DefaultPort,   \* 22
  KeyTypes, Keys,
  SeedLines,     \* contents the file may have at first: a set of sequences of lines
  MaxContacts    \* bound: checks made

\* A bare host is written <<h>>, a host with its port <<h, p>>.
HostForms == {<<h>> : h \in Hosts} \cup (Hosts \X Ports)
Garbage == [forms |-> {}, type |-> "garbage", key |-> "garbage"]
MixedKey == "mixed"    \* a key nobody has, read from a damaged line
HostLine == [forms : SUBSET HostForms, type : KeyTypes, key : Keys \cup {MixedKey}] \cup {Garbage}

ASSUME HostKeysAssumption ==
  /\ DefaultPort \in Ports /\ MaxContacts \in Nat
  /\ SeedLines \subseteq Seq(HostLine) /\ MixedKey \notin Keys

VARIABLES
  mode,       \* HostKeyMode
  fileLines,  \* the known_hosts file
  torn,       \* its last line has no newline
  entriesKnown,  \* KnownHostsFile::entries
  verdict,    \* the last check and its result
  pinned,     \* history: (host, port, type) -> the key accepted first, {} before
  everTorn,   \* history: a write failed half way
  glued,      \* history: a line was written onto one without a newline
  contacts

hostVars == <<mode, fileLines, torn, entriesKnown, verdict, pinned, everTorn, glued, contacts>>

HostLookupForms(h, p) == IF p = DefaultPort THEN {<<h>>} ELSE {<<h>>, <<h, p>>}
CanonicalHostForm(h, p) == IF p = DefaultPort THEN <<h>> ELSE <<h, p>>

ParseLine(line) == line # Garbage
Load == {l \in {fileLines[i] : i \in DOMAIN fileLines} : ParseLine(l)}

NoVerdict == [host |-> "none", port |-> 0, type |-> "none", key |-> "none", ok |-> FALSE]

HostKeysInit ==
  /\ mode \in {"Yes", "Ask", "AcceptNew", "No"}
  /\ fileLines \in SeedLines
  /\ torn \in {FALSE, fileLines # <<>>}
  /\ entriesKnown = Load
  /\ verdict = NoVerdict
  /\ pinned = [x \in Hosts \X Ports \X KeyTypes |-> {}]
  /\ everTorn = FALSE /\ glued = FALSE /\ contacts = 0

EntriesFor(h, p, t) ==
  {l \in entriesKnown : l.forms \cap HostLookupForms(h, p) # {} /\ l.type = t}

Verify(h, p, t, k) ==
  IF EntriesFor(h, p, t) = {} THEN "Unknown"
  ELSE IF \E l \in EntriesFor(h, p, t) : l.key = k THEN "Match" ELSE "Mismatch"

LineFor(h, p, t, k) == [forms |-> {CanonicalHostForm(h, p)}, type |-> t, key |-> k]

\* What a line is after it was cut short or had another written onto it: it no longer parses,
\* its key is another, or it ended in a comment (or lacks the newline only) and is what it was.
Damaged(l) == IF ParseLine(l) THEN {Garbage, l, [l EXCEPT !.key = MixedKey]} ELSE {Garbage}

\* append: the file first.  After a torn line the new one is part of it, and lost.
AppendedLines(l) ==
  IF torn THEN {[fileLines EXCEPT ![Len(fileLines)] = d] : d \in Damaged(fileLines[Len(fileLines)])}
  ELSE {Append(fileLines, l)}

\* mutant: remember the key in memory only
AppendInMemory(l) ==
  /\ entriesKnown' = entriesKnown \cup {l}
  /\ UNCHANGED <<fileLines, torn, everTorn, glued>>
AppendBoth(l) ==
  /\ entriesKnown' = entriesKnown \cup {l}
  /\ fileLines' \in AppendedLines(l) /\ torn' = FALSE
  /\ glued' = (glued \/ torn)
  /\ UNCHANGED everTorn

Pin(h, p, t, k) ==
  pinned' = IF pinned[<<h, p, t>>] = {} THEN [pinned EXCEPT ![<<h, p, t>>] = {k}] ELSE pinned

Decide(h, p, t, k, ok) ==
  /\ contacts < MaxContacts /\ contacts' = contacts + 1
  /\ verdict' = [host |-> h, port |-> p, type |-> t, key |-> k, ok |-> ok]
  /\ UNCHANGED mode

\* HostVerifier::check when it changes nothing.
CheckKnown(h, p, t, k) ==
  LET ok == mode = "No" \/ Verify(h, p, t, k) = "Match" IN
  /\ mode # "AcceptNew" \/ Verify(h, p, t, k) # "Unknown"
  /\ Decide(h, p, t, k, ok)
  /\ IF ok THEN Pin(h, p, t, k) ELSE UNCHANGED pinned
  /\ UNCHANGED <<fileLines, torn, entriesKnown, everTorn, glued>>

\* First contact under AcceptNew.
CheckAppends(h, p, t, k) ==
  /\ mode = "AcceptNew" /\ Verify(h, p, t, k) = "Unknown"
  /\ Decide(h, p, t, k, TRUE)
  /\ Pin(h, p, t, k)
  /\ AppendBoth(LineFor(h, p, t, k))

\* The write fails, before or in the middle of the line: the key is refused.
CheckAppendFails(h, p, t, k) ==
  /\ mode = "AcceptNew" /\ Verify(h, p, t, k) = "Unknown"
  /\ Decide(h, p, t, k, FALSE)
  /\ \/ UNCHANGED <<fileLines, torn, everTorn>>
     \/ /\ \E l \in Damaged(LineFor(h, p, t, k)) : fileLines' \in AppendedLines(l)
        /\ torn' = TRUE /\ everTorn' = TRUE
  /\ UNCHANGED <<entriesKnown, pinned, glued>>

Reload ==
  /\ entriesKnown # Load
  /\ entriesKnown' = Load
  /\ UNCHANGED <<mode, fileLines, torn, verdict, pinned, everTorn, glued, contacts>>

HostKeysNext ==
  \/ Reload
  \/ \E h \in Hosts, p \in Ports, t \in KeyTypes, k \in Keys :
       CheckKnown(h, p, t, k) \/ CheckAppends(h, p, t, k) \/ CheckAppendFails(h, p, t, k)

HostKeysSpec == HostKeysInit /\ [][HostKeysNext]_hostVars

-----------------------------------------------------------------------------
\* The keys of a type recorded for a host name, whatever the port.
RecordedFor(h, p, t) == {l.key : l \in EntriesFor(h, p, t)}

\* The key just accepted is the first one accepted for the same host, port and type, or both
\* are recorded for the host.
AcceptsAsPinned ==
  verdict'.ok /\ contacts' > contacts =>
    LET v == verdict'
        first == pinned[<<v.host, v.port, v.type>>]
    IN first \subseteq {v.key} \/ (v.key \in RecordedFor(v.host, v.port, v.type)
                                   /\ first \subseteq RecordedFor(v.host, v.port, v.type))

\* "TOFU: trust on first use, then verify forever after": unless checking is off, a key that
\* is accepted after the first for the same host, port and type is that first key again, or
\* one recorded for the host, and this survives a restart (Reload).  The file may forget once a
\* write failed half way or a pin was written onto a line without a newline (TrustForever).
HostKeysPinned == [][mode # "No" /\ ~everTorn /\ ~glued => AcceptsAsPinned]_hostVars

\* The same of a file whose last line has no newline, as long as every write succeeds.
TrustForever == [][mode # "No" /\ ~everTorn => AcceptsAsPinned]_hostVars
=============================================================================
