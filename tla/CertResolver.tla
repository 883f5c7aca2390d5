---------------------------- MODULE CertResolver ----------------------------
(***************************************************************************)
(* The certificates that HTTPS is served with (tls.rs): pairs of files that*)
(* operators put into cert_dir (BYOC), read by certificate_reload_loop, and*)
(* managed certificates that the ACME manager installs.  Handshakes read   *)
(* the entries without a lock.                                             *)
(*                                                                         *)
(* A reload reads the directory file by file while operators change it.  A *)
(* pair is a certificate, or Broken: expired, for another name, or with a  *)
(* key that is missing or does not match yet.                              *)
(***************************************************************************)
EXTENDS Integers

CONSTANTS
    ByocNames,       \* names that only operators provide certificates for
    ManagedNames,    \* managed names
    NumCerts,        \* bound on certificates
    MaxFileEdits,    \* bound on changes of the directory
    NoCert, Broken, NoReload

CertNames == ByocNames \cup ManagedNames
Certs == 1..NumCerts
Entry == [source : {"byoc", "acme"}, cert : Certs]

ASSUME CertAssumption ==
    /\ NumCerts \in Nat /\ MaxFileEdits \in Nat
    /\ NoCert # Broken /\ NoCert \notin Certs
    /\ NoCert \notin Entry
    /\ NoReload \notin [current : [CertNames -> Entry \cup {NoCert}],
                        left : SUBSET CertNames,
                        next : [CertNames -> Entry \cup {NoCert}]]

VARIABLES
    entries,         \* name -> the certificate served, with its source
    certDir,         \* name -> what the pair of files holds
    reload,          \* the scan that reload_byoc has under way
    installed,       \* name -> the certificate that was installed last
    withdrawn,       \* names whose files an operator has removed
    edits

certVars == <<entries, certDir, reload, installed, withdrawn, edits>>

CertInit ==
    /\ entries = [n \in CertNames |-> NoCert]
    /\ certDir = [n \in CertNames |-> NoCert]
    /\ reload = NoReload
    /\ installed = [n \in ManagedNames |-> NoCert]
    /\ withdrawn = {}
    /\ edits = 0

Sourced(source, c) == [source |-> source, cert |-> c]
IsByoc(e) == e # NoCert /\ e.source = "byoc"

\* reload_byoc takes the write lock, loads the entries and lists the
\* directory.  A directory that cannot be read changes nothing.
StartReload ==
    /\ reload = NoReload
    /\ reload' = [current |-> entries,
                  left |-> {n \in CertNames : certDir[n] # NoCert},
                  next |-> [n \in CertNames |-> IF IsByoc(entries[n]) THEN NoCert ELSE entries[n]]]
    /\ UNCHANGED <<entries, certDir, installed, withdrawn, edits>>

\* What a listed pair contributes: nothing for a managed name, and what is
\* served now when the pair cannot be used, or is gone since it was listed.
PairEntry(n) ==
    IF n \in ManagedNames THEN reload.next[n]
    ELSE IF certDir[n] \in Certs THEN Sourced("byoc", certDir[n])
    ELSE IF IsByoc(reload.current[n]) THEN reload.current[n]
    ELSE NoCert

ReadPair(n) ==
    /\ reload # NoReload
    /\ n \in reload.left
    /\ reload' = [reload EXCEPT !.left = @ \ {n}, !.next[n] = PairEntry(n)]
    /\ UNCHANGED <<entries, certDir, installed, withdrawn, edits>>

FinishReload ==
    /\ reload # NoReload
    /\ reload.left = {}
    /\ entries' = reload.next
    /\ reload' = NoReload
    /\ UNCHANGED <<certDir, installed, withdrawn, edits>>

IsNew(n, c) == entries[n] # Sourced("acme", c)

Installed(n, c) ==
    /\ entries' = [entries EXCEPT ![n] = Sourced("acme", c)]
    /\ installed' = [installed EXCEPT ![n] = c]
    /\ UNCHANGED <<certDir, reload, withdrawn, edits>>

\* Mutant: install does not take the write lock.
InstallUnlocked(n, c) == IsNew(n, c) /\ Installed(n, c)

\* install, with a certificate that was issued or found in the store; it waits
\* for the write lock.
InstallCert(n, c) ==
    /\ reload = NoReload
    /\ IsNew(n, c)
    /\ Installed(n, c)

\* An operator adds a pair, writes a new one, half of one, or removes it.
EditFiles(n, content) ==
    /\ edits < MaxFileEdits
    /\ edits' = edits + 1
    /\ certDir[n] # content
    /\ certDir' = [certDir EXCEPT ![n] = content]
    /\ withdrawn' = IF content = NoCert THEN withdrawn \cup {n} ELSE withdrawn
    /\ UNCHANGED <<entries, reload, installed>>

CertNext ==
    \/ StartReload \/ FinishReload
    \/ \E n \in CertNames :
        ReadPair(n) \/ \E content \in Certs \cup {Broken, NoCert} : EditFiles(n, content)
    \/ \E n \in ManagedNames, c \in Certs : InstallCert(n, c)

CertSpec == CertInit /\ [][CertNext]_certVars

---------------------------------------------------------------------------

ManagedEntry(c) == IF c = NoCert THEN NoCert ELSE Sourced("acme", c)

\* A name that has a certificate keeps one, whatever operators write into the
\* directory in the middle of a scan, unless they remove its files; and a
\* managed name is served with the certificate installed last, in spite of
\* files of that name and of scans that began before.
CertificatesKept ==
    [][ /\ \A n \in CertNames :
            entries[n] # NoCert /\ n \notin withdrawn => entries'[n] # NoCert
        /\ \A n \in ManagedNames : entries'[n] = ManagedEntry(installed'[n])
      ]_certVars
=============================================================================
