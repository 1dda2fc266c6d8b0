----------------------------- MODULE Certificates -----------------------------
(***************************************************************************)
(* The TLS certificate: internal/server/cert.go (CertManager, validateTLS) *)
(* and the goroutine that server.go starts to reload it on SIGHUP.         *)
(*                                                                         *)
(* The files are external: a renewal writes a certificate and its key one  *)
(* after the other, in any order, and a file may be missing for a while.   *)
(* Versions number the renewals; a certificate and a key go together when  *)
(* they are of one version.  os/signal is external too: SIGHUP ends the    *)
(* process until signal.Notify was called, and then goes into the channel, *)
(* which holds one and drops the next.                                     *)
(***************************************************************************)
EXTENDS Integers

CONSTANT MaxRenewals    \* bound on the renewals

Part == {"cert", "key"}
Missing == 0
NoPair == [part \in Part |-> Missing]

VARIABLES
  pem,          \* pem[part]: the version in the file
  issued,       \* the version the renewal client has issued last
  mode,         \* "off", "starting" (initial load), "http", "https"
  paths,        \* where tls_cert_file and tls_key_file lead: to the files,
                \*   elsewhere or nowhere (empty strings)
  manager,      \* CertManager.cert
  loader,       \* how far Load is
  read,         \* the certificate LoadX509KeyPair has read
  notified,     \* signal.Notify was called
  hangup,       \* signalChan holds a SIGHUP
  asked         \* the version that was whole on disk when a SIGHUP that was not
                \*   deadly came, until the files change (not in the code)

pemVars == <<pem, issued>>
certVars == <<pemVars, mode, paths, manager, loader, read, notified, hangup, asked>>

Whole(pair) == pair["cert"] = pair["key"] /\ pair["cert"] # Missing

-------------------------------------------------------------------------------

(* ServeHTTPS up to the end of NewCertManager: without paths there is       *)
(* nothing to load, and no certificate.                                     *)
ServeHTTPS(https, where) ==
  /\ mode = "off"
  /\ paths' = where
  /\ mode' = CASE ~https -> "http"
               [] https /\ where = "nowhere" -> "https"
               [] OTHER -> "starting"
  /\ loader' = IF mode' = "starting" THEN "stat" ELSE "idle"
  /\ UNCHANGED <<pemVars, manager, read, notified, hangup, asked>>

(* The end of Load.  A failed initial load means plain HTTP.                *)
Return(ok) ==
  /\ loader' = "idle"
  /\ mode' = CASE mode = "starting" /\ ok -> "https"
               [] mode = "starting" /\ ~ok -> "http"
               [] OTHER -> mode

Readable(part) == paths = "files" /\ pem[part] # Missing

(* Both files are there.                                                    *)
Stat ==
  /\ loader = "stat"
  /\ IF \A part \in Part : Readable(part)
     THEN loader' = "cert" /\ UNCHANGED mode
     ELSE Return(FALSE)
  /\ UNCHANGED <<pemVars, paths, manager, read, notified, hangup, asked>>

(* tls.LoadX509KeyPair reads one file and then the other.                   *)
ReadCert ==
  /\ loader = "cert"
  /\ read' = pem["cert"]
  /\ IF Readable("cert")
     THEN loader' = "key" /\ UNCHANGED mode
     ELSE Return(FALSE)
  /\ UNCHANGED <<pemVars, paths, manager, notified, hangup, asked>>

(* Mutant: certificate and key are not checked against each other.          *)
ReadKey_Unchecked ==
  /\ loader = "key"
  /\ manager' = [part \in Part |-> IF part = "cert" THEN read ELSE pem["key"]]
  /\ Return(TRUE)
  /\ UNCHANGED <<pemVars, paths, read, notified, hangup, asked>>

(* It checks that they go together, and Load stores them under m.mu.  An    *)
(* error leaves the manager as it is.                                       *)
ReadKey ==
  /\ loader = "key"
  /\ IF Readable("key") /\ pem["key"] = read
     THEN /\ manager' = [part \in Part |-> read]
          /\ Return(TRUE)
     ELSE /\ Return(FALSE)
          /\ UNCHANGED manager
  /\ UNCHANGED <<pemVars, paths, read, notified, hangup, asked>>

(* The goroutine calls signal.Notify some time after ServeHTTPS goes on.    *)
Notify ==
  /\ mode = "https" /\ ~notified
  /\ notified' = TRUE
  /\ UNCHANGED <<pemVars, mode, paths, manager, loader, read, hangup, asked>>

TakeHangup ==
  /\ notified /\ hangup /\ loader = "idle"
  /\ hangup' = FALSE
  /\ loader' = "stat"
  /\ UNCHANGED <<pemVars, mode, paths, manager, read, notified, asked>>

(* Mutant: the channel has no room, so that a SIGHUP during a load is lost. *)
Hangup_Unbuffered ==
  /\ notified
  /\ hangup' = (hangup \/ loader = "idle")
  /\ asked' = IF Whole(pem) THEN pem["cert"] ELSE Missing
  /\ UNCHANGED <<pemVars, mode, paths, manager, loader, read, notified>>

(* A SIGHUP that is not deadly.                                             *)
Hangup ==
  /\ notified
  /\ hangup' = TRUE
  /\ asked' = IF Whole(pem) THEN pem["cert"] ELSE Missing
  /\ UNCHANGED <<pemVars, mode, paths, manager, loader, read, notified>>

(* The end of the process.                                                  *)
Reset ==
  /\ mode' = "off" /\ loader' = "idle"
  /\ paths' = "nowhere" /\ manager' = NoPair /\ read' = Missing
  /\ notified' = FALSE /\ hangup' = FALSE /\ asked' = Missing
  /\ UNCHANGED pemVars

-------------------------------------------------------------------------------
(* The renewal client.                                                      *)

Issue ==
  /\ issued <= MaxRenewals /\ \A part \in Part : pem[part] = issued
  /\ issued' = issued + 1
  /\ UNCHANGED <<pem, mode, paths, manager, loader, read, notified, hangup, asked>>

Install(part) ==
  /\ pem[part] # issued
  /\ pem' = [pem EXCEPT ![part] = issued]
  /\ asked' = Missing
  /\ UNCHANGED <<issued, mode, paths, manager, loader, read, notified, hangup>>

Lose(part) ==
  /\ pem[part] # Missing
  /\ pem' = [pem EXCEPT ![part] = Missing]
  /\ asked' = Missing
  /\ UNCHANGED <<issued, mode, paths, manager, loader, read, notified, hangup>>

Renewal == Issue \/ \E part \in Part : Install(part) \/ Lose(part)

-------------------------------------------------------------------------------

CertInit ==
  /\ pem = [part \in Part |-> 1] /\ issued = 1
  /\ mode = "off" /\ loader = "idle"
  /\ paths = "nowhere" /\ manager = NoPair /\ read = Missing
  /\ notified = FALSE /\ hangup = FALSE /\ asked = Missing

Load == Stat \/ ReadCert \/ ReadKey

Reloading == Load \/ Notify \/ TakeHangup

-------------------------------------------------------------------------------

\* ADR-0006: certificates are replaced in place, without a restart.  Once the
\* server has a certificate it always has one with its own key, and never goes
\* back to an older one, whatever is on disk when a SIGHUP comes.
CertificatesMoveForward ==
  [][ mode = "https" /\ mode' = "https" /\ manager # NoPair =>
        Whole(manager') /\ manager'["cert"] >= manager["cert"] ]_certVars

\* A SIGHUP after a renewal is enough, also when it comes during a load: the
\* new pair is served in the end, unless it is replaced or the server goes
\* down before.
RenewalIsServed ==
  \A v \in 1 .. MaxRenewals + 1 :
    (asked = v /\ paths = "files" /\ pem = [part \in Part |-> v]) ~>
      (manager["cert"] = v \/ pem # [part \in Part |-> v] \/ mode # "https")

===============================================================================
