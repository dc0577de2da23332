----------------------------- MODULE TlsIdentity -----------------------------
(***************************************************************************)
(* What Publisher::with_clock makes of the PEM files of the mqtt.tls       *)
(* section (mqttclient.rs and mqttclient/tls.rs).  A file is a sequence of *)
(* marks: [mark |-> "begin" or "end", kind |-> k] for the two lines around *)
(* a block of kind k, [mark |-> "text", kind |-> t] for what is between or *)
(* around them.  Whether native-tls accepts what it is given is not known  *)
(* here.                                                                   *)
(***************************************************************************)
EXTENDS Integers, SequencesExt

Begin(kind) == [mark |-> "begin", kind |-> kind]
End(kind) == [mark |-> "end", kind |-> kind]
Words(text) == [mark |-> "text", kind |-> text]

Invalid == [invalid |-> TRUE]

\* One turn of pem_blocks' loop, mark by mark: a block is open from its BEGIN
\* to the first END of its kind; mutant: only the first block is taken.
FirstOnly(acc, mark, kind) ==
  IF (acc.open \/ (mark = Begin(kind) /\ acc.taken = <<>>))
  THEN [open |-> mark # End(kind), taken |-> Append(acc.taken, mark)] ELSE acc
Take(acc, mark, kind) ==
  IF acc.open \/ mark = Begin(kind)
  THEN [open |-> mark # End(kind), taken |-> Append(acc.taken, mark)] ELSE acc

\* pem_blocks: the marks of every block of the kind, or Invalid when there is
\* none or one has no end.
PemBlocks(pem, kind) ==
  LET after[n \in 0..Len(pem)] ==
        IF n = 0 THEN [open |-> FALSE, taken |-> <<>>] ELSE Take(after[n - 1], pem[n], kind)
      end == after[Len(pem)]
  IN  IF end.open \/ end.taken = <<>> THEN Invalid ELSE end.taken

\* ca_certs: the bundle is cut after every END CERTIFICATE, and each part
\* with a BEGIN is a trust anchor; one without an END is no certificate.
Part(acc, mark) ==
  CASE mark = End("CERTIFICATE")   -> [anchors |-> acc.anchors + (IF acc.begun THEN 1 ELSE 0),
                                       begun |-> FALSE]
    [] mark = Begin("CERTIFICATE") -> [acc EXCEPT !.begun = TRUE]
    [] OTHER                       -> acc

Anchors(pem) ==
  LET parts == FoldLeft(Part, [anchors |-> 0, begun |-> FALSE], pem)
  IN  IF parts.begun THEN Invalid ELSE [anchors |-> parts.anchors]

\* identity: the chain of the certificate file and the key of the key file,
\* which may be the same file.
Identity(certfile, keyfile) ==
  LET chain == PemBlocks(certfile, "CERTIFICATE")
      key == PemBlocks(keyfile, "PRIVATE KEY")
  IN  IF chain = Invalid \/ key = Invalid THEN Invalid ELSE [chain |-> chain, key |-> key]
=============================================================================
