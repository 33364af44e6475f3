----------------------------- MODULE MCDownloader -----------------------------
(* Instances of Downloader for TLC.                                         *)
EXTENDS Downloader

CONSTANTS n1, n2, u1, u2, u3, s1, s2

TwoNotices == {n1, n2}
FirstFirst == <<n1, n2>>

\* A plain document, an archive and a protected document.  The archive holds a
\* name in two formats, a member nobody can read, and one more than MaxMembers.
ThreeUrls ==
    [u \in {u1, u2, u3} |->
        CASE u = u1 -> [kind |-> "plain", type |-> "pdf", refused |-> FALSE, members |-> <<>>]
          [] u = u2 -> [kind |-> "zip", type |-> "zip", refused |-> FALSE,
                        members |-> <<[stem |-> s1, ext |-> "pdf", content |-> "pdf"],
                                      [stem |-> s1, ext |-> "hwp", content |-> "hwpml"],
                                      [stem |-> s2, ext |-> "hwp", content |-> "drm"],
                                      [stem |-> NoStem, ext |-> "hwp", content |-> "ole"],
                                      [stem |-> s2, ext |-> "pdf", content |-> "other"],
                                      [stem |-> "c", ext |-> "pdf", content |-> "pdf"],
                                      [stem |-> "d", ext |-> "pdf", content |-> "zip"]>>]
          [] u = u3 -> [kind |-> "drm", type |-> "hwp", refused |-> FALSE, members |-> <<>>]]

Dotted(stem, ext) == [stem |-> stem, ext |-> ext, dotted |-> TRUE]
Undotted(stem) == [stem |-> stem, ext |-> "", dotted |-> FALSE]

\* Among them a name without a dot and one that begins with it.
Names == {Dotted(s1, "hwpx"), Dotted(s1, "pdf"), Dotted(s2, "zip"), Dotted(NoStem, "pdf"),
          Undotted(s1), Undotted(NoStem)}

Attachment(url, name) ==
    [url |-> url, stem |-> name.stem, ext |-> name.ext, dotted |-> name.dotted]

\* Everything with a name or a URL.
AllAttachments ==
    {Attachment(u, name) : u \in {u1, u2, u3, NoUrl}, name \in Names}
    \ {Attachment(NoUrl, Undotted(NoStem))}

OneDocument == <<Attachment(u1, Dotted(s1, "hwp"))>>

\* Those whose rules depend on one another.
Entangled == {Attachment(u1, Dotted(s1, "hwpx")),
              Attachment(u2, Dotted(s1, "pdf")),
              Attachment(u2, Dotted(s2, "zip"))}

WithOneDocument(lists) ==
    {[n \in TwoNotices |-> IF n = n1 THEN files ELSE OneDocument] : files \in lists}

\* Any one or two attachments of the first notice, or three entangled ones,
\* and one document of the second.
Various ==
    WithOneDocument({<<a>> : a \in AllAttachments}
                    \union {<<a, b>> : a, b \in AllAttachments}
                    \union {<<a, b, c>> : a, b, c \in Entangled})

===============================================================================
