------------------------------ MODULE MCOutbound ------------------------------
(* Small instances of OutboundSend. *)
EXTENDS OutboundSend

\* A text; a photo of no declared type; an HTML page under a photo's name; a HEIC photo; data with
\* no name.
Text == [from |-> "text", declared |-> None, extension |-> Unnamed, format |-> "unsigned"]
Photo == [from |-> "data", declared |-> "application/octet-stream", extension |-> "jpg",
          format |-> "jpeg"]
ErrorPage == [from |-> "path", declared |-> "image/jpeg", extension |-> "jpeg", format |-> "html"]
Heic == [from |-> "path", declared |-> "image/jpeg", extension |-> "jpg", format |-> "heic"]
NoName == [from |-> "data", declared |-> "image/png", extension |-> Unnamed, format |-> "png"]

\* A send, its retry, and a keyless send of two files by chat id that races both.
MCKeyOf == [r \in Requests |-> IF r = 3 THEN NoKey ELSE "k"]
MCKeys == {"k"}
MCContent == [r \in Requests |-> IF r = 3 THEN <<Heic, NoName>> ELSE <<Photo, ErrorPage>>]

\* Two keyless texts.
MCNoKeys == [r \in Requests |-> NoKey]
MCTexts == [r \in Requests |-> <<Text>>]
MCOneKey == [r \in Requests |-> "k"]
=============================================================================
