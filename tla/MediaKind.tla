------------------------------- MODULE MediaKind -------------------------------
(***************************************************************************)
(* How a part of a message is sent: mediaKind.ts, and toMessageMedia and   *)
(* readAttachment of WhatsappService, as operators over one part.          *)
(*                                                                         *)
(* A mimetype that is no inline type and not generic is Other: nothing     *)
(* tells a PDF from a GIF. A declared type is what is left of it without   *)
(* its parameters; for a path that comes without one it is what the        *)
(* library derives from the path. Of a name only the extension counts, of  *)
(* the bytes the format that the first twelve or more of them show.        *)
(***************************************************************************)

None == "none"
Other == "other"
Unnamed == "no name"

INLINE_MIMETYPES ==
    {"image/jpeg", "image/png", "image/webp", "video/mp4", "video/3gpp", "video/quicktime",
     "audio/mpeg", "audio/mp4", "audio/aac", "audio/ogg", "audio/wav", "audio/amr"}
GENERIC_MIMETYPES == {"application/octet-stream", "binary/octet-stream", "application/unknown"}
Mimetypes == INLINE_MIMETYPES \cup GENERIC_MIMETYPES \cup {Other}

\* Extensions of formats that are sent as documents, and one that the table does not know.
OtherExtensions ==
    {"gif", "bmp", "heic", "mkv", "avi", "webm", "pdf", "doc", "docx", "xls", "xlsx", "ppt", "pptx",
     "txt", "csv", "json", "xml", "zip", "rar", "7z"}
MIME_BY_EXTENSION(e) ==
    CASE e \in {"jpg", "jpeg"}        -> "image/jpeg"
      [] e = "png"                    -> "image/png"
      [] e = "webp"                   -> "image/webp"
      [] e \in {"mp4", "m4v"}         -> "video/mp4"
      [] e = "3gp"                    -> "video/3gpp"
      [] e = "mov"                    -> "video/quicktime"
      [] e = "mp3"                    -> "audio/mpeg"
      [] e = "m4a"                    -> "audio/mp4"
      [] e = "aac"                    -> "audio/aac"
      [] e \in {"ogg", "oga", "opus"} -> "audio/ogg"
      [] e = "wav"                    -> "audio/wav"
      [] e = "amr"                    -> "audio/amr"
      [] e \in OtherExtensions        -> Other
      [] OTHER                        -> None

\* What the bytes are: a format with a signature, an ISO media file with its brand, a format that
\* has none (an MP3 without tags, a text), fewer than twelve bytes, no bytes at all.
Signed == {"jpeg", "png", "gif", "bmp", "webp", "wav", "matroska", "ogg", "id3", "pdf", "zip", "html"}
IsoMedia == {"qt", "3gp", "M4A", "mp42", "heic", "avif"}
Formats == Signed \cup IsoMedia \cup {"unsigned", "short", "empty"}

\* The brand of an ISO file counts only for these three: any other is a video, HEIC too.
sniffIsoMedia(format) ==
    CASE format = "qt"  -> "video/quicktime"
      [] format = "3gp" -> "video/3gpp"
      [] format = "M4A" -> "audio/mp4"
      [] OTHER          -> "video/mp4"

sniffMimetype(format) ==
    CASE format = "jpeg"      -> "image/jpeg"
      [] format = "png"       -> "image/png"
      [] format = "webp"      -> "image/webp"
      [] format = "wav"       -> "audio/wav"
      [] format = "ogg"       -> "audio/ogg"
      [] format = "id3"       -> "audio/mpeg"
      [] format \in IsoMedia  -> sniffIsoMedia(format)
      [] format \in {"gif", "bmp", "matroska", "pdf", "zip", "html"} -> Other
      [] OTHER                -> None

\* The declared type when it is specific, else the extension's, else one that says nothing.
resolveMimetype(declared, extension) ==
    IF declared \notin GENERIC_MIMETYPES \cup {None} THEN declared
    ELSE IF MIME_BY_EXTENSION(extension) # None THEN MIME_BY_EXTENSION(extension)
    ELSE "application/octet-stream"

canSendInline(mimetype) == mimetype \in INLINE_MIMETYPES

\* Mutant of verifiedMimetype, and a step of it: what the caller vouches for.
declaredMimetype(file) == resolveMimetype(file.declared, file.extension)
\* The content has the final say.
verifiedMimetype(file) ==
    IF sniffMimetype(file.format) # None THEN sniffMimetype(file.format) ELSE declaredMimetype(file)

\* A part: a text, or a file given by its path or as data, or as neither.
Part == [from : {"text", "path", "data", "nothing"}, declared : Mimetypes \cup {None},
         extension : STRING, format : Formats]

\* Data must come with a type and a name; what has no bytes is turned away.
BadFile(file) ==
    \/ file.from = "nothing"
    \/ file.from = "data" /\ (file.declared = None \/ file.extension = Unnamed)
    \/ file.format = "empty"

Kinds == {"text", "inline", "document", "bad"}
KindOf(p) ==
    IF p.from = "text" THEN "text"
    ELSE IF BadFile(p) THEN "bad"
    ELSE IF canSendInline(verifiedMimetype(p)) THEN "inline" ELSE "document"
=============================================================================
