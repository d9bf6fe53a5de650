------------------------------- MODULE Mime -------------------------------
(***************************************************************************)
(* The table of file types of butil.c and the four functions that look up  *)
(* in it.  A string is a sequence of pieces, so that a string that starts  *)
(* with another one does so here; letters are lower case.                  *)
(***************************************************************************)
EXTENDS Integers, Sequences, SequencesExt

\* s_mimetab: type, extension without the dot, and name, in its order.  The rows
\* left out share type, extension and start of the name with no other row; css
\* and png stand for them.
MimeTab ==
  <<<<"bin", <<"bin">>, <<"application/octet-stream">>>>,
    <<"css", <<"css">>, <<"text/css">>>>,
    <<"html", <<"htm">>, <<"text/html">>>>, <<"html", <<"html">>, <<"text/html">>>>,
    <<"jpeg", <<"jpeg">>, <<"image/jpeg">>>>, <<"jpeg", <<"jpg">>, <<"image/jpeg">>>>,
    <<"text", <<"text">>, <<"text/plain">>>>, <<"text", <<"txt">>, <<"text/plain">>>>,
    <<"tiff", <<"tif">>, <<"image/tiff">>>>, <<"tiff", <<"tiff">>, <<"image/tiff">>>>,
    <<"multi", <<>>, <<"multipart/form-data">>>>,
    <<"arc", <<"arc">>, <<"application/octet-stream">>>>,
    <<"bz", <<"bz">>, <<"application/x-bzip">>>>, <<"bz2", <<"bz2">>, <<"application/x-bzip", "2">>>>,
    <<"midi", <<"mid">>, <<"audio/midi">>>>, <<"midi", <<"midi">>, <<"audio/midi">>>>,
    <<"qt", <<"mov">>, <<"video/quicktime">>>>,
    <<"png", <<"png">>, <<"image/png">>>>,
    <<"qt", <<"qt">>, <<"video/quicktime">>>>,
    <<"sh", <<"sh">>, <<"application/x-sh">>>>, <<"swf", <<"swf">>, <<"application/x-sh", "ockwave-flash">>>>,
    <<"woff", <<"woff">>, <<"font/woff">>>>, <<"woff2", <<"woff2">>, <<"font/woff", "2">>>>,
    <<"xls", <<"xls">>, <<"application/vnd.ms-excel">>>>,
    <<"xlsx", <<"xlsx">>, <<"application/vnd.ms-excel", "openxmlformats">>>>,
    <<"3gp", <<"3gp">>, <<"video/3gpp">>>>, <<"3g2", <<"3g2">>, <<"video/3gpp", "2">>>>>>

DefaultMime == <<"text/plain">>    \* BUTIL_DEFAULT_MIME
DefaultType == "bin"               \* butil_mime_bin

\* The first of the rows with these numbers, as the set of at most one.
FirstRow(numbers) == {MimeTab[i] : i \in {i \in numbers : \A j \in numbers : i <= j}}

\* Faulty form of Extension: what follows the first dot.
FirstExtension(path) ==
  LET dots == {i \in DOMAIN path : path[i] = "."}
  IN {SubSeq(path, i + 1, Len(path)) : i \in {i \in dots : \A j \in dots : i <= j}}

\* What follows the last dot of the path, if it has one.
Extension(path) ==
  LET dots == {i \in DOMAIN path : path[i] = "."}
  IN {SubSeq(path, i + 1, Len(path)) : i \in {i \in dots : \A j \in dots : j <= i}}

RowForFile(path) == FirstRow({i \in DOMAIN MimeTab : MimeTab[i][2] \in Extension(path)})

\* butil_mime_string_for_file and butil_content_type_for_file.  The two default
\* differently when the table has no row for the path.
MimeStringForFile(path)  == IF RowForFile(path) = {} THEN DefaultMime
                            ELSE (CHOOSE row \in RowForFile(path) : TRUE)[3]
ContentTypeForFile(path) == IF RowForFile(path) = {} THEN DefaultType
                            ELSE (CHOOSE row \in RowForFile(path) : TRUE)[1]

\* butil_mime_string_for_content_type of a type the table has.
MimeStringForType(type) ==
  (CHOOSE row \in FirstRow({i \in DOMAIN MimeTab : MimeTab[i][1] = type}) : TRUE)[3]

\* butil_content_type_for_mime_string: the first row whose name the string
\* starts with.
ContentTypeForMime(mime) ==
  LET rows == FirstRow({i \in DOMAIN MimeTab : IsPrefix(MimeTab[i][3], mime)})
  IN IF mime = <<>> \/ rows = {} THEN DefaultType ELSE (CHOOSE row \in rows : TRUE)[1]
=============================================================================
