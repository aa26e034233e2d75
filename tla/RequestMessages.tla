--------------------------- MODULE RequestMessages ---------------------------
(***************************************************************************)
(* The messages a multipart copy derives from the CopyObject request of    *)
(* the user (s3_request_messages.c).  Headers are classes of header names  *)
(* the builders treat alike:                                               *)
(*   source       x-amz-copy-source                                        *)
(*   conditions   x-amz-copy-source-if-...                                 *)
(*   directives   x-amz-metadata-directive and the like                    *)
(*   payer        x-amz-request-payer                                      *)
(*   owner        x-amz-expected-bucket-owner                              *)
(*   source_owner x-amz-source-expected-bucket-owner                       *)
(*   attributes   ACL, grants, content headers, encryption, tags, locks    *)
(*   customer_key x-amz-server-side-encryption-customer-...                *)
(*   meta         x-amz-meta-...                                           *)
(*   checksum     values of checksums                                      *)
(*   if_none      if-none-match                                            *)
(*   length       Content-Length                                           *)
(***************************************************************************)
EXTENDS Integers

HeaderClasses == {"source", "conditions", "directives", "payer", "owner", "source_owner",
                  "attributes", "customer_key", "meta", "checksum", "if_none", "length"}

\* The excluded-header tables
CreateExcluded == {"length", "source", "if_none", "directives", "conditions"}
PartExcluded == {"attributes", "length", "if_none", "directives"}
CompleteExcluded == {"attributes", "length", "customer_key", "source"}
AbortExcluded == {"attributes", "length", "customer_key", "source", "if_none"}

\* s_copy_source_forwarded_headers: the class a header of the copy has on a
\* HEAD of the source.
Forwarded == [payer |-> "payer", source_owner |-> "owner"]

\* aws_s3_message_util_copy_headers
CopyHeaders(headers, excluded, excludeMeta, excludeChecksum) ==
    headers \ (excluded \cup (IF excludeMeta THEN {"meta"} ELSE {})
                        \cup (IF excludeChecksum THEN {"checksum"} ELSE {}))

\* A message: its headers, whether its query names the upload, the range of
\* the source it asks for, the part list of its body (which of the parts have
\* an ETag) and x-amz-mp-object-size, 0 when it has none.
Message(headers) ==
    [headers |-> headers, upload |-> FALSE, range |-> {}, parts |-> << >>, object_size |-> 0]

\* Mutant: the HEAD asserts the owner of the destination bucket.
ForwardUnmapped(headers) == headers \cap {"payer", "owner"}

\* s_s3_copy_source_object_head_forward_headers
ForwardHeaders(headers) == {Forwarded[h] : h \in headers \cap DOMAIN Forwarded}

\* aws_s3_get_source_object_size_message_new; without a source URI the source
\* is taken from x-amz-copy-source, whose absence is an error.
HasSource(initial) == initial.source_uri \/ "source" \in initial.headers
HeadMessage(initial) == Message(ForwardHeaders(initial.headers))

\* aws_s3_message_util_copy_http_message_no_body_all_headers
BypassMessage(initial) == Message(initial.headers)

\* aws_s3_create_multipart_upload_message_new
CreateMessage(initial) ==
    Message(CopyHeaders(initial.headers, CreateExcluded, FALSE, TRUE) \cup {"length"})

\* aws_s3_message_util_set_multipart_request_path, with an upload id
OfUpload(message) == [message EXCEPT !.upload = TRUE]

\* aws_s3_upload_part_copy_message_new
PartCopyMessage(initial, range) ==
    LET headers == CopyHeaders(initial.headers, PartExcluded, TRUE, TRUE) \cup {"length"}
    IN  [OfUpload(Message(headers)) EXCEPT !.range = range]

\* aws_s3_complete_multipart_message_with_object_size_new, without checksums
CompleteMessage(initial, parts, object_size) ==
    LET headers == CopyHeaders(initial.headers, CompleteExcluded, TRUE, FALSE) \cup {"length"}
    IN  [OfUpload(Message(headers)) EXCEPT !.parts = parts, !.object_size = object_size]

\* aws_s3_abort_multipart_upload_message_new
AbortMessage(initial) ==
    OfUpload(Message(CopyHeaders(initial.headers, AbortExcluded, TRUE, TRUE)))
=============================================================================
