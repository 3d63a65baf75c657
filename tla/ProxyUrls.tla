------------------------------ MODULE ProxyUrls ------------------------------
(***************************************************************************)
(* Proxied URLs (utils/url.ts): the destination and, in front of it, a     *)
(* descriptor of the request.  The descriptor names the session and the    *)
(* window, then the type of the resource (a set of flags) and further      *)
(* values without names: what a value means depends on its place and on    *)
(* the type.  A value is left out when there is none, so that the values   *)
(* behind it move up.                                                      *)
(***************************************************************************)
EXTENDS Naturals, Sequences

None == "none"
Present(value) == IF value = None THEN <<>> ELSE <<value>>

(* getProxyUrl: "dest" is the destination URL, "port" the proxy's port that serves it. *)
ProxyUrl(dest, port, opts) ==
    [dest |-> dest, port |-> port, type |-> opts.type,
     data |-> Present(opts.charset) \o Present(opts.credentials) \o Present(opts.reqOrigin)]

Options(type, charset, credentials, reqOrigin) ==
    [type |-> type, charset |-> charset, credentials |-> credentials, reqOrigin |-> reqOrigin]
NoOptions == Options({}, None, None, None)

(* parseRequestDescriptor: the values after the type, by the type. *)
ParseDescriptor(url) ==
    LET data == url.data
    IN IF data = <<>> \/ url.type = {} THEN Options(url.type, None, None, None)
       ELSE IF url.type \cap {"isScript", "isServiceWorker"} # {}
       THEN Options(url.type, data[1], None, None)
       ELSE IF url.type \cap {"isWebSocket", "isIframe"} # {}
       THEN Options(url.type, None, None, data[1])
       ELSE IF "isAjax" \in url.type
       THEN Options(url.type, None, data[1], IF Len(data) = 2 THEN data[2] ELSE None)
       ELSE Options(url.type, None, None, None)

(* The flags that getResourceTypeString writes into the URL of a redirect. *)
ContentTypeToken(isIframe, isAjax, isForm, isScript) ==
    (IF isIframe THEN {"isIframe"} ELSE {}) \cup (IF isAjax THEN {"isAjax"} ELSE {})
    \cup (IF isForm THEN {"isForm"} ELSE {}) \cup (IF isScript THEN {"isScript"} ELSE {})
===============================================================================
