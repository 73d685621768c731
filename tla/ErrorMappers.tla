---------------------------- MODULE ErrorMappers ----------------------------
(***************************************************************************)
(* src/server/errors/*-mapper.ts: the code a caller gets for an error of   *)
(* the S3 client. An error is what the mappers look at: its name, its Code *)
(* ("" when absent) and the HTTP status of the answer (0 without one).     *)
(***************************************************************************)
EXTENDS Naturals

AwsError == [name : STRING, Code : STRING, status : Nat]

AwsCode(e) == IF e.Code # "" THEN e.Code ELSE e.name

\* Fault: 404 is looked at before the bucket's own error.
MapAwsErrorByStatus(e) ==
    IF e.name = "NotFound" \/ e.status = 404 THEN "STORAGE_OBJECT_NOT_FOUND"
    ELSE IF AwsCode(e) = "NoSuchBucket" THEN "STORAGE_BUCKET_NOT_FOUND"
    ELSE "STORAGE_PROVIDER_ERROR"

\* The order matters: NoSuchBucket comes with status 404.
MapAwsError(e) ==
    IF AwsCode(e) = "NoSuchBucket" THEN "STORAGE_BUCKET_NOT_FOUND"
    ELSE IF e.name = "NotFound" \/ e.status = 404 THEN "STORAGE_OBJECT_NOT_FOUND"
    ELSE IF e.status = 304 THEN "STORAGE_NOT_MODIFIED"
    ELSE IF e.status = 412 THEN "STORAGE_PRECONDITION_FAILED"
    ELSE IF e.name = "TimeoutError" THEN "STORAGE_TIMEOUT"
    ELSE "STORAGE_PROVIDER_ERROR"

\* HeadBucket answers without a body: the status is all there is, and 404 is
\* the bucket's.
MapBucketCheckError(e) ==
    IF e.status = 301 \/ e.name = "PermanentRedirect" THEN "STORAGE_BUCKET_REGION_MISMATCH"
    ELSE IF e.status = 403 THEN "STORAGE_BUCKET_ACCESS_DENIED"
    ELSE IF e.status = 404 THEN "STORAGE_BUCKET_NOT_FOUND"
    ELSE MapAwsError(e)

\* Bucket lifecycle calls.
UnsupportedNames == {"NotImplemented", "XNotImplemented", "MethodNotAllowed"}
UnsupportedStatuses == {405, 501}
RejectedNames == {"MalformedXML", "InvalidArgument", "InvalidRequest", "BadRequest"}

IsNoLifecycleConfiguration(e) == AwsCode(e) = "NoSuchLifecycleConfiguration"

\* Fault: every server error counts as an API that is not implemented.
MapLifecycleErrorBroadly(e) ==
    IF AwsCode(e) \in UnsupportedNames \/ e.status >= 500 THEN "STORAGE_LIFECYCLE_UNSUPPORTED"
    ELSE IF AwsCode(e) \in RejectedNames THEN "STORAGE_LIFECYCLE_REJECTED"
    ELSE MapAwsError(e)

MapLifecycleError(e) ==
    IF AwsCode(e) \in UnsupportedNames \/ e.status \in UnsupportedStatuses
    THEN "STORAGE_LIFECYCLE_UNSUPPORTED"
    ELSE IF AwsCode(e) \in RejectedNames THEN "STORAGE_LIFECYCLE_REJECTED"
    ELSE MapAwsError(e)
=============================================================================
