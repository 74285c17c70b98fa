SPECIFICATION Spec
CONSTANTS
  Policy <- S3AfterDynamoDB
  MaxAttempts = 3
  Response <- Replies
  Failure = {"connection", "dns", "other"}
  Body = {"bytes", "file", "unseekable", "pipe"}
  ChecksFor200 = TRUE
  MaxRedirects = 2
INVARIANT EmbeddedErrorLikeA500
