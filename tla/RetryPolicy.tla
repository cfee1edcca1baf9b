---------------------------- MODULE RetryPolicy ----------------------------
(***************************************************************************)
(* Which errors are worth another attempt: RetryPolicy.shouldRetry, and    *)
(* normalizeError, by which the providers of the SDK turn what their       *)
(* service threw into a ProviderError.  An error is its class and the HTTP *)
(* status found in its code or statusCode, NoStatus if there is no number. *)
(***************************************************************************)
EXTENDS Integers

CONSTANT MaxAttempts   \* retry.maxAttempts

NoStatus == 0

RateLimitError == [class |-> "RateLimitError"]

(* The error of a provider that does not derive from BaseProvider *)
Unnormalized(status) == [class |-> "Error", status |-> status]

(* normalizeError(), for a service that answered with status *)
Normalized(status) ==
  [class |-> "ProviderError",
   retryable |-> status = NoStatus \/ status = 429 \/ status \in 500..599]

(* The ProviderError of deliver() when no provider is available *)
NoProvider == [class |-> "ProviderError", retryable |-> TRUE]

RetryableStatus(status) ==
  \/ status = NoStatus
  \/ status \notin {400, 401, 422} /\ (status = 429 \/ status >= 500)

(* shouldRetry(); attempt counts from 1 *)
ShouldRetry(error, attempt) ==
  /\ attempt < MaxAttempts
  /\ \/ error.class = "ProviderError" /\ error.retryable
     \/ error.class = "RateLimitError"
     \/ error.class = "Error" /\ RetryableStatus(error.status)
=============================================================================
