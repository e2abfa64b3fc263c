------------------------------- MODULE Config -------------------------------
(***************************************************************************)
(* Package config: what InitializeAppConfig makes of a .env file.  A       *)
(* configuration is the record that viper.Unmarshal fills; a number that   *)
(* is not set is 0 and a text that is not set is "".  JWTSecret stands for *)
(* the length of the secret, and AllowedOrigins for the parts of the list, *)
(* split at its commas and trimmed: <<>> is a list that is not set.        *)
(***************************************************************************)
EXTENDS Integers, Sequences

Configuration ==
    [Port : Int, Environment : STRING, DBPostgreDriver : STRING, DBPostgreDsn : STRING,
     DBPostgreURL : STRING, DBMaxOpenConns : Int, DBMaxIdleConns : Int, DBConnMaxLifeMins : Int,
     JWTSecret : Nat, JWTExpired : Int, JWTIssuer : STRING, JWTRefreshExpired : Int,
     OTPEmail : STRING, OTPPassword : STRING, OTPMaxAttempts : Int, MailerWorkers : Int,
     MailerQueueSize : Int, MailerRetries : Int, BcryptCost : Int, OTelExporter : STRING,
     OTelSampleRatio : Int, REDISHost : STRING, REDISPassword : STRING, REDISExpired : Int,
     AllowedOrigins : Seq(STRING)]

Defaults ==
    [DBMaxOpenConns |-> 25, DBMaxIdleConns |-> 5, DBConnMaxLifeMins |-> 15, OTPMaxAttempts |-> 5,
     MailerWorkers |-> 2, MailerQueueSize |-> 64, MailerRetries |-> 3, BcryptCost |-> 12,
     JWTRefreshExpired |-> 7, OTelSampleRatio |-> 1]

\* A number that is not set gets its default; the sample ratio only when there
\* is an exporter.
applyDefaults(c) ==
    [f \in DOMAIN c |->
        IF /\ f \in DOMAIN Defaults /\ c[f] = 0
           /\ f = "OTelSampleRatio" => c.OTelExporter # ""
        THEN Defaults[f] ELSE c[f]]

\* The settings without a default, which ErrEmptyVar is about.
Required(c) ==
    /\ 0 \notin {c.Port, c.JWTSecret, c.JWTExpired, c.REDISExpired}
    /\ "" \notin {c.Environment, c.JWTIssuer, c.OTPEmail, c.OTPPassword, c.REDISHost,
                  c.REDISPassword, c.DBPostgreDriver}

InRange(c) ==
    /\ c.Port \in 1..65535
    /\ c.JWTExpired \in 1..720
    /\ c.JWTRefreshExpired \in 1..365
    /\ c.JWTSecret >= 32
    /\ c.REDISExpired >= 1
    /\ c.DBMaxOpenConns >= 1
    /\ c.DBMaxIdleConns \in 0..c.DBMaxOpenConns
    /\ c.OTPMaxAttempts >= 1
    /\ c.BcryptCost \in 10..31

\* What each environment asks for; "malformed" is a URL that url.Parse refuses.
FitsEnvironment(c) ==
    \/ c.Environment = "development" /\ c.DBPostgreDsn # ""
    \/ /\ c.Environment = "production"
       /\ c.DBPostgreURL \notin {"", "malformed"}
       /\ c.AllowedOrigins # <<>>

\* InitializeAppConfig returns nil for what applyDefaults made of the file.
Accepted(c) == Required(c) /\ InRange(c) /\ FitsEnvironment(c)

AllowedOriginsList(c) ==
    IF c.AllowedOrigins = <<>>
    THEN IF c.Environment = "production" THEN <<>> ELSE <<"*">>
    ELSE SelectSeq(c.AllowedOrigins, LAMBDA part : part # "")

=============================================================================
