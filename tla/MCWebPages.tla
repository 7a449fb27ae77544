----------------------------- MODULE MCWebPages -----------------------------
EXTENDS WebPages

\* Documents of two pages, with images for a third asked for.
MCLength == [d \in Doc |-> 2]

\* A loan over two months, with interest.
MCInstallment ==
    [rate \in InterestRate |->
        [amount \in Money |-> amount \div 2 + (rate * amount) \div 100]]

MCFallback == [turnover |-> 200, expenses |-> 70, rate |-> 50]

MCFormType == [c \in FormCard |-> c]
=============================================================================
